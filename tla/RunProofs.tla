------------------------------ MODULE RunProofs ------------------------------
(***************************************************************************)
(* Machine-checked proofs about runs.                                      *)
(*                                                                         *)
(* RunAdmission, for every number of processes, run directories and        *)
(* requests, and every number of deaths and of lost pointers: a request    *)
(* that was acknowledged stays in the ledger, what a death leaves of a     *)
(* ledger can be gone on from, and the files keep what RunRegistry         *)
(* promises.                                                               *)
(*                                                                         *)
(* ReviewEvidence, for every number of hosts, stories, trees and mishaps:  *)
(* the files, the commands and Git keep what ReviewPromise promises.       *)
(***************************************************************************)
EXTENDS RunAdmission, ReviewEvidence, SequenceTheorems, TLAPS

-----------------------------------------------------------------------------
(* The inductive invariant                                                 *)

Requests == 0 .. MaxRequests
Named    == 0 .. MaxRuns            \* runs, or NoRun
Event    == {"note", "final"}

Places == {"idle", "lock", "claimed", "break", "look", "unlink", "rmdir",
           "decide", "prove", "reprove", "create", "publish", "intent",
           "append", "read", "ledger", "anchor", "check", "init", "close",
           "final", "clear", "note"}

Dir == [status : {"none", "running", "completed", "gone"},
        orch : Orchs \cup {"none"}, task : Requests, pipe : BOOLEAN,
        ledger : Seq(Requests), anchor : Seq(Requests), log : Seq(Event)]
Cmd == [at : Places, next : Places, orch : Orchs \cup {"none"},
        req : Requests, chk : Named, seen : Named, run : Named, made : BOOLEAN]

LockTyped ==
  /\ lock \in [Locks -> Procs \cup {"free", "empty", "dead"}]
  /\ claim \in [Locks -> Procs \cup {"none", "dead"}]
Typed ==
  /\ ptr \in [Orchs -> Named]
  /\ half \in SUBSET Orchs
  /\ run \in [Runs -> Dir]
  /\ proc \in [Procs -> Cmd]
  /\ acked \in SUBSET (Runs \X Requests)
  /\ requests \in Requests
  /\ count \in [{"resumes", "hooks", "crashes", "lost"} -> Nat]
  /\ LockTyped

(* Where a command stands.                                                 *)
Waits(p, n) == proc[p].at \in {"lock", "claimed", "break"} /\ proc[p].next = n
Leaves(p)   == proc[p].at \in {"unlink", "rmdir"}
Appends(p)  == \/ Leaves(p) /\ proc[p].next = "append"
               \/ Waits(p, "ledger")
               \/ proc[p].at \in {"ledger", "anchor"}
Makes(p)    == proc[p].at \in {"publish", "intent"} /\ proc[p].made

(* Which locks it holds there.                                             *)
HoldsState(p) ==
  \/ proc[p].at \in {"look", "unlink", "decide", "prove", "reprove", "create",
                     "publish", "intent"}
  \/ Waits(p, "reprove")
HoldsRun(p) ==
  \/ proc[p].at \in {"reprove", "ledger", "anchor", "init", "close", "final",
                     "clear", "note"}
  \/ proc[p].at = "publish" /\ ~proc[p].made
Claims(p) == proc[p].at \in {"claimed", "break"}

Held(p) ==
  /\ HoldsState(p) => lock[State] = p
  /\ HoldsRun(p) => lock[Mine(p)] = p
  /\ Claims(p) => lock[Wanted(p)] = "dead" /\ claim[Wanted(p)] = p

(* What its own record says there.                                         *)
Shaped(p) ==
  /\ proc[p].at = "idle" => proc[p] = Idle
  /\ proc[p].at \in {"lock", "claimed", "break"} =>
       proc[p].next \in {"look", "decide", "reprove", "ledger", "init",
                         "close", "note"}
  /\ Leaves(p) => proc[p].next \in {"idle", "decide", "append", "read"}
  /\ proc[p].at # "append"
  /\ proc[p].at = "prove" => proc[p].next = "reprove"
  /\ \/ proc[p].orch \in Orchs
     \/ proc[p].at = "idle" \/ proc[p].at = "note" \/ Waits(p, "note")
  /\ \/ Mine(p) # NoRun
     \/ proc[p].at \in {"idle", "look", "decide", "create"}
     \/ Waits(p, "look") \/ Waits(p, "decide")
     \/ Leaves(p) /\ proc[p].next \in {"idle", "decide"}
  /\ proc[p].made =>
       Makes(p) \/ Appends(p) \/ (Leaves(p) /\ proc[p].next = "idle")

(* What it knows of the runs: of one it made or is to recover, ...         *)
KnowsRun(p) ==
  /\ Mine(p) # NoRun => Status(Mine(p)) # "none"
  /\ proc[p].chk # NoRun => Status(proc[p].chk) # "none"
  /\ proc[p].made => Mine(p) # NoRun /\ run[Mine(p)].task = proc[p].req
  /\ Makes(p) => Status(Mine(p)) = "running" /\ ~run[Mine(p)].pipe
  /\ proc[p].at = "publish" => Status(Mine(p)) = "running"
(* ... of the ledger it writes, and of the run it ends.                    *)
KnowsLedger(p) ==
  proc[p].at = "anchor" =>
    /\ Status(Mine(p)) = "running"
    /\ run[Mine(p)].ledger # <<>> /\ proc[p].req \in ToSet(run[Mine(p)].ledger)
KnowsEnd(p) ==
  /\ Waits(p, "close") \/ proc[p].at \in {"close", "final", "clear"} =>
       run[Mine(p)].pipe /\ run[Mine(p)].orch = Orch(p)
  /\ Waits(p, "close") \/ proc[p].at = "close" =>
       \/ ptr[Orch(p)] = Mine(p) \/ Status(Mine(p)) = "completed"
       \/ count.lost > 0
  /\ proc[p].at \in {"final", "clear"} => Status(Mine(p)) = "completed"

(* The pointers it relies on while it holds the admission lock.            *)
NoneActive == \A o \in Orchs : ptr[o] = NoRun
KnowsPointers(p) ==
  proc[p].at \in {"prove", "reprove", "create", "publish"} \/ Waits(p, "reprove")
  => NoneActive

Seat(p) == /\ Held(p) /\ Shaped(p) /\ KnowsRun(p) /\ KnowsLedger(p)
           /\ KnowsEnd(p) /\ KnowsPointers(p)

(* While its maker may still erase a run, only hooks name it besides.      *)
Hooks(p) == Waits(p, "note") \/ proc[p].at = "note"
MakerAlone ==
  \A p, q \in Procs : Makes(q) /\ p # q /\ Mine(p) = Mine(q) => Hooks(p)

(* What the files of a run say, at any moment.                             *)
Sound(r) ==
  /\ Status(r) = "none" => run[r] = NoDir
  /\ Status(r) # "none" => run[r].orch \in Orchs
  /\ run[r].pipe => Status(r) \in {"running", "completed"}
  /\ Final(r) => Status(r) = "completed"
  /\ Anchored(r) \/ Pending(r) \/ Missing(r)

OneActive ==
  \A o \in Orchs : ptr[o] # NoRun =>
    ptr[Other(o)] = NoRun /\ Status(ptr[o]) # "none"
Kept == \A a \in acked : a[2] \in ToSet(run[a[1]].ledger)

IInv == /\ Typed
        /\ \A p \in Procs : Seat(p)
        /\ MakerAlone
        /\ \A r \in Runs : Sound(r)
        /\ OneActive /\ Kept

-----------------------------------------------------------------------------
(* Sequences                                                               *)

LEMMA Appended ==
  ASSUME NEW S, NEW s \in Seq(S), NEW x \in S
  PROVE  /\ Append(s, x) \in Seq(S) /\ Append(s, x) # <<>>
         /\ Front(Append(s, x)) = s /\ Last(Append(s, x)) = x
         /\ ToSet(Append(s, x)) = ToSet(s) \cup {x}
         /\ Len(Append(s, x)) = Len(s) + 1
<1>1. /\ Append(s, x) \in Seq(S) /\ Append(s, x) # <<>>
      /\ Len(Append(s, x)) = Len(s) + 1
      /\ \A i \in 1 .. Len(s) : Append(s, x)[i] = s[i]
      /\ Append(s, x)[Len(s) + 1] = x
  BY AppendProperties
<1>2. Front(Append(s, x)) = s /\ Last(Append(s, x)) = x
  BY DEF Front, Last
<1>3. DOMAIN Append(s, x) = 1 .. Len(s) + 1 /\ DOMAIN s = 1 .. Len(s) /\ Len(s) \in Nat
  BY <1>1, LenProperties
<1>4. ToSet(Append(s, x)) = ToSet(s) \cup {x}
  <2>1. ASSUME NEW i \in DOMAIN Append(s, x)
        PROVE  Append(s, x)[i] \in ToSet(s) \cup {x}
    <3>1. i \in DOMAIN s \/ i = Len(s) + 1
      BY <1>3
    <3> QED
      BY <1>1, <1>3, <3>1 DEF ToSet
  <2>2. ASSUME NEW i \in DOMAIN s PROVE s[i] \in ToSet(Append(s, x))
    <3>1. i \in DOMAIN Append(s, x) /\ Append(s, x)[i] = s[i]
      BY <1>1, <1>3
    <3> QED
      BY <3>1 DEF ToSet
  <2>3. x \in ToSet(Append(s, x))
    <3>1. Len(s) + 1 \in DOMAIN Append(s, x)
      BY <1>3
    <3> QED
      BY <1>1, <3>1 DEF ToSet
  <2> QED
    BY <2>1, <2>2, <2>3 DEF ToSet
<1> QED
  BY <1>1, <1>2, <1>4

(* A sequence that ends in x has it.                                       *)
LEMMA LastIn ==
  ASSUME NEW S, NEW s \in Seq(S), s # <<>>
  PROVE  Last(s) \in ToSet(s)
<1>1. Len(s) \in DOMAIN s
  BY LenProperties, EmptySeq
<1> QED
  BY <1>1 DEF Last, ToSet

LEMMA EmptyToSet == ToSet(<<>>) = {}
  BY DEF ToSet

-----------------------------------------------------------------------------
(* What one command does to the locks of the others                        *)

Respects(p) ==
  \A l \in Locks, q \in Procs \ {p} :
    /\ lock[l] = q => lock'[l] = q
    /\ lock[l] = "dead" /\ claim[l] = q => lock'[l] = "dead" /\ claim'[l] = q

LEMMA LocksUntouched ==
  ASSUME LockTyped, UNCHANGED locks, NEW p \in Procs
  PROVE  LockTyped' /\ Respects(p)
  BY DEF LockTyped, Respects, locks

LEMMA TakeDoes ==
  ASSUME LockTyped, NEW p \in Procs, NEW l \in Locks, Take(p, l)
  PROVE  /\ LockTyped' /\ Respects(p)
         /\ lock'[l] = p /\ \A k \in Locks \ {l} : lock'[k] = lock[k]
  BY ProcAssumption DEF LockTyped, Respects, Take

LEMMA WinDoes ==
  ASSUME LockTyped, NEW p \in Procs, NEW l \in Locks, Win(p, l)
  PROVE  /\ LockTyped' /\ Respects(p)
         /\ lock' = lock /\ lock[l] = "dead" /\ claim'[l] = p
  BY ProcAssumption DEF LockTyped, Respects, Win

LEMMA UnlinkDoes ==
  ASSUME LockTyped, NEW p \in Procs, NEW l \in Locks, UnlinkOwner(l),
         lock[l] = p \/ (lock[l] = "dead" /\ claim[l] = p)
  PROVE  /\ LockTyped' /\ Respects(p)
         /\ \A k \in Locks \ {l} : lock'[k] = lock[k]
  BY ProcAssumption DEF LockTyped, Respects, UnlinkOwner

LEMMA RemoveDoes ==
  ASSUME LockTyped, NEW p \in Procs, NEW l \in Locks, RemoveLock(l),
         lock[l] \in {p, "empty"}
  PROVE  /\ LockTyped' /\ Respects(p)
         /\ \A k \in Locks \ {l} : lock'[k] = lock[k]
  BY ProcAssumption DEF LockTyped, Respects, RemoveLock

LEMMA DropDoes ==
  ASSUME LockTyped, NEW p \in Procs, NEW l \in Locks, Drop(p, l)
  PROVE  /\ LockTyped' /\ Respects(p)
         /\ \A k \in Locks \ {l} : lock'[k] = lock[k]
<1>1. CASE lock[l] = p
  BY <1>1, RemoveDoes DEF Drop, Own
<1>2. CASE lock[l] # p
  BY <1>2, LocksUntouched DEF Drop, Own, locks
<1> QED
  BY <1>1, <1>2

LEMMA AbandonDoes ==
  ASSUME LockTyped, NEW p \in Procs, Abandon(p)
  PROVE  LockTyped' /\ Respects(p)
  BY ProcAssumption DEF LockTyped, Respects, Abandon

-----------------------------------------------------------------------------
(* What one command leaves to the others                                   *)

Alone(p) == \A q \in Procs \ {p} : proc'[q] = proc[q]

RunsKept(p) ==
  \A r \in Runs :
    /\ Status(r) # "none" =>
         /\ Status(r)' # "none"
         /\ run'[r].orch = run[r].orch /\ run'[r].task = run[r].task
    /\ run[r].pipe => run'[r].pipe
    /\ run'[r].pipe => run[r].pipe \/ (r = Mine(p) /\ proc[p].at = "init")
    /\ Status(r) = "completed" => Status(r)' = "completed"
    /\ Status(r) = "running" =>
         Status(r)' = "running" \/ (r = Mine(p) /\ (Makes(p) \/ proc[p].at = "close"))
    /\ ToSet(run[r].ledger) \subseteq ToSet(run'[r].ledger)
    /\ run[r].ledger # <<>> => run'[r].ledger # <<>>

PtrKept(p) ==
  /\ \A o \in Orchs :
       /\ ptr[o] = NoRun => ptr'[o] = NoRun \/ proc[p].at = "publish"
       /\ ptr[o] # NoRun =>
            ptr'[o] = ptr[o] \/ run'[ptr[o]].status = "completed" \/ count'.lost > 0
  /\ count.lost > 0 => count'.lost > 0

Enters(p) ==
  /\ Makes(p)' => \/ Makes(p) /\ Mine(p)' = Mine(p)
                  \/ \A q \in Procs \ {p} : Mine(q) # Mine(p)'
  /\ \/ HoldsState(p) \/ Mine(p)' = NoRun \/ Hooks(p)'
     \/ Mine(p)' = Mine(p) /\ ~Hooks(p)
     \/ run[Mine(p)'].pipe

(* Two commands do not hold the admission lock, or the lock of a run.      *)
LEMMA OneHolds ==
  ASSUME IInv, NEW p \in Procs, NEW q \in Procs, p # q
  PROVE  /\ ~(HoldsState(p) /\ HoldsState(q))
         /\ HoldsRun(p) /\ HoldsRun(q) => Mine(p) # Mine(q)
  BY DEF IInv, Seat, Held

LEMMA MakesHolds ==
  ASSUME NEW p \in Procs, Makes(p)
  PROVE  HoldsState(p) /\ ~Hooks(p)
  BY DEF Makes, HoldsState, Hooks, Waits

LEMMA OthersSeat ==
  ASSUME IInv, NEW p \in Procs, NEW q \in Procs, q # p,
         Alone(p), Respects(p), RunsKept(p), PtrKept(p)
  PROVE  Seat(q)'
<1> USE DEF IInv, Seat
<1>1. proc'[q] = proc[q] /\ Mine(q)' = Mine(q) /\ Orch(q)' = Orch(q) /\ Wanted(q)' = Wanted(q)
      /\ \A n : Waits(q, n)' = Waits(q, n)
  BY DEF Alone, Mine, Orch, Wanted, Waits
<1>2. /\ HoldsState(q)' = HoldsState(q) /\ HoldsRun(q)' = HoldsRun(q)
      /\ Claims(q)' = Claims(q) /\ Leaves(q)' = Leaves(q)
  BY <1>1 DEF HoldsState, HoldsRun, Claims, Leaves
<1>3. /\ Makes(q)' = Makes(q) /\ Appends(q)' = Appends(q)
  BY <1>1, <1>2 DEF Makes, Appends
<1>4. /\ proc \in [Procs -> Cmd] /\ Mine(q) \in Named /\ proc[q].chk \in Named
      /\ \A r \in Named : r # NoRun => r \in Runs
  BY BoundAssumption DEF Typed, Cmd, Mine, Named, Runs, NoRun
<1>5. Held(q)'
  <2>1. Wanted(q) \in Locks /\ State \in Locks /\ Mine(q) \in Locks
    BY <1>4, BoundAssumption DEF Wanted, State, Named
  <2>2. Held(q)
    OBVIOUS
  <2> QED
    BY <1>1, <1>2, <2>1, <2>2 DEF Held, Respects
<1>6. Shaped(q)'
  BY <1>1, <1>2, <1>3 DEF Shaped
<1>7. ASSUME Mine(q) # NoRun, Status(Mine(q)) = "running", run'[Mine(q)].status # "running"
      PROVE  Mine(q) = Mine(p) /\ (Makes(p) \/ proc[p].at = "close")
  BY <1>4, <1>7 DEF RunsKept, Status
<1>8. KnowsRun(q)'
  <2>1. /\ Mine(q) # NoRun => run'[Mine(q)].status # "none"
        /\ proc[q].chk # NoRun => run'[proc[q].chk].status # "none"
        /\ proc[q].made => Mine(q) # NoRun /\ run'[Mine(q)].task = proc[q].req
    BY <1>4 DEF KnowsRun, RunsKept, Status
  <2>2. ASSUME Makes(q) PROVE run'[Mine(q)].status = "running" /\ ~run'[Mine(q)].pipe
    <3>1. Mine(q) # NoRun /\ Status(Mine(q)) = "running" /\ ~run[Mine(q)].pipe
      BY <2>2 DEF KnowsRun, Makes
    <3>2. HoldsState(q)
      BY <2>2, MakesHolds
    <3>3. ~Makes(p)
      BY <3>2, MakesHolds, OneHolds
    <3>4. Mine(p) = Mine(q) => Hooks(p)
      BY <2>2 DEF MakerAlone
    <3>5. Mine(p) = Mine(q) => proc[p].at \notin {"close", "init"}
      BY <3>4 DEF Hooks, Waits
    <3> QED
      BY <1>4, <1>7, <3>1, <3>3, <3>5 DEF RunsKept, Status
  <2>3. ASSUME proc[q].at = "publish" PROVE run'[Mine(q)].status = "running"
    <3>1. CASE proc[q].made
      BY <2>2, <2>3, <3>1 DEF Makes
    <3>2. CASE ~proc[q].made
      <4>1. Mine(q) # NoRun /\ Status(Mine(q)) = "running"
        BY <2>3 DEF KnowsRun, Shaped, Waits, Leaves
      <4>2. HoldsState(q) /\ HoldsRun(q)
        BY <2>3, <3>2 DEF HoldsState, HoldsRun
      <4>3. ~Makes(p)
        BY <4>2, MakesHolds, OneHolds
      <4>4. proc[p].at = "close" => HoldsRun(p)
        BY DEF HoldsRun
      <4> QED
        BY <1>7, <4>1, <4>2, <4>3, <4>4, OneHolds
    <3> QED
      BY <3>1, <3>2
  <2> QED
    BY <1>1, <1>3, <2>1, <2>2, <2>3 DEF KnowsRun, Status
<1>9. KnowsLedger(q)'
  <2> SUFFICES ASSUME proc[q].at = "anchor" PROVE KnowsLedger(q)'
    BY <1>1 DEF KnowsLedger
  <2>1. Mine(q) # NoRun /\ HoldsRun(q) /\ ~Hooks(q)
    BY DEF Shaped, HoldsRun, Hooks, Waits, Leaves
  <2>2. Makes(p) => Mine(p) # Mine(q)
    BY <2>1 DEF MakerAlone
  <2>3. proc[p].at = "close" => Mine(p) # Mine(q)
    BY <2>1, OneHolds DEF HoldsRun
  <2>4. run'[Mine(q)].status = "running"
    BY <1>7, <2>1, <2>2, <2>3 DEF KnowsLedger
  <2> QED
    BY <1>1, <1>4, <2>1, <2>4 DEF KnowsLedger, RunsKept, Status
<1>10. KnowsEnd(q)'
  <2>1. CASE ~(Waits(q, "close") \/ proc[q].at \in {"close", "final", "clear"})
    BY <1>1, <2>1 DEF KnowsEnd
  <2>2. CASE Waits(q, "close") \/ proc[q].at \in {"close", "final", "clear"}
    <3>1. Mine(q) \in Runs /\ run[Mine(q)].pipe /\ run[Mine(q)].orch = Orch(q)
          /\ Status(Mine(q)) # "none" /\ Orch(q) \in Orchs
      BY <1>4, <2>2 DEF KnowsEnd, KnowsRun, Shaped, Waits, Leaves, Orch
    <3>2. run'[Mine(q)].pipe /\ run'[Mine(q)].orch = Orch(q)
      BY <3>1 DEF RunsKept, Status
    <3>3. Status(Mine(q)) = "completed" => run'[Mine(q)].status = "completed"
      BY <3>1 DEF RunsKept, Status
    <3>4. ptr[Orch(q)] = Mine(q) =>
            ptr'[Orch(q)] = Mine(q) \/ run'[Mine(q)].status = "completed" \/ count'.lost > 0
      BY <3>1 DEF PtrKept, Status, Runs, NoRun
    <3> QED
      BY <1>1, <3>2, <3>3, <3>4 DEF KnowsEnd, PtrKept, Status
  <2> QED
    BY <2>1, <2>2
<1>11. KnowsPointers(q)'
  <2>1. ASSUME proc[q].at \in {"prove", "reprove", "create", "publish"} \/ Waits(q, "reprove")
        PROVE  NoneActive'
    <3>1. NoneActive /\ HoldsState(q)
      BY <2>1 DEF KnowsPointers, HoldsState
    <3>2. proc[p].at # "publish"
      BY <3>1, OneHolds DEF HoldsState
    <3> QED
      BY <3>1, <3>2 DEF NoneActive, PtrKept
  <2> QED
    BY <1>1, <2>1 DEF KnowsPointers
<1> QED
  BY <1>5, <1>6, <1>8, <1>9, <1>10, <1>11

LEMMA MakerStaysAlone ==
  ASSUME IInv, NEW p \in Procs, Alone(p), Enters(p), Seat(p)'
  PROVE  MakerAlone'
<1> SUFFICES ASSUME NEW a \in Procs, NEW b \in Procs, Makes(b)', a # b, Mine(a)' = Mine(b)'
             PROVE  Hooks(a)'
  BY DEF MakerAlone
<1>1. ASSUME NEW q \in Procs \ {p}
      PROVE  Mine(q)' = Mine(q) /\ Hooks(q)' = Hooks(q) /\ Makes(q)' = Makes(q)
  BY DEF Alone, Mine, Hooks, Makes, Waits
<1>2. CASE a # p /\ b # p
  BY <1>1, <1>2 DEF IInv, MakerAlone
<1>3. CASE b = p
  <2>1. a \in Procs \ {p} /\ Mine(a)' = Mine(a) /\ Hooks(a)' = Hooks(a)
    BY <1>1, <1>3
  <2> QED
    BY <1>3, <2>1 DEF IInv, MakerAlone, Enters
<1>4. CASE a = p
  <2>1. b \in Procs \ {p} /\ Mine(b)' = Mine(b) /\ Makes(b)
    BY <1>1, <1>4
  <2>2. ~HoldsState(p)
    BY <2>1, MakesHolds, OneHolds
  <2>3. Mine(b) # NoRun /\ ~run[Mine(b)].pipe
    BY <2>1 DEF IInv, Seat, KnowsRun, Makes
  <2> QED
    BY <1>4, <2>1, <2>2, <2>3 DEF Enters, IInv, MakerAlone
<1> QED
  BY <1>2, <1>3, <1>4

-----------------------------------------------------------------------------
(* Steps of one command: what is to be shown of each                       *)

LEMMA Keeps ==
  ASSUME IInv, NEW p \in Procs, Typed', Seat(p)', Alone(p), Respects(p),
         RunsKept(p), PtrKept(p), Enters(p),
         (\A r \in Runs : Sound(r))', OneActive', Kept'
  PROVE  IInv'
<1>1. ASSUME NEW q \in Procs PROVE Seat(q)'
  BY OthersSeat
<1>2. MakerAlone'
  BY MakerStaysAlone
<1> QED
  BY <1>1, <1>2 DEF IInv

(* What becomes of a command's own record.                                 *)
Moved(p, a, n) ==
  /\ Alone(p) /\ proc' \in [Procs -> Cmd]
  /\ proc'[p].at = a /\ proc'[p].next = n /\ proc'[p].orch = proc[p].orch
  /\ proc'[p].req = proc[p].req /\ proc'[p].chk = proc[p].chk
  /\ proc'[p].seen = proc[p].seen /\ proc'[p].run = proc[p].run
  /\ proc'[p].made = proc[p].made

LEMMA GoMoves ==
  ASSUME Typed, NEW p \in Procs, NEW a \in Places, Go(p, a)
  PROVE  Moved(p, a, proc[p].next)
<1>1. proc[p] \in Cmd /\ proc' = [proc EXCEPT ![p] = [proc[p] EXCEPT !.at = a]]
  BY DEF Typed, Go
<1>2. [proc[p] EXCEPT !.at = a] \in Cmd
  BY <1>1 DEF Cmd
<1> QED
  BY <1>1, <1>2 DEF Moved, Alone, Typed, Cmd

LEMMA ThenMoves ==
  ASSUME Typed, NEW p \in Procs, NEW a \in Places, NEW n \in Places, Then(p, a, n)
  PROVE  Moved(p, a, n)
<1>1. proc[p] \in Cmd
      /\ proc' = [proc EXCEPT ![p] = [proc[p] EXCEPT !.at = a, !.next = n]]
  BY DEF Typed, Then
<1>2. [proc[p] EXCEPT !.at = a, !.next = n] \in Cmd
  BY <1>1 DEF Cmd
<1> QED
  BY <1>1, <1>2 DEF Moved, Alone, Typed, Cmd

LEMMA IdleIsCmd == Idle \in Cmd
  BY BoundAssumption DEF Idle, Cmd, Places, Requests, Named, NoRun

LEMMA QuitIsSafe ==
  ASSUME Typed, NEW p \in Procs, Quit(p)
  PROVE  proc' \in [Procs -> Cmd] /\ Alone(p) /\ Seat(p)' /\ Enters(p)
<1>1. /\ proc' \in [Procs -> Cmd] /\ Alone(p) /\ proc'[p] = Idle
      /\ proc'[p].at = "idle" /\ proc'[p].next = "idle" /\ ~proc'[p].made
      /\ proc'[p].run = NoRun /\ proc'[p].chk = NoRun
  BY IdleIsCmd DEF Quit, Typed, Alone, Idle
<1>2. /\ ~HoldsState(p)' /\ ~HoldsRun(p)' /\ ~Claims(p)' /\ ~Makes(p)'
      /\ ~Leaves(p)' /\ \A n : ~Waits(p, n)'
  BY <1>1 DEF HoldsState, HoldsRun, Claims, Makes, Leaves, Waits
<1>3. Held(p)' /\ KnowsRun(p)' /\ KnowsLedger(p)' /\ KnowsEnd(p)' /\ KnowsPointers(p)'
  BY <1>1, <1>2 DEF Held, KnowsRun, KnowsLedger, KnowsEnd, KnowsPointers, Mine
<1>4. Shaped(p)'
  BY <1>1, <1>2 DEF Shaped, Mine
<1> QED
  BY <1>1, <1>2, <1>3, <1>4 DEF Seat, Enters, Mine

(* The files of the runs and the pointers stay as they are.                *)
Calm == UNCHANGED <<ptr, run, acked>> /\ count'.lost = count.lost

LEMMA CalmKeeps ==
  ASSUME IInv, NEW p \in Procs, Calm
  PROVE  /\ RunsKept(p) /\ PtrKept(p) /\ (\A r \in Runs : Sound(r))'
         /\ OneActive' /\ Kept'
<1>1. \A r \in Runs : run'[r] = run[r] /\ Status(r)' = Status(r)
  BY DEF Calm, Status
<1>2. RunsKept(p) /\ PtrKept(p)
  BY <1>1 DEF Calm, RunsKept, PtrKept
<1>3. (\A r \in Runs : Sound(r))'
  BY DEF Calm, IInv, Sound, Status, Final, Anchored, Pending, Missing
<1>4. OneActive' /\ Kept'
  BY DEF Calm, IInv, OneActive, Status, Kept
<1> QED
  BY <1>2, <1>3, <1>4

LEMMA BoundsKept ==
  ASSUME Typed, UNCHANGED bounds
  PROVE  requests' \in Requests /\ count'.lost = count.lost
         /\ count' \in [{"resumes", "hooks", "crashes", "lost"} -> Nat]
  BY DEF Typed, bounds

LEMMA HappensKeeps ==
  ASSUME Typed, NEW e \in {"resumes", "hooks", "crashes", "lost"}, Happens(e)
  PROVE  /\ count' \in [{"resumes", "hooks", "crashes", "lost"} -> Nat]
         /\ e # "lost" => count'.lost = count.lost
         /\ count'[e] = count[e] + 1 /\ count'[e] > 0
<1>1. count[e] + 1 \in Nat /\ count' = [count EXCEPT ![e] = count[e] + 1]
  BY DEF Typed, Happens
<1> QED
  BY <1>1 DEF Typed

(* Only its own record and the locks change.                               *)
LEMMA CalmStep ==
  ASSUME IInv, NEW p \in Procs, proc' \in [Procs -> Cmd], Alone(p), Seat(p)',
         Enters(p), UNCHANGED <<records, acked, bounds>>, LockTyped', Respects(p)
  PROVE  IInv'
<1>1. Calm
  BY BoundsKept DEF Calm, records, IInv
<1>2. Typed'
  BY BoundsKept DEF Typed, IInv, records, bounds
<1> QED
  BY <1>1, <1>2, CalmKeeps, Keeps

LEMMA CalmMove ==
  ASSUME IInv, NEW p \in Procs, NEW a, NEW n, Moved(p, a, n),
         UNCHANGED <<records, acked, bounds>>, LockTyped', Respects(p),
         Seat(p)', Makes(p)' => Makes(p), Hooks(p) => Hooks(p)'
  PROVE  IInv'
<1>1. Enters(p)
  BY DEF Enters, Moved, Mine
<1> QED
  BY <1>1, CalmStep DEF Moved

LEMMA CalmQuit ==
  ASSUME IInv, NEW p \in Procs, Quit(p),
         UNCHANGED <<records, acked, bounds>>, LockTyped', Respects(p)
  PROVE  IInv'
  BY QuitIsSafe, CalmStep DEF IInv

-----------------------------------------------------------------------------
(* The locks: an attempt, a claim, a recovery                              *)

LEMMA Wants ==
  ASSUME IInv, NEW p \in Procs
  PROVE  /\ Mine(p) \in Named /\ Mine(p) \in Locks /\ State \in Locks
         /\ Wanted(p) \in Locks /\ (Mine(p) # NoRun => Mine(p) # State)
         /\ (Mine(p) # NoRun => Mine(p) \in Runs)
         /\ Mine(p) # NoRun \/ Wanted(p) = State \/ ~At(p, "lock")
<1>1. Mine(p) \in Named /\ Mine(p) \in Locks /\ State \in Locks
  BY BoundAssumption DEF IInv, Typed, Cmd, Mine, Named, State
<1>2. Mine(p) # NoRun => Mine(p) # State /\ Mine(p) \in Runs
  BY <1>1, BoundAssumption DEF NoRun, State, Named, Runs
<1>3. Mine(p) # NoRun \/ Wanted(p) = State \/ ~At(p, "lock")
  BY DEF IInv, Seat, Shaped, Waits, Leaves, Wanted, At
<1> QED
  BY <1>1, <1>2, <1>3 DEF Wanted

LEMMA LockIsSafe ==
  ASSUME IInv, NEW p \in Procs, Lock(p)
  PROVE  IInv'
<1>1. /\ At(p, "lock") /\ Take(p, Wanted(p)) /\ Go(p, proc[p].next)
      /\ UNCHANGED <<records, acked, bounds>>
  BY DEF Lock
<1>2. proc[p].next \in Places /\ proc[p] \in Cmd
  BY DEF IInv, Typed, Cmd
<1>3. Moved(p, proc[p].next, proc[p].next)
  BY <1>1, <1>2, GoMoves DEF IInv
<1>4. /\ LockTyped' /\ Respects(p) /\ lock'[Wanted(p)] = p
      /\ \A k \in Locks \ {Wanted(p)} : lock'[k] = lock[k]
  BY <1>1, Wants, TakeDoes DEF IInv, Typed
<1>5. /\ Mine(p)' = Mine(p) /\ Orch(p)' = Orch(p) /\ run' = run /\ ptr' = ptr /\ count' = count
  BY <1>1, <1>3 DEF Moved, Mine, Orch, records, bounds
<1>6. /\ proc[p].next \in {"look", "decide", "reprove", "ledger", "init", "close", "note"}
      /\ proc[p].at = "lock" /\ proc'[p].at = proc[p].next /\ proc'[p].next = proc[p].next
      /\ proc'[p].made = proc[p].made /\ Seat(p)
  BY <1>1, <1>3 DEF IInv, Seat, Shaped, Moved, At
<1>7. Held(p)'
  BY <1>4, <1>5, <1>6, Wants
     DEF Seat, Held, Shaped, HoldsState, HoldsRun, Claims, Waits, Leaves, Wanted
<1>8. Shaped(p)'
  BY <1>3, <1>5, <1>6 DEF Seat, Shaped, Moved, Waits, Leaves, Makes, Appends, Orch
<1>9. KnowsRun(p)' /\ KnowsLedger(p)' /\ KnowsEnd(p)' /\ KnowsPointers(p)'
  BY <1>3, <1>5, <1>6
     DEF Seat, Shaped, KnowsRun, KnowsLedger, KnowsEnd, KnowsPointers, NoneActive,
         Moved, Status, Makes, Waits
<1>10. (Makes(p)' => Makes(p)) /\ (Hooks(p) => Hooks(p)')
  BY <1>6 DEF Makes, Hooks, Waits
<1> QED
  BY <1>1, <1>3, <1>4, <1>7, <1>8, <1>9, <1>10, CalmMove DEF Seat

LEMMA ClaimIsSafe ==
  ASSUME IInv, NEW p \in Procs, ClaimDead(p)
  PROVE  IInv'
<1>1. /\ At(p, "lock") /\ Win(p, Wanted(p)) /\ Go(p, "claimed")
      /\ UNCHANGED <<records, acked, bounds>>
  BY DEF ClaimDead
<1>2. Moved(p, "claimed", proc[p].next)
  BY <1>1, GoMoves DEF IInv, Places
<1>3. /\ LockTyped' /\ Respects(p) /\ lock' = lock
      /\ lock[Wanted(p)] = "dead" /\ claim'[Wanted(p)] = p
  BY <1>1, Wants, WinDoes DEF IInv, Typed
<1>4. /\ Mine(p)' = Mine(p) /\ Orch(p)' = Orch(p) /\ run' = run /\ ptr' = ptr
      /\ count' = count /\ Wanted(p)' = Wanted(p)
      /\ proc[p].at = "lock" /\ proc'[p].at = "claimed" /\ Seat(p)
  BY <1>1, <1>2 DEF IInv, Moved, Mine, Orch, Wanted, records, bounds, At
<1>5. Held(p)'
  BY <1>2, <1>3, <1>4 DEF Seat, Held, HoldsState, HoldsRun, Claims, Waits, Moved
<1>6. Shaped(p)'
  BY <1>2, <1>4 DEF Seat, Shaped, Moved, Waits, Leaves, Makes, Appends, Orch
<1>7. KnowsRun(p)' /\ KnowsLedger(p)' /\ KnowsEnd(p)' /\ KnowsPointers(p)'
  BY <1>2, <1>4
     DEF Seat, Shaped, KnowsRun, KnowsLedger, KnowsEnd, KnowsPointers, NoneActive,
         Moved, Status, Makes, Waits
<1>8. (Makes(p)' => Makes(p)) /\ (Hooks(p) => Hooks(p)')
  BY <1>2, <1>4 DEF Makes, Hooks, Waits, Moved
<1> QED
  BY <1>1, <1>2, <1>3, <1>5, <1>6, <1>7, <1>8, CalmMove DEF Seat

(* A lock that is not to be had: an admission gives its own back.          *)
LEMMA FailIsSafe ==
  ASSUME IInv, NEW p \in Procs, proc[p].at \in {"lock", "claimed"}, Fail(p),
         UNCHANGED <<records, locks, acked, bounds>>
  PROVE  IInv'
<1>1. LockTyped' /\ Respects(p)
  BY LocksUntouched DEF IInv, Typed
<1>2. CASE proc[p].next # "reprove"
  BY <1>1, <1>2, CalmQuit DEF Fail
<1>3. CASE proc[p].next = "reprove"
  <2>1. Moved(p, "unlink", "idle")
    BY <1>3, ThenMoves DEF IInv, Fail, Places
  <2>2. /\ Mine(p)' = Mine(p) /\ Orch(p)' = Orch(p) /\ run' = run /\ ptr' = ptr
        /\ count' = count /\ lock' = lock /\ Seat(p) /\ HoldsState(p)
        /\ proc'[p].at = "unlink" /\ proc'[p].next = "idle"
    BY <1>3, <2>1
       DEF IInv, Moved, Mine, Orch, records, bounds, locks, HoldsState, Waits
  <2>3. Held(p)'
    BY <2>2 DEF Seat, Held, HoldsState, HoldsRun, Claims, Waits
  <2>4. Shaped(p)'
    BY <1>3, <2>1, <2>2 DEF Seat, Shaped, Moved, Waits, Leaves, Makes, Appends, Orch
  <2>5. KnowsRun(p)' /\ KnowsLedger(p)' /\ KnowsEnd(p)' /\ KnowsPointers(p)'
    BY <2>1, <2>2
       DEF Seat, KnowsRun, KnowsLedger, KnowsEnd, KnowsPointers, Moved, Status, Makes,
           Waits
  <2>6. (Makes(p)' => Makes(p)) /\ (Hooks(p) => Hooks(p)')
    BY <1>3, <2>2 DEF Makes, Hooks, Waits
  <2> QED
    BY <1>1, <2>1, <2>3, <2>4, <2>5, <2>6, CalmMove DEF Seat
<1> QED
  BY <1>2, <1>3

LEMMA GiveUpIsSafe ==
  ASSUME IInv, NEW p \in Procs, GiveUp(p)
  PROVE  IInv'
  BY FailIsSafe DEF GiveUp, At

LEMMA RecheckIsSafe ==
  ASSUME IInv, NEW p \in Procs, Recheck(p)
  PROVE  IInv'
<1>1. proc[p].at = "claimed" /\ UNCHANGED <<records, locks, acked, bounds>>
  BY DEF Recheck, At
<1>2. CASE lock[Wanted(p)] # "dead"
  BY <1>1, <1>2, FailIsSafe DEF Recheck
<1>3. CASE lock[Wanted(p)] = "dead"
  <2>1. Moved(p, "break", proc[p].next)
    BY <1>3, GoMoves DEF IInv, Recheck, Places
  <2>2. /\ Mine(p)' = Mine(p) /\ Orch(p)' = Orch(p) /\ run' = run /\ ptr' = ptr
        /\ count' = count /\ Wanted(p)' = Wanted(p) /\ lock' = lock /\ claim' = claim
        /\ proc'[p].at = "break" /\ Seat(p)
    BY <1>1, <2>1 DEF IInv, Moved, Mine, Orch, Wanted, records, bounds, locks
  <2>3. Held(p)'
    BY <1>1, <2>1, <2>2 DEF Seat, Held, HoldsState, HoldsRun, Claims, Waits, Moved
  <2>4. Shaped(p)'
    BY <1>1, <2>1, <2>2 DEF Seat, Shaped, Moved, Waits, Leaves, Makes, Appends, Orch
  <2>5. KnowsRun(p)' /\ KnowsLedger(p)' /\ KnowsEnd(p)' /\ KnowsPointers(p)'
    BY <1>1, <2>1, <2>2
       DEF Seat, KnowsRun, KnowsLedger, KnowsEnd, KnowsPointers, NoneActive, Moved,
           Status, Makes, Waits
  <2>6. (Makes(p)' => Makes(p)) /\ (Hooks(p) => Hooks(p)')
    BY <1>1, <2>1, <2>2 DEF Makes, Hooks, Waits, Moved
  <2>7. LockTyped' /\ Respects(p)
    BY <1>1, LocksUntouched DEF IInv, Typed
  <2> QED
    BY <1>1, <2>1, <2>3, <2>4, <2>5, <2>6, <2>7, CalmMove DEF Seat
<1> QED
  BY <1>2, <1>3

LEMMA BreakIsSafe ==
  ASSUME IInv, NEW p \in Procs, Break(p)
  PROVE  IInv'
<1>1. /\ At(p, "break") /\ UnlinkOwner(Wanted(p)) /\ Go(p, "lock")
      /\ UNCHANGED <<records, acked, bounds>>
  BY DEF Break
<1>2. Moved(p, "lock", proc[p].next)
  BY <1>1, GoMoves DEF IInv, Places
<1>3. /\ Mine(p)' = Mine(p) /\ Orch(p)' = Orch(p) /\ run' = run /\ ptr' = ptr
      /\ count' = count /\ Wanted(p)' = Wanted(p)
      /\ proc[p].at = "break" /\ proc'[p].at = "lock" /\ Seat(p)
  BY <1>1, <1>2 DEF IInv, Moved, Mine, Orch, Wanted, records, bounds, At
<1>4. lock[Wanted(p)] = "dead" /\ claim[Wanted(p)] = p
  BY <1>3 DEF Seat, Held, Claims
<1>5. /\ LockTyped' /\ Respects(p)
      /\ \A k \in Locks \ {Wanted(p)} : lock'[k] = lock[k]
  BY <1>1, <1>4, Wants, UnlinkDoes DEF IInv, Typed
<1>6. Held(p)'
  <2>1. HoldsState(p) => lock[State] = p
    BY <1>3 DEF Seat, Held
  <2>2. HoldsState(p) => Wanted(p) # State
    BY <1>4, <2>1, ProcAssumption
  <2>3. /\ HoldsState(p)' = HoldsState(p) /\ ~HoldsRun(p)' /\ ~Claims(p)'
    BY <1>2, <1>3 DEF HoldsState, HoldsRun, Claims, Waits, Moved
  <2> QED
    BY <1>5, <2>1, <2>2, <2>3, Wants DEF Held
<1>7. Shaped(p)'
  BY <1>2, <1>3 DEF Seat, Shaped, Moved, Waits, Leaves, Makes, Appends, Orch
<1>8. KnowsRun(p)' /\ KnowsLedger(p)' /\ KnowsEnd(p)' /\ KnowsPointers(p)'
  BY <1>2, <1>3
     DEF Seat, KnowsRun, KnowsLedger, KnowsEnd, KnowsPointers, NoneActive, Moved,
         Status, Makes, Waits
<1>9. (Makes(p)' => Makes(p)) /\ (Hooks(p) => Hooks(p)')
  BY <1>2, <1>3 DEF Makes, Hooks, Waits, Moved
<1> QED
  BY <1>1, <1>2, <1>5, <1>6, <1>7, <1>8, <1>9, CalmMove DEF Seat

-----------------------------------------------------------------------------
(* The admission, up to the run it makes                                   *)

LEMMA LookIsSafe ==
  ASSUME IInv, NEW p \in Procs, Look(p)
  PROVE  IInv'
<1> DEFINE n == IF Refused(p) THEN "idle" ELSE "decide"
           y == [proc[p] EXCEPT !.at = "unlink", !.seen = ptr[Orch(p)], !.next = n]
<1>1. /\ proc[p].at = "look" /\ UNCHANGED <<records, locks, acked, bounds>>
      /\ proc' = [proc EXCEPT ![p] = y]
  BY DEF Look, At
<1>2. Seat(p) /\ proc[p] \in Cmd /\ Orch(p) \in Orchs
  BY <1>1 DEF IInv, Typed, Seat, Shaped, Waits, Orch
<1>3. ptr[Orch(p)] \in Named
  BY <1>2 DEF IInv, Typed
<1>4. y \in Cmd /\ n \in {"idle", "decide"}
  BY <1>2, <1>3 DEF Cmd, Places
<1> HIDE DEF n
<1>5. /\ Alone(p) /\ proc' \in [Procs -> Cmd] /\ proc'[p] = y
      /\ proc'[p].at = "unlink" /\ proc'[p].next = n /\ proc'[p].made = proc[p].made
      /\ proc'[p].chk = proc[p].chk /\ proc'[p].req = proc[p].req
      /\ Mine(p)' = Mine(p) /\ Orch(p)' = Orch(p) /\ run' = run /\ ptr' = ptr
      /\ lock' = lock
  BY <1>1, <1>2, <1>4 DEF IInv, Typed, Alone, Cmd, Mine, Orch, records, locks
<1> HIDE DEF y
<1>6. Held(p)'
  BY <1>1, <1>2, <1>5 DEF Seat, Held, HoldsState, HoldsRun, Claims, Waits
<1>7. Shaped(p)'
  BY <1>1, <1>2, <1>4, <1>5 DEF Seat, Shaped, Waits, Leaves, Makes, Appends, Orch
<1>8. KnowsRun(p)' /\ KnowsLedger(p)' /\ KnowsEnd(p)' /\ KnowsPointers(p)'
  BY <1>2, <1>5
     DEF Seat, KnowsRun, KnowsLedger, KnowsEnd, KnowsPointers, Status, Makes, Waits
<1>9. Enters(p)
  BY <1>1, <1>5 DEF Enters, Makes, HoldsState
<1>10. LockTyped' /\ Respects(p)
  BY <1>1, LocksUntouched DEF IInv, Typed
<1> QED
  BY <1>1, <1>5, <1>6, <1>7, <1>8, <1>9, <1>10, CalmStep DEF Seat

LEMMA UnlinkStateIsSafe ==
  ASSUME IInv, NEW p \in Procs, UnlinkState(p)
  PROVE  IInv'
<1>1. /\ proc[p].at = "unlink" /\ Go(p, "rmdir") /\ UNCHANGED <<records, acked, bounds>>
  BY DEF UnlinkState, At
<1>2. Moved(p, "rmdir", proc[p].next)
  BY <1>1, GoMoves DEF IInv, Places
<1>3. /\ Mine(p)' = Mine(p) /\ Orch(p)' = Orch(p) /\ run' = run /\ ptr' = ptr
      /\ proc'[p].at = "rmdir" /\ Seat(p)
  BY <1>1, <1>2 DEF IInv, Moved, Mine, Orch, records
<1>4. LockTyped' /\ Respects(p)
  BY Wants, UnlinkDoes, LocksUntouched DEF UnlinkState, Own, IInv, Typed
<1>5. Held(p)'
  BY <1>3 DEF Held, HoldsState, HoldsRun, Claims, Waits
<1>6. Shaped(p)'
  BY <1>1, <1>2, <1>3 DEF Seat, Shaped, Moved, Waits, Leaves, Makes, Appends, Orch
<1>7. KnowsRun(p)' /\ KnowsLedger(p)' /\ KnowsEnd(p)' /\ KnowsPointers(p)'
  BY <1>2, <1>3
     DEF Seat, KnowsRun, KnowsLedger, KnowsEnd, KnowsPointers, Moved, Status, Makes, Waits
<1>8. (Makes(p)' => Makes(p)) /\ (Hooks(p) => Hooks(p)')
  BY <1>1, <1>3 DEF Makes, Hooks, Waits
<1> QED
  BY <1>1, <1>2, <1>4, <1>5, <1>6, <1>7, <1>8, CalmMove DEF Seat

LEMMA RemoveStateIsSafe ==
  ASSUME IInv, NEW p \in Procs, RemoveState(p)
  PROVE  IInv'
<1>1. /\ proc[p].at = "rmdir" /\ UNCHANGED <<records, acked, bounds>>
      /\ proc[p].next \in {"idle", "decide", "append", "read"}
  BY DEF RemoveState, At, IInv, Seat, Shaped, Leaves
<1>2. LockTyped' /\ Respects(p)
  BY Wants, RemoveDoes, LocksUntouched DEF RemoveState, IInv, Typed
<1>3. CASE Quit(p)
  BY <1>1, <1>2, <1>3, CalmQuit
<1>4. ASSUME NEW a, NEW n, Moved(p, a, n),
             \/ proc[p].next = "decide" /\ a = "lock" /\ n = "decide"
             \/ proc[p].next = "append" /\ a = "lock" /\ n = "ledger"
             \/ proc[p].next = "read" /\ a = "read" /\ n = "read"
      PROVE  IInv'
  <2>1. /\ Mine(p)' = Mine(p) /\ Orch(p)' = Orch(p) /\ run' = run /\ ptr' = ptr
        /\ proc'[p].at = a /\ proc'[p].next = n /\ Seat(p)
    BY <1>1, <1>4 DEF IInv, Moved, Mine, Orch, records
  <2>2. Held(p)'
    BY <1>4, <2>1 DEF Held, HoldsState, HoldsRun, Claims, Waits
  <2>3. Shaped(p)'
    BY <1>1, <1>4, <2>1 DEF Seat, Shaped, Moved, Waits, Leaves, Makes, Appends, Orch
  <2>4. KnowsRun(p)' /\ KnowsLedger(p)' /\ KnowsEnd(p)' /\ KnowsPointers(p)'
    BY <1>4, <2>1
       DEF Seat, KnowsRun, KnowsLedger, KnowsEnd, KnowsPointers, Moved, Status, Makes,
           Waits
  <2>5. (Makes(p)' => Makes(p)) /\ (Hooks(p) => Hooks(p)')
    BY <1>1, <1>4, <2>1 DEF Makes, Hooks, Waits
  <2> QED
    BY <1>1, <1>2, <1>4, <2>2, <2>3, <2>4, <2>5, CalmMove DEF Seat
<1>5. CASE ~Quit(p)
  <2>1. CASE proc[p].next = "decide"
    <3>1. Then(p, "lock", "decide")
      BY <1>5, <2>1 DEF RemoveState
    <3> QED
      BY <1>4, <2>1, <3>1, ThenMoves DEF IInv, Places
  <2>2. CASE proc[p].next = "append"
    <3>1. Then(p, "lock", "ledger")
      BY <1>5, <2>2 DEF RemoveState
    <3> QED
      BY <1>4, <2>2, <3>1, ThenMoves DEF IInv, Places
  <2>3. CASE proc[p].next = "read"
    <3>1. Go(p, "read")
      BY <1>5, <2>3 DEF RemoveState
    <3> QED
      BY <1>4, <2>3, <3>1, GoMoves DEF IInv, Places
  <2> QED
    BY <1>1, <1>5, <2>1, <2>2, <2>3 DEF RemoveState
<1> QED
  BY <1>3, <1>5

LEMMA DecideIsSafe ==
  ASSUME IInv, NEW p \in Procs, Decide(p)
  PROVE  IInv'
<1>1. proc[p].at = "decide" /\ UNCHANGED <<records, locks, acked, bounds>>
  BY DEF Decide, At
<1>2. Seat(p) /\ proc[p] \in Cmd /\ Orch(p) \in Orchs /\ ~proc[p].made
  BY <1>1 DEF IInv, Typed, Seat, Shaped, Waits, Orch, Leaves, Makes, Appends
<1>3. ptr[Orch(p)] \in Named /\ proc[p].chk \in Named /\ NoRun \in Named
  BY <1>2, BoundAssumption DEF IInv, Typed, Cmd, Named, NoRun
<1> DEFINE Out(a, n, r) ==
      [proc[p] EXCEPT !.at = a, !.next = n, !.run = r, !.chk = NoRun, !.seen = NoRun]
<1>4. ASSUME NEW a \in {"unlink", "prove", "create"},
             NEW n \in {"idle", "read", "append", "reprove"}, NEW r \in Named,
             proc' = [proc EXCEPT ![p] = Out(a, n, r)],
             a = "unlink" => n \in {"idle", "append", "read"},
             a = "prove" => n = "reprove",
             a \in {"prove", "create"} => NoneActive,
             r # NoRun => Status(r) # "none",
             r = NoRun => a = "create" \/ (a = "unlink" /\ n = "idle")
      PROVE  IInv'
  <2>1. Out(a, n, r) \in Cmd
    <3>1. {a, n} \subseteq Places
      BY <1>4 DEF Places
    <3> HIDE <1>4
    <3> QED
      BY <1>2, <1>3, <3>1 DEF Cmd
  <2>2. /\ Alone(p) /\ proc' \in [Procs -> Cmd]
        /\ proc'[p].at = a /\ proc'[p].next = n /\ ~proc'[p].made
        /\ proc'[p].chk = NoRun /\ proc'[p].req = proc[p].req
        /\ Mine(p)' = r /\ Orch(p)' = Orch(p) /\ run' = run /\ ptr' = ptr
        /\ lock' = lock
    BY <1>1, <1>2, <1>4, <2>1 DEF IInv, Typed, Alone, Cmd, Mine, Orch, records, locks
  <2>3. Held(p)'
    BY <1>1, <1>2, <2>2 DEF Seat, Held, HoldsState, HoldsRun, Claims, Waits
  <2>4. Shaped(p)'
    BY <1>2, <1>4, <2>2 DEF Shaped, Waits, Leaves, Orch
  <2>5. KnowsRun(p)' /\ KnowsLedger(p)' /\ KnowsEnd(p)' /\ KnowsPointers(p)'
    BY <1>4, <2>2
       DEF KnowsRun, KnowsLedger, KnowsEnd, KnowsPointers, NoneActive, Status, Makes,
           Waits
  <2>6. Enters(p)
    BY <1>1, <2>2 DEF Enters, Makes, HoldsState
  <2>7. LockTyped' /\ Respects(p)
    BY <1>1, LocksUntouched DEF IInv, Typed
  <2> QED
    BY <1>1, <2>2, <2>3, <2>4, <2>5, <2>6, <2>7, CalmStep DEF Seat
<1>5. CASE ~Admissible(Orch(p)) \/ ptr[Orch(p)] # proc[p].seen
  <2>1. proc' = [proc EXCEPT ![p] = Out("unlink", "idle", NoRun)]
    BY <1>5 DEF Decide
  <2> QED
    BY <1>3, <1>4, <2>1
<1>6. CASE Admissible(Orch(p)) /\ ptr[Orch(p)] = proc[p].seen /\ ptr[Orch(p)] # NoRun
  <2>1. proc' = [proc EXCEPT ![p] = Out("unlink", Resume(p), ptr[Orch(p)])]
    BY <1>6 DEF Decide
  <2>2. Status(ptr[Orch(p)]) # "none" /\ Resume(p) \in {"read", "append"}
    BY <1>2, <1>6 DEF IInv, OneActive, Resume
  <2> QED
    BY <1>3, <1>4, <1>6, <2>1, <2>2
<1>7. CASE Admissible(Orch(p)) /\ ptr[Orch(p)] = proc[p].seen /\ ptr[Orch(p)] = NoRun
  <2>1. NoneActive
    BY <1>2, <1>7 DEF Admissible, NoneActive, Orchs, Other
  <2>2. CASE proc[p].chk # NoRun
    <3>1. proc' = [proc EXCEPT ![p] = Out("prove", "reprove", proc[p].chk)]
      BY <1>7, <2>2 DEF Decide
    <3>2. Status(proc[p].chk) # "none"
      BY <1>2, <2>2 DEF Seat, KnowsRun
    <3> QED
      BY <1>3, <1>4, <2>1, <2>2, <3>1, <3>2
  <2>3. CASE proc[p].chk = NoRun
    <3>1. proc' = [proc EXCEPT ![p] = Out("create", "append", NoRun)]
      BY <1>7, <2>3 DEF Decide
    <3> QED
      BY <1>3, <1>4, <2>1, <3>1
  <2> QED
    BY <2>2, <2>3
<1> QED
  BY <1>5, <1>6, <1>7

LEMMA ProveIsSafe ==
  ASSUME IInv, NEW p \in Procs, Prove(p)
  PROVE  IInv'
<1>1. /\ proc[p].at = "prove" /\ UNCHANGED <<records, locks, acked, bounds>>
      /\ Seat(p) /\ proc[p].next = "reprove"
  BY DEF Prove, At, IInv, Seat, Shaped
<1>2. ASSUME NEW a \in {"lock", "unlink"}, NEW n \in {"reprove", "idle"}, Moved(p, a, n),
             a = "lock" <=> n = "reprove"
      PROVE  IInv'
  <2>1. /\ Mine(p)' = Mine(p) /\ Orch(p)' = Orch(p) /\ run' = run /\ ptr' = ptr
        /\ proc'[p].at = a /\ proc'[p].next = n /\ lock' = lock
    BY <1>1, <1>2 DEF Moved, Mine, Orch, records, locks
  <2>2. Held(p)'
    BY <1>1, <1>2, <2>1 DEF Seat, Held, HoldsState, HoldsRun, Claims, Waits
  <2>3. Shaped(p)'
    BY <1>1, <1>2, <2>1 DEF Seat, Shaped, Moved, Waits, Leaves, Makes, Appends, Orch
  <2>4. KnowsRun(p)' /\ KnowsLedger(p)' /\ KnowsEnd(p)' /\ KnowsPointers(p)'
    BY <1>1, <1>2, <2>1
       DEF Seat, KnowsRun, KnowsLedger, KnowsEnd, KnowsPointers, NoneActive, Moved,
           Status, Makes, Waits
  <2>5. (Makes(p)' => Makes(p)) /\ (Hooks(p) => Hooks(p)')
    BY <1>1, <1>2, <2>1 DEF Makes, Hooks, Waits
  <2>6. LockTyped' /\ Respects(p)
    BY <1>1, LocksUntouched DEF IInv, Typed
  <2> QED
    BY <1>1, <1>2, <2>2, <2>3, <2>4, <2>5, <2>6, CalmMove DEF Seat
<1>3. CASE Go(p, "lock")
  BY <1>1, <1>2, <1>3, GoMoves DEF IInv, Places
<1>4. CASE Then(p, "unlink", "idle")
  BY <1>2, <1>4, ThenMoves DEF IInv, Places
<1> QED
  BY <1>3, <1>4 DEF Prove

LEMMA ReproveIsSafe ==
  ASSUME IInv, NEW p \in Procs, Reprove(p)
  PROVE  IInv'
<1>1. /\ proc[p].at = "reprove" /\ UNCHANGED <<records, acked, bounds>> /\ Seat(p)
      /\ ~proc[p].made
  BY DEF Reprove, At, IInv, Seat, Shaped, Waits, Leaves, Makes, Appends
<1>2. Mine(p) # NoRun /\ Mine(p) # State /\ Mine(p) \in Locks /\ State \in Locks
  BY <1>1, Wants DEF Seat, Shaped, Waits, Leaves
<1>3. LockTyped' /\ Respects(p) /\ lock'[State] = lock[State]
  BY <1>2, LocksUntouched, DropDoes DEF Reprove, IInv, Typed, locks
<1>4. ASSUME NEW a \in {"publish", "create"}, Moved(p, a, proc[p].next),
             a = "publish" => Status(Mine(p)) = "running" /\ lock' = lock
      PROVE  IInv'
  <2>1. /\ Mine(p)' = Mine(p) /\ Orch(p)' = Orch(p) /\ run' = run /\ ptr' = ptr
        /\ proc'[p].at = a /\ ~proc'[p].made
    BY <1>1, <1>4 DEF Moved, Mine, Orch, records
  <2>2. Held(p)'
    BY <1>1, <1>3, <1>4, <2>1 DEF Seat, Held, HoldsState, HoldsRun, Claims, Waits
  <2>3. Shaped(p)'
    BY <1>1, <1>2, <1>4, <2>1 DEF Seat, Shaped, Moved, Waits, Leaves, Orch
  <2>4. KnowsRun(p)' /\ KnowsLedger(p)' /\ KnowsEnd(p)' /\ KnowsPointers(p)'
    BY <1>1, <1>4, <2>1
       DEF Seat, KnowsRun, KnowsLedger, KnowsEnd, KnowsPointers, NoneActive, Moved,
           Status, Makes, Waits
  <2>5. (Makes(p)' => Makes(p)) /\ (Hooks(p) => Hooks(p)')
    BY <1>1, <2>1 DEF Makes, Hooks, Waits
  <2> QED
    BY <1>1, <1>3, <1>4, <2>2, <2>3, <2>4, <2>5, CalmMove DEF Seat
<1>5. CASE Status(Mine(p)) = "running"
  BY <1>4, <1>5, GoMoves DEF Reprove, IInv, Places, locks
<1>6. CASE Status(Mine(p)) # "running"
  BY <1>4, <1>6, GoMoves DEF Reprove, IInv, Places
<1> QED
  BY <1>5, <1>6

-----------------------------------------------------------------------------
(* Commands that begin, go on without writing, or die                      *)

LEMMA RefuseAppendIsSafe ==
  ASSUME IInv, NEW p \in Procs, RefuseAppend(p)
  PROVE  IInv'
<1>1. Drop(p, Mine(p)) /\ Quit(p) /\ UNCHANGED <<records, acked, bounds>>
  BY DEF RefuseAppend
<1>2. LockTyped' /\ Respects(p)
  BY <1>1, Wants, DropDoes DEF IInv, Typed
<1> QED
  BY <1>1, <1>2, CalmQuit

LEMMA ReadIsSafe ==
  ASSUME IInv, NEW p \in Procs, ReadLedger(p) \/ Check(p)
  PROVE  IInv'
<1>1. /\ proc[p].at \in {"read", "check"} /\ Seat(p) /\ Mine(p) # NoRun
      /\ UNCHANGED <<records, locks, acked, bounds>> /\ ~proc[p].made
  BY DEF ReadLedger, Check, At, IInv, Seat, Shaped, Waits, Leaves, Makes, Appends
<1>2. LockTyped' /\ Respects(p)
  BY <1>1, LocksUntouched DEF IInv, Typed
<1>3. CASE Quit(p)
  BY <1>1, <1>2, <1>3, CalmQuit
<1>4. ASSUME NEW a \in {"check", "lock"}, NEW n, Moved(p, a, n), a = "lock" => n = "init"
      PROVE  IInv'
  <2>1. /\ Mine(p)' = Mine(p) /\ Orch(p)' = Orch(p) /\ run' = run /\ ptr' = ptr
        /\ proc'[p].at = a /\ proc'[p].next = n /\ ~proc'[p].made
    BY <1>1, <1>4 DEF Moved, Mine, Orch, records
  <2>2. Held(p)'
    BY <1>4, <2>1 DEF Held, HoldsState, HoldsRun, Claims, Waits
  <2>3. Shaped(p)'
    BY <1>1, <1>4, <2>1 DEF Seat, Shaped, Moved, Waits, Leaves, Orch
  <2>4. KnowsRun(p)' /\ KnowsLedger(p)' /\ KnowsEnd(p)' /\ KnowsPointers(p)'
    BY <1>1, <1>4, <2>1
       DEF Seat, KnowsRun, KnowsLedger, KnowsEnd, KnowsPointers, Moved, Status, Makes,
           Waits
  <2>5. (Makes(p)' => Makes(p)) /\ (Hooks(p) => Hooks(p)')
    BY <1>1, <2>1 DEF Makes, Hooks, Waits
  <2> QED
    BY <1>1, <1>2, <1>4, <2>2, <2>3, <2>4, <2>5, CalmMove DEF Seat
<1>5. CASE Go(p, "check")
  BY <1>4, <1>5, GoMoves DEF IInv, Places
<1>6. CASE Then(p, "lock", "init")
  BY <1>4, <1>6, ThenMoves DEF IInv, Places
<1> QED
  BY <1>3, <1>5, <1>6 DEF ReadLedger, Check

(* A command that begins waits for a lock; what it names is known by then. *)
Begun(p, y) ==
  /\ proc[p] = Idle /\ proc' = [proc EXCEPT ![p] = y]
  /\ y \in Cmd /\ y.at = "lock" /\ ~y.made
  /\ \/ y.next = "look" /\ y.run = NoRun
     \/ y.next \in {"close", "note"} /\ y.run \in Runs /\ Status(y.run) # "none"
  /\ y.next # "note" => y.orch \in Orchs
  /\ y.chk # NoRun => Status(y.chk) # "none"
  /\ y.next = "close" =>
       /\ run[y.run].pipe /\ run[y.run].orch = y.orch
       /\ ptr[y.orch] = y.run \/ Status(y.run) = "completed"

LEMMA BegunIsSafe ==
  ASSUME IInv, NEW p \in Procs, NEW y, Begun(p, y), UNCHANGED <<ptr, run, acked, locks>>,
         half' \in SUBSET Orchs, requests' \in Requests, count'.lost = count.lost,
         count' \in [{"resumes", "hooks", "crashes", "lost"} -> Nat]
  PROVE  IInv'
<1>1. /\ proc' \in [Procs -> Cmd] /\ Alone(p) /\ proc'[p] = y /\ Mine(p)' = y.run
      /\ Orch(p)' = y.orch /\ run' = run /\ ptr' = ptr
  BY DEF Begun, IInv, Typed, Alone, Mine, Orch
<1>2. Calm
  BY DEF Calm
<1>3. LockTyped' /\ Respects(p)
  BY LocksUntouched DEF IInv, Typed
<1>4. Typed'
  BY <1>1, <1>3 DEF IInv, Typed
<1>5. y.at = "lock" /\ y.next \in {"look", "close", "note"} /\ ~y.made
  BY DEF Begun
<1>6. Held(p)'
  BY <1>1, <1>5 DEF Held, HoldsState, HoldsRun, Claims, Waits
<1>7. Shaped(p)'
  BY <1>1, <1>5, BoundAssumption DEF Begun, Shaped, Waits, Leaves, Runs, NoRun
<1>8. KnowsRun(p)' /\ KnowsLedger(p)' /\ KnowsEnd(p)' /\ KnowsPointers(p)'
  BY <1>1, <1>5
     DEF Begun, KnowsRun, KnowsLedger, KnowsEnd, KnowsPointers, Status, Makes, Waits
<1>9. Enters(p)
  BY <1>1, <1>5 DEF Begun, Enters, Makes, Hooks, Waits
<1> QED
  BY <1>1, <1>2, <1>3, <1>4, <1>6, <1>7, <1>8, <1>9, CalmKeeps, Keeps DEF Seat

LEMMA InvokeIsSafe ==
  ASSUME IInv, NEW p \in Procs, Invoke(p)
  PROVE  IInv'
<1>1. UNCHANGED <<ptr, half, run, acked, locks>> /\ proc[p] = Idle
  BY DEF Invoke, records, Starts, At, IInv, Seat, Shaped
<1>2. PICK o \in Orchs, q \in {0, requests + 1} :
        /\ IF q = 0 THEN Happens("resumes") /\ UNCHANGED requests
           ELSE q <= MaxRequests /\ requests' = q /\ UNCHANGED count
        /\ \E c \in Checkpoints(o) :
             proc' = [proc EXCEPT ![p] = [Idle EXCEPT
                        !.at = "lock", !.next = "look", !.orch = o, !.req = q,
                        !.chk = c]]
  BY DEF Invoke
<1>3. PICK c \in Checkpoints(o) :
        proc' = [proc EXCEPT ![p] = [Idle EXCEPT
                   !.at = "lock", !.next = "look", !.orch = o, !.req = q, !.chk = c]]
  BY <1>2
<1>4. /\ q \in Requests /\ requests' \in Requests /\ count'.lost = count.lost
      /\ count' \in [{"resumes", "hooks", "crashes", "lost"} -> Nat]
  <2>1. requests \in Nat /\ requests <= MaxRequests /\ MaxRequests \in Nat
    BY BoundAssumption DEF IInv, Typed, Requests
  <2>2. CASE q = 0
    BY <1>2, <2>1, <2>2, HappensKeeps DEF IInv, Requests
  <2>3. CASE q # 0
    <3>1. q = requests + 1 /\ q <= MaxRequests /\ requests' = q /\ count' = count
      BY <1>2, <2>3
    <3> QED
      BY <2>1, <3>1 DEF IInv, Typed, Requests
  <2> QED
    BY <2>2, <2>3
<1>5. c \in Named /\ (c # NoRun => Status(c) # "none")
  <2>1. CASE c = NoRun
    BY <2>1, BoundAssumption DEF Named, NoRun
  <2>2. CASE c # NoRun
    <3>1. c \in Runs /\ run[c].pipe
      BY <2>2 DEF Checkpoints
    <3> QED
      BY <3>1, BoundAssumption DEF IInv, Sound, Named, Runs
  <2> QED
    BY <2>1, <2>2
<1> DEFINE y == [Idle EXCEPT !.at = "lock", !.next = "look", !.orch = o, !.req = q, !.chk = c]
<1>6. y \in Cmd /\ y.at = "lock" /\ y.next = "look" /\ ~y.made /\ y.run = NoRun
      /\ y.orch = o /\ y.chk = c
  <2>1. {"lock", "look"} \subseteq Places
    BY DEF Places
  <2>2. y \in Cmd
    BY <1>4, <1>5, <2>1, IdleIsCmd DEF Cmd
  <2> QED
    BY <2>2 DEF Idle
<1>7. Begun(p, y)
  BY <1>1, <1>3, <1>5, <1>6 DEF Begun
<1>8. half' \in SUBSET Orchs
  BY <1>1 DEF IInv, Typed
<1> QED
  BY <1>1, <1>4, <1>7, <1>8, BegunIsSafe

LEMMA FinalizeIsSafe ==
  ASSUME IInv, NEW p \in Procs, NEW r \in Runs, Finalize(p, r)
  PROVE  IInv'
<1> DEFINE y == [Idle EXCEPT !.at = "lock", !.next = "close", !.orch = run[r].orch, !.run = r]
<1>1. /\ UNCHANGED <<ptr, half, run, acked, locks, bounds>> /\ proc[p] = Idle
      /\ proc' = [proc EXCEPT ![p] = y] /\ run[r].pipe
      /\ ptr[run[r].orch] = r \/ Status(r) = "completed"
  BY DEF Finalize, records, Starts, At, IInv, Seat, Shaped
<1>2. Status(r) # "none" /\ run[r].orch \in Orchs
  BY <1>1 DEF IInv, Sound
<1>3. y \in Cmd /\ y.at = "lock" /\ y.next = "close" /\ ~y.made /\ y.run = r
      /\ y.orch = run[r].orch /\ y.chk = NoRun
  <2>1. {"lock", "close"} \subseteq Places
    BY DEF Places
  <2>2. y \in Cmd
    <3>1. r \in Named
      BY BoundAssumption DEF Runs, Named
    <3> QED
      BY <1>2, <2>1, <3>1, IdleIsCmd DEF Cmd
  <2> QED
    BY <2>2 DEF Idle
<1>4. Begun(p, y)
  BY <1>1, <1>2, <1>3 DEF Begun
<1> QED
  BY <1>1, <1>4, BegunIsSafe, BoundsKept DEF IInv, Typed

LEMMA HookIsSafe ==
  ASSUME IInv, NEW p \in Procs, Hook(p)
  PROVE  IInv'
<1>1. /\ UNCHANGED <<ptr, run, acked, locks, requests>> /\ half' = {} /\ proc[p] = Idle
      /\ Happens("hooks")
  BY DEF Hook, Starts, At, IInv, Seat, Shaped
<1>2. PICK o \in Orchs :
        /\ ptr[o] # NoRun
        /\ proc' = [proc EXCEPT ![p] = [Idle EXCEPT
                      !.at = "lock", !.next = "note", !.run = ptr[o]]]
  BY DEF Hook
<1> DEFINE y == [Idle EXCEPT !.at = "lock", !.next = "note", !.run = ptr[o]]
<1>3. ptr[o] \in Runs /\ ptr[o] \in Named /\ Status(ptr[o]) # "none"
  BY <1>2, BoundAssumption DEF IInv, Typed, OneActive, Named, Runs, NoRun
<1>4. y \in Cmd /\ y.at = "lock" /\ y.next = "note" /\ ~y.made /\ y.run = ptr[o]
      /\ y.chk = NoRun
  <2>1. {"lock", "note"} \subseteq Places
    BY DEF Places
  <2>2. y \in Cmd
    BY <1>3, <2>1, IdleIsCmd DEF Cmd
  <2> QED
    BY <2>2 DEF Idle
<1>5. Begun(p, y)
  BY <1>1, <1>2, <1>3, <1>4 DEF Begun
<1>6. half' \in SUBSET Orchs /\ requests' \in Requests
  BY <1>1 DEF IInv, Typed
<1> QED
  BY <1>1, <1>5, <1>6, HappensKeeps, BegunIsSafe DEF IInv

LEMMA CrashIsSafe ==
  ASSUME IInv, NEW p \in Procs, Crash(p)
  PROVE  IInv'
<1>1. /\ Happens("crashes") /\ Abandon(p) /\ Quit(p)
      /\ UNCHANGED <<ptr, half, run, acked, requests>>
  BY DEF Crash, records
<1>2. LockTyped' /\ Respects(p)
  BY <1>1, AbandonDoes DEF IInv, Typed
<1>3. Calm /\ Typed'
  BY <1>1, <1>2, HappensKeeps, QuitIsSafe DEF IInv, Calm, Typed
<1> QED
  BY <1>1, <1>2, <1>3, QuitIsSafe, CalmKeeps, Keeps DEF IInv

-----------------------------------------------------------------------------
(* A write to the directory of one run                                     *)

SoundDir(d) ==
  /\ d.status = "none" => d = NoDir
  /\ d.status # "none" => d.orch \in Orchs
  /\ d.pipe => d.status \in {"running", "completed"}
  /\ "final" \in ToSet(d.log) => d.status = "completed"
  /\ \/ d.ledger # <<>> /\ d.anchor = d.ledger
     \/ Len(d.ledger) = 1 /\ d.anchor = <<>> /\ d.ledger[1] = d.task
     \/ Len(d.ledger) > 1 /\ d.anchor = Front(d.ledger)
     \/ d.ledger = <<>> /\ d.anchor = <<>>

LEMMA SoundIs == \A r : Sound(r) <=> SoundDir(run[r])
  BY DEF Sound, SoundDir, Status, Final, Anchored, Pending, Missing

Writes(p, r, d) ==
  /\ d \in Dir /\ SoundDir(d) /\ run' = [run EXCEPT ![r] = d]
  /\ Status(r) # "none" =>
       d.status # "none" /\ d.orch = run[r].orch /\ d.task = run[r].task
  /\ run[r].pipe => d.pipe
  /\ d.pipe => run[r].pipe \/ (r = Mine(p) /\ proc[p].at = "init")
  /\ Status(r) = "completed" => d.status = "completed"
  /\ Status(r) = "running" =>
       d.status = "running" \/ (r = Mine(p) /\ (Makes(p) \/ proc[p].at = "close"))
  /\ ToSet(run[r].ledger) \subseteq ToSet(d.ledger)
  /\ run[r].ledger # <<>> => d.ledger # <<>>

LEMMA Writing ==
  ASSUME IInv, NEW p \in Procs, NEW r \in Runs, NEW d, Writes(p, r, d)
  PROVE  /\ run' \in [Runs -> Dir] /\ run'[r] = d
         /\ \A x \in Runs \ {r} : run'[x] = run[x]
         /\ RunsKept(p) /\ (\A x \in Runs : Sound(x))'
         /\ \A a \in acked : a[2] \in ToSet(run'[a[1]].ledger)
         /\ \A x \in Runs : Status(x) # "none" => Status(x)' # "none"
<1>1. /\ run' \in [Runs -> Dir] /\ run'[r] = d
      /\ \A x \in Runs \ {r} : run'[x] = run[x]
  BY DEF Writes, IInv, Typed
<1>2. RunsKept(p)
  BY <1>1 DEF Writes, RunsKept, Status
<1>3. \A x \in Runs : SoundDir(run'[x])
  <2>1. \A x \in Runs : SoundDir(run[x])
    BY SoundIs DEF IInv
  <2> QED
    BY <1>1, <2>1 DEF Writes
<1>4. (\A x \in Runs : Sound(x))'
  BY <1>3 DEF Sound, SoundDir, Status, Final, Anchored, Pending, Missing
<1>5. \A a \in acked : a[2] \in ToSet(run'[a[1]].ledger)
  <2>1. \A a \in acked : a[1] \in Runs /\ a[2] \in ToSet(run[a[1]].ledger)
    BY DEF IInv, Kept, Typed
  <2> QED
    BY <1>2, <2>1 DEF RunsKept
<1> QED
  BY <1>1, <1>2, <1>4, <1>5 DEF RunsKept

(* Such a write leaves the pointers alone.                                 *)
LEMMA WriteStep ==
  ASSUME IInv, NEW p \in Procs, NEW r \in Runs, NEW d, Writes(p, r, d),
         UNCHANGED ptr, half' \in SUBSET Orchs, UNCHANGED bounds,
         proc' \in [Procs -> Cmd], Alone(p), Seat(p)', Enters(p),
         acked' = acked \/ \E q \in Requests :
                             acked' = acked \cup {<<r, q>>} /\ q \in ToSet(d.ledger),
         LockTyped', Respects(p)
  PROVE  IInv'
<1>1. /\ run' \in [Runs -> Dir] /\ RunsKept(p) /\ (\A x \in Runs : Sound(x))'
      /\ run'[r] = d
      /\ \A a \in acked : a[2] \in ToSet(run'[a[1]].ledger)
      /\ \A x \in Runs : Status(x) # "none" => Status(x)' # "none"
  BY Writing
<1>2. Typed'
  BY <1>1, BoundsKept DEF IInv, Typed
<1>3. Kept'
  BY <1>1 DEF Kept
<1>4. \A o \in Orchs : ptr[o] # NoRun => ptr[o] \in Runs
  BY BoundAssumption DEF IInv, Typed, Named, Runs, NoRun
<1>5. OneActive'
  BY <1>1, <1>4 DEF IInv, OneActive, Status, RunsKept
<1>6. PtrKept(p)
  BY BoundsKept DEF PtrKept, IInv
<1> QED
  BY <1>1, <1>2, <1>3, <1>5, <1>6, Keeps

(* What a write that keeps the ledger and the log, or the status, needs.   *)
LEMMA DirIs ==
  ASSUME IInv, NEW r \in Runs
  PROVE  run[r] \in Dir /\ SoundDir(run[r]) /\ Status(r) = run[r].status
  BY SoundIs DEF IInv, Typed, Status

-----------------------------------------------------------------------------
(* What a step is to the registry                                          *)

Registers == [Registry!Next]_(Registry!vars)

LEMMA Stutters ==
  ASSUME UNCHANGED <<ptr, run>>, count'.lost = count.lost
  PROVE  Registers
<1>1. ActiveRuns' = ActiveRuns
  BY DEF ActiveRuns
<1>2. EndedRuns' = EndedRuns /\ SealedRuns' = SealedRuns
  BY DEF EndedRuns, SealedRuns, Status, Sealed
<1>3. [r \in Runs |-> Book(r)]' = [r \in Runs |-> Book(r)]
  BY DEF Book, Sealed
<1> QED
  BY <1>1, <1>2, <1>3 DEF Registers, Registry!vars

LEMMA SealedIsFinal ==
  ASSUME IInv, NEW r \in Runs
  PROVE  Sealed(r) => Final(r) /\ Status(r) = "completed"
<1>1. run[r].log \in Seq(Event)
  BY DirIs DEF Dir
<1> QED
  BY <1>1, LastIn DEF Sealed, Final, IInv, Sound

(* The writes to a run that has not ended are work on it.                  *)
LEMMA Works ==
  ASSUME IInv, NEW p \in Procs, NEW r \in Runs, NEW d, Writes(p, r, d),
         UNCHANGED ptr, count'.lost = count.lost,
         d = run[r] \/ (Status(r) # "completed" /\ d.status # "completed")
  PROVE  Registers
<1>1. /\ run \in [Runs -> Dir] /\ run' = [run EXCEPT ![r] = d]
      /\ d \in Dir /\ SoundDir(d) /\ run'[r] = d
      /\ \A x \in Runs \ {r} : run'[x] = run[x]
  BY DEF Writes, IInv, Typed
<1>2. CASE d = run[r]
  <2>1. run' = run
    BY <1>1, <1>2
  <2> QED
    BY <2>1, Stutters
<1>3. CASE Status(r) # "completed" /\ d.status # "completed"
  <2>1. ActiveRuns' = ActiveRuns
    BY DEF ActiveRuns
  <2>2. EndedRuns' = EndedRuns /\ r \in Runs \ EndedRuns
    BY <1>1, <1>3 DEF EndedRuns, Status
  <2>3. ~Sealed(r) /\ ~Sealed(r)'
    <3>1. ~Sealed(r)
      BY <1>3, SealedIsFinal
    <3>2. d.log # <<>> => Last(d.log) # "final"
      <4>1. d.log \in Seq(Event) /\ "final" \notin ToSet(d.log)
        BY <1>1, <1>3 DEF Dir, SoundDir
      <4> QED
        BY <4>1, LastIn
    <3> QED
      BY <1>1, <3>1, <3>2 DEF Sealed
  <2>4. SealedRuns' = SealedRuns
    BY <1>1, <2>3 DEF SealedRuns, Sealed
  <2>5. \A x \in Runs \ {r} : [y \in Runs |-> Book(y)]'[x] = [y \in Runs |-> Book(y)][x]
    BY <1>1 DEF Book, Sealed
  <2>6. Registry!Work
    BY <2>1, <2>2, <2>4, <2>5 DEF Registry!Work
  <2> QED
    BY <2>6 DEF Registers, Registry!Next
<1> QED
  BY <1>2, <1>3

(* The final event of a run that ended seals it.                           *)
LEMMA Seals ==
  ASSUME IInv, NEW r \in Runs, Status(r) = "completed", ~Final(r),
         run' = [run EXCEPT ![r].log = Append(run[r].log, "final")],
         UNCHANGED ptr, count'.lost = count.lost
  PROVE  Registers
<1>1. run \in [Runs -> Dir] /\ run[r] \in Dir /\ run[r].log \in Seq(Event)
      /\ "final" \in Event
  BY DirIs DEF Dir, Event, IInv, Typed
<1>2. /\ Append(run[r].log, "final") # <<>>
      /\ Front(Append(run[r].log, "final")) = run[r].log
      /\ Last(Append(run[r].log, "final")) = "final"
  BY <1>1, Appended
<1>3. \A x \in Runs \ {r} : run'[x] = run[x]
  BY <1>1
<1>4. /\ run'[r].log = Append(run[r].log, "final") /\ run'[r].status = run[r].status
      /\ run'[r].task = run[r].task /\ run'[r].pipe = run[r].pipe
      /\ run'[r].ledger = run[r].ledger /\ run'[r].anchor = run[r].anchor
  BY <1>1 DEF Dir
<1>5. ~Sealed(r) /\ Sealed(r)'
  BY <1>2, <1>4, SealedIsFinal DEF Sealed
<1>6. ActiveRuns' = ActiveRuns /\ EndedRuns' = EndedRuns
  BY <1>3, <1>4 DEF ActiveRuns, EndedRuns, Status
<1>7. SealedRuns' = SealedRuns \cup {r} /\ r \in EndedRuns \ SealedRuns
  BY <1>3, <1>5 DEF EndedRuns, SealedRuns, Sealed
<1>8. Book(r)' = Book(r)
  BY <1>2, <1>4, <1>5 DEF Book
<1>9. \A x \in Runs \ {r} : Book(x)' = Book(x)
  BY <1>3 DEF Book, Sealed
<1>10. [x \in Runs |-> Book(x)]' = [x \in Runs |-> Book(x)]
  BY <1>8, <1>9
<1>11. Registry!Seal
  BY <1>6, <1>7, <1>10 DEF Registry!Seal
<1> QED
  BY <1>11 DEF Registers, Registry!Next

LEMMA CreateIsSafe ==
  ASSUME IInv, NEW p \in Procs, Create(p)
  PROVE  IInv' /\ Registers
<1>1. /\ proc[p].at = "create" /\ UNCHANGED <<ptr, half, locks, acked, bounds>>
      /\ Seat(p)
  BY DEF Create, At, IInv
<1>2. PICK r \in Unused :
        /\ run' = [run EXCEPT ![r].status = "running", ![r].orch = Orch(p),
                              ![r].task = proc[p].req]
        /\ proc' = [proc EXCEPT ![p].at = "publish", ![p].run = r, ![p].made = TRUE]
  BY DEF Create
<1> DEFINE d == [run[r] EXCEPT !.status = "running", !.orch = Orch(p), !.task = proc[p].req]
           y == [proc[p] EXCEPT !.at = "publish", !.run = r, !.made = TRUE]
<1>3. run' = [run EXCEPT ![r] = d] /\ proc' = [proc EXCEPT ![p] = y]
  BY <1>2
<1>4. r \in Runs /\ r \in Named /\ r # NoRun /\ Status(r) = "none" /\ run[r] = NoDir
  BY <1>2, BoundAssumption DEF Unused, Runs, Named, NoRun, IInv, Sound
<1>5. proc[p] \in Cmd /\ proc[p].req \in Requests /\ Orch(p) \in Orchs /\ NoneActive
  BY <1>1 DEF IInv, Typed, Cmd, Seat, Shaped, KnowsPointers, Waits, Orch
<1>6. d \in Dir /\ d.status = "running" /\ d.orch = Orch(p) /\ d.task = proc[p].req
      /\ d.pipe = run[r].pipe /\ d.ledger = run[r].ledger /\ d.anchor = run[r].anchor
      /\ d.log = run[r].log
  BY <1>4, <1>5, DirIs DEF Dir
<1> HIDE DEF d
<1>7. /\ ~d.pipe /\ d.ledger = <<>> /\ d.anchor = <<>> /\ d.log = <<>>
  BY <1>4, <1>6 DEF NoDir
<1>8. Writes(p, r, d)
  <2>1. SoundDir(d)
    BY <1>5, <1>6, <1>7, EmptyToSet DEF SoundDir
  <2> QED
    BY <1>3, <1>4, <1>6, <2>1 DEF Writes
<1>9. y \in Cmd /\ y.at = "publish" /\ y.run = r /\ y.made /\ y.req = proc[p].req
      /\ y.orch = proc[p].orch /\ y.chk = proc[p].chk /\ y.next = proc[p].next
  BY <1>4, <1>5 DEF Cmd, Places
<1> HIDE DEF y
<1>10. /\ proc' \in [Procs -> Cmd] /\ Alone(p) /\ proc'[p] = y /\ Mine(p)' = r
       /\ Orch(p)' = Orch(p) /\ lock' = lock /\ ptr' = ptr /\ run'[r] = d
  BY <1>1, <1>3, <1>4, <1>8, <1>9, Writing DEF IInv, Typed, Alone, Mine, Orch, locks
<1>11. Held(p)'
  BY <1>1, <1>9, <1>10 DEF Seat, Held, HoldsState, HoldsRun, Claims, Waits
<1>12. Shaped(p)'
  BY <1>4, <1>5, <1>9, <1>10 DEF Shaped, Waits, Leaves, Orch, Makes
<1>13. KnowsRun(p)' /\ KnowsLedger(p)' /\ KnowsEnd(p)' /\ KnowsPointers(p)'
  <2>1. proc[p].chk # NoRun => proc[p].chk \in Runs /\ Status(proc[p].chk) # "none"
    BY <1>1, <1>5, BoundAssumption DEF Seat, KnowsRun, Cmd, Named, Runs, NoRun
  <2>2. proc[p].chk # NoRun => run'[proc[p].chk].status # "none"
    <3>1. RunsKept(p)
      BY <1>4, <1>8, Writing
    <3> QED
      BY <2>1, <3>1 DEF RunsKept, Status
  <2> QED
    BY <1>4, <1>5, <1>6, <1>7, <1>9, <1>10, <2>2
       DEF KnowsRun, KnowsLedger, KnowsEnd, KnowsPointers, NoneActive, Status, Makes,
           Waits
<1>14. Enters(p)
  <2>1. \A q \in Procs \ {p} : Mine(q) # r
    BY <1>4 DEF IInv, Seat, KnowsRun
  <2> QED
    BY <1>1, <1>10, <2>1 DEF Enters, HoldsState
<1>15. LockTyped' /\ Respects(p) /\ half' \in SUBSET Orchs
  BY <1>1, LocksUntouched DEF IInv, Typed
<1>16. Registers
  BY <1>1, <1>4, <1>6, <1>8, Works, BoundsKept DEF IInv
<1> QED
  BY <1>1, <1>4, <1>8, <1>10, <1>11, <1>12, <1>13, <1>14, <1>15, <1>16, WriteStep DEF Seat

LEMMA PublishIsSafe ==
  ASSUME IInv, NEW p \in Procs, Publish(p)
  PROVE  IInv' /\ Registers
<1>1. /\ proc[p].at = "publish" /\ Seat(p) /\ UNCHANGED <<acked, bounds>>
  BY DEF Publish, At, IInv
<1>2. /\ Orch(p) \in Orchs /\ NoneActive /\ Mine(p) # NoRun /\ Status(Mine(p)) = "running"
      /\ Mine(p) \in Named
  BY <1>1, Wants DEF Seat, Shaped, KnowsRun, KnowsPointers, Waits, Leaves, Orch
<1>3. /\ ptr' = [ptr EXCEPT ![Orch(p)] = Mine(p)] /\ Go(p, "intent")
      /\ half' = half \cup {Orch(p)} /\ UNCHANGED <<run, locks>>
  BY <1>2 DEF Publish, NoneActive
<1>4. Moved(p, "intent", proc[p].next)
  BY <1>3, GoMoves DEF IInv, Places
<1>5. /\ Mine(p)' = Mine(p) /\ Orch(p)' = Orch(p) /\ run' = run /\ lock' = lock
      /\ proc'[p].at = "intent" /\ proc'[p].made = proc[p].made /\ count' = count
  BY <1>1, <1>3, <1>4 DEF Moved, Mine, Orch, locks, bounds
<1>6. Held(p)'
  BY <1>1, <1>5 DEF Seat, Held, HoldsState, HoldsRun, Claims, Waits
<1>7. Shaped(p)'
  BY <1>1, <1>2, <1>4, <1>5 DEF Seat, Shaped, Moved, Waits, Leaves, Makes, Appends, Orch
<1>8. KnowsRun(p)' /\ KnowsLedger(p)' /\ KnowsEnd(p)' /\ KnowsPointers(p)'
  BY <1>1, <1>4, <1>5
     DEF Seat, KnowsRun, KnowsLedger, KnowsEnd, KnowsPointers, Moved, Status, Makes, Waits
<1>9. Enters(p)
  BY <1>1, <1>5 DEF Enters, Makes, HoldsState
<1>10. LockTyped' /\ Respects(p)
  BY <1>3, LocksUntouched DEF IInv, Typed
<1>11. Typed'
  BY <1>1, <1>2, <1>3, <1>4, <1>10, BoundsKept DEF IInv, Typed, Moved
<1>12. RunsKept(p) /\ PtrKept(p)
  BY <1>1, <1>2, <1>5 DEF RunsKept, PtrKept, Status, NoneActive
<1>13. (\A r \in Runs : Sound(r))' /\ Kept'
  BY <1>1, <1>3 DEF IInv, Sound, Status, Final, Anchored, Pending, Missing, Kept
<1>14. OneActive'
  <2>1. \A o \in Orchs : ptr'[o] = IF o = Orch(p) THEN Mine(p) ELSE NoRun
    BY <1>2, <1>3 DEF NoneActive, IInv, Typed
  <2>2. \A o \in Orchs : Other(o) \in Orchs /\ Other(o) # o
    BY DEF Orchs, Other
  <2> QED
    BY <1>2, <1>5, <2>1, <2>2 DEF OneActive, Status
<1>15. Registers
  <2>1. \A o \in Orchs : ptr'[o] = IF o = Orch(p) THEN Mine(p) ELSE NoRun
    BY <1>2, <1>3 DEF NoneActive, IInv, Typed
  <2>2. ActiveRuns = {} /\ ActiveRuns' = {Mine(p)}
    BY <1>2, <2>1 DEF ActiveRuns, NoneActive
  <2>3. Mine(p) \in Runs \ EndedRuns
    BY <1>2, Wants DEF EndedRuns
  <2>4. EndedRuns' = EndedRuns /\ SealedRuns' = SealedRuns
    BY <1>5 DEF EndedRuns, SealedRuns, Status, Sealed
  <2>5. [r \in Runs |-> Book(r)]' = [r \in Runs |-> Book(r)]
    BY <1>5 DEF Book, Sealed
  <2>6. Registry!Open
    BY <1>5, <2>2, <2>3, <2>4, <2>5 DEF Registry!Open
  <2> QED
    BY <2>6 DEF Registers, Registry!Next
<1> QED
  BY <1>15, <1>4, <1>6, <1>7, <1>8, <1>9, <1>10, <1>11, <1>12, <1>13, <1>14, Keeps
     DEF Seat, Moved

LEMMA DropIntentIsSafe ==
  ASSUME IInv, NEW p \in Procs, DropIntent(p)
  PROVE  IInv' /\ Registers
<1>1. /\ proc[p].at = "intent" /\ half' = half \ {Orch(p)} /\ Drop(p, Mine(p))
      /\ UNCHANGED <<ptr, acked, bounds>> /\ Seat(p)
  BY DEF DropIntent, At, IInv
<1>2. LockTyped' /\ Respects(p) /\ half' \in SUBSET Orchs
  BY <1>1, Wants, DropDoes DEF IInv, Typed
<1>3. /\ Mine(p) \in Runs /\ Mine(p) \in Locks /\ Mine(p) # State /\ State \in Locks
      /\ Mine(p) # NoRun /\ lock[State] = p
  BY <1>1, Wants DEF Seat, Held, HoldsState, Shaped, Waits, Leaves
<1>4. lock'[State] = p
  BY <1>1, <1>3, DropDoes DEF IInv, Typed
<1>5. ASSUME NEW n \in {"append", "idle"}, Moved(p, "unlink", n),
             Status(Mine(p)) # "none" => run'[Mine(p)].status # "none",
             run'[Mine(p)].task = run[Mine(p)].task,
             RunsKept(p)
      PROVE  Seat(p)' /\ Enters(p)
  <2>1. /\ Mine(p)' = Mine(p) /\ Orch(p)' = Orch(p) /\ proc'[p].at = "unlink"
        /\ proc'[p].next = n /\ proc'[p].chk = proc[p].chk /\ ptr' = ptr
        /\ proc'[p].made = proc[p].made /\ proc'[p].req = proc[p].req
    BY <1>1, <1>5 DEF Moved, Mine, Orch
  <2>2. Held(p)'
    BY <1>4, <2>1 DEF Held, HoldsState, HoldsRun, Claims, Waits
  <2>3. Shaped(p)'
    BY <1>1, <1>5, <2>1 DEF Seat, Shaped, Moved, Waits, Leaves, Makes, Appends, Orch
  <2>4. KnowsRun(p)'
    <3>1. proc[p].chk # NoRun => proc[p].chk \in Runs /\ Status(proc[p].chk) # "none"
      BY <1>1, BoundAssumption
         DEF Seat, KnowsRun, IInv, Typed, Cmd, Named, Runs, NoRun
    <3>2. proc[p].chk # NoRun => run'[proc[p].chk].status # "none"
      BY <1>5, <3>1 DEF RunsKept, Status
    <3> QED
      BY <1>1, <1>3, <1>5, <2>1, <3>2 DEF Seat, KnowsRun, Status, Makes
  <2>5. KnowsLedger(p)' /\ KnowsEnd(p)' /\ KnowsPointers(p)'
    BY <2>1 DEF KnowsLedger, KnowsEnd, KnowsPointers, Waits
  <2>6. Enters(p)
    BY <1>1, <2>1 DEF Enters, Makes, HoldsState
  <2> QED
    BY <2>2, <2>3, <2>4, <2>5, <2>6 DEF Seat
<1> DEFINE d == IF Published(p) \/ ~proc[p].made THEN run[Mine(p)]
                ELSE [run[Mine(p)] EXCEPT !.status = "gone"]
           n == IF Published(p) THEN "append" ELSE "idle"
<1>6. Then(p, "unlink", n) /\ run' = [run EXCEPT ![Mine(p)] = d]
  <2>1. run = [run EXCEPT ![Mine(p)] = run[Mine(p)]]
    BY DEF IInv, Typed
  <2> QED
    BY <2>1 DEF DropIntent, Erased
<1>7. Moved(p, "unlink", n)
  BY <1>6, ThenMoves DEF IInv, Places
<1>8. /\ Writes(p, Mine(p), d) /\ d.task = run[Mine(p)].task
      /\ d = run[Mine(p)] \/ (Status(Mine(p)) = "running" /\ d.status = "gone")
  <2>1. CASE Published(p) \/ ~proc[p].made
    BY <1>3, <1>6, <2>1, DirIs DEF Writes
  <2>2. CASE ~Published(p) /\ proc[p].made
    <3>1. Makes(p) /\ Status(Mine(p)) = "running" /\ ~run[Mine(p)].pipe
      BY <1>1, <2>2 DEF Makes, Seat, KnowsRun
    <3>2. d \in Dir /\ d.status = "gone" /\ d.orch = run[Mine(p)].orch
          /\ d.task = run[Mine(p)].task /\ d.pipe = run[Mine(p)].pipe
          /\ d.ledger = run[Mine(p)].ledger /\ d.anchor = run[Mine(p)].anchor
          /\ d.log = run[Mine(p)].log
      BY <1>3, <2>2, DirIs DEF Dir
    <3> HIDE DEF d
    <3>3. SoundDir(d)
      BY <1>3, <3>1, <3>2, DirIs DEF SoundDir
    <3> QED
      BY <1>6, <3>1, <3>2, <3>3 DEF Writes
  <2> QED
    BY <2>1, <2>2
<1> HIDE DEF d
<1>9. Seat(p)' /\ Enters(p)
  BY <1>3, <1>5, <1>7, <1>8, Writing DEF Writes
<1>10. Registers
  BY <1>1, <1>3, <1>8, Works, BoundsKept DEF IInv
<1> QED
  BY <1>1, <1>2, <1>3, <1>7, <1>8, <1>9, <1>10, WriteStep DEF Moved

-----------------------------------------------------------------------------
(* The request into the ledger, and the pipeline                           *)

LEMMA RepairIsSafe ==
  ASSUME IInv, NEW p \in Procs, RepairAnchor(p)
  PROVE  IInv' /\ Registers
<1> DEFINE r == Mine(p)
           d == [run[r] EXCEPT !.anchor = run[r].ledger]
<1>1. /\ proc[p].at = "ledger" /\ Seat(p) /\ Status(r) = "running" /\ Pending(r)
      /\ UNCHANGED <<ptr, half, locks, proc, acked, bounds>>
      /\ run' = [run EXCEPT ![r] = d]
  BY DEF RepairAnchor, At, IInv
<1>2. r \in Runs
  BY <1>1, Wants DEF Seat, Shaped, Waits, Leaves
<1>3. run[r].ledger # <<>>
  <2>1. run[r].ledger \in Seq(Requests)
    BY <1>2, DirIs DEF Dir
  <2> QED
    BY <1>1, <2>1, EmptySeq DEF Pending
<1>4. d \in Dir /\ d.status = run[r].status /\ d.orch = run[r].orch
      /\ d.task = run[r].task /\ d.pipe = run[r].pipe
      /\ d.ledger = run[r].ledger /\ d.anchor = run[r].ledger /\ d.log = run[r].log
  BY <1>2, DirIs DEF Dir
<1> HIDE DEF d
<1>5. SoundDir(d)
  BY <1>1, <1>2, <1>3, <1>4, DirIs DEF SoundDir
<1>6. Writes(p, r, d)
  BY <1>1, <1>4, <1>5 DEF Writes, Status
<1>7. /\ Mine(p)' = Mine(p) /\ Orch(p)' = Orch(p) /\ proc' = proc /\ lock' = lock
      /\ claim' = claim /\ ptr' = ptr /\ Alone(p) /\ run'[r] = d
  BY <1>1, <1>2, <1>6, Writing DEF Mine, Orch, locks, Alone
<1>8. Held(p)' /\ Shaped(p)'
  BY <1>1, <1>7
     DEF Seat, Held, Shaped, HoldsState, HoldsRun, Claims, Waits, Leaves, Makes,
         Appends, Orch
<1>9. KnowsRun(p)' /\ KnowsLedger(p)' /\ KnowsEnd(p)' /\ KnowsPointers(p)'
  <2>1. proc[p].chk # NoRun => proc[p].chk \in Runs /\ Status(proc[p].chk) # "none"
    BY <1>1, BoundAssumption DEF Seat, KnowsRun, IInv, Typed, Cmd, Named, Runs, NoRun
  <2>2. proc[p].chk # NoRun => run'[proc[p].chk].status # "none"
    <3>1. RunsKept(p)
      BY <1>2, <1>6, Writing
    <3> QED
      BY <2>1, <3>1 DEF RunsKept, Status
  <2> QED
    BY <1>1, <1>4, <1>7, <2>2
       DEF Seat, KnowsRun, KnowsLedger, KnowsEnd, KnowsPointers, Status, Makes, Waits
<1>10. Enters(p)
  BY <1>1, <1>7 DEF Enters, Makes, Hooks, Waits
<1>11. LockTyped' /\ Respects(p)
  BY <1>1, LocksUntouched DEF IInv, Typed
<1>12. proc' \in [Procs -> Cmd] /\ half' \in SUBSET Orchs
  BY <1>1, <1>7 DEF IInv, Typed
<1>13. Registers
  BY <1>1, <1>2, <1>4, <1>6, Works, BoundsKept DEF IInv, Status
<1> QED
  BY <1>1, <1>2, <1>6, <1>7, <1>8, <1>9, <1>10, <1>11, <1>12, <1>13, WriteStep DEF Seat

LEMMA WriteLedgerIsSafe ==
  ASSUME IInv, NEW p \in Procs, WriteLedger(p)
  PROVE  IInv' /\ Registers
<1> DEFINE r == Mine(p)
           l == run[r].ledger
           d == [run[r] EXCEPT !.ledger = Append(l, proc[p].req)]
<1>1. /\ proc[p].at = "ledger" /\ Seat(p) /\ Status(r) = "running" /\ Appendable(p)
      /\ UNCHANGED <<ptr, half, locks, acked, bounds>> /\ Go(p, "anchor")
      /\ run' = [run EXCEPT ![r] = d]
  BY DEF WriteLedger, At, IInv
<1>2. r \in Runs /\ proc[p].req \in Requests /\ l \in Seq(Requests)
  BY <1>1, Wants, DirIs DEF Seat, Shaped, Waits, Leaves, IInv, Typed, Cmd, Dir
<1>3. /\ Append(l, proc[p].req) \in Seq(Requests) /\ Append(l, proc[p].req) # <<>>
      /\ Front(Append(l, proc[p].req)) = l /\ Len(Append(l, proc[p].req)) = Len(l) + 1
      /\ ToSet(Append(l, proc[p].req)) = ToSet(l) \cup {proc[p].req}
      /\ Append(l, proc[p].req)[Len(l) + 1] = proc[p].req
  BY <1>2, Appended, AppendProperties
<1>4. d \in Dir /\ d.status = run[r].status /\ d.orch = run[r].orch
      /\ d.task = run[r].task /\ d.pipe = run[r].pipe
      /\ d.ledger = Append(l, proc[p].req) /\ d.anchor = run[r].anchor
      /\ d.log = run[r].log
  BY <1>2, <1>3, DirIs DEF Dir
<1> HIDE DEF d
<1>5. SoundDir(d)
  <2>1. \/ Len(d.ledger) = 1 /\ d.anchor = <<>> /\ d.ledger[1] = d.task
        \/ Len(d.ledger) > 1 /\ d.anchor = Front(d.ledger)
    <3>1. CASE Anchored(r)
      <4>1. Len(l) > 0
        BY <1>2, <3>1, EmptySeq, LenProperties DEF Anchored
      <4> QED
        BY <1>2, <1>3, <1>4, <3>1, <4>1 DEF Anchored
    <3>2. CASE Missing(r) /\ proc[p].made
      <4>1. Len(l) = 0 /\ proc[p].req = run[r].task
        BY <1>1, <3>2 DEF Missing, Seat, KnowsRun
      <4> QED
        BY <1>3, <1>4, <3>2, <4>1 DEF Missing
    <3> QED
      BY <1>1, <3>1, <3>2 DEF Appendable
  <2> QED
    BY <1>1, <1>2, <1>4, <2>1, DirIs DEF SoundDir
<1>6. Writes(p, r, d)
  BY <1>1, <1>3, <1>4, <1>5 DEF Writes, Status
<1>7. Moved(p, "anchor", proc[p].next)
  BY <1>1, GoMoves DEF IInv, Places
<1>8. /\ Mine(p)' = Mine(p) /\ Orch(p)' = Orch(p) /\ proc'[p].at = "anchor" /\ lock' = lock
      /\ ptr' = ptr /\ run'[r] = d
  BY <1>1, <1>2, <1>6, <1>7, Writing DEF Moved, Mine, Orch, locks
<1>9. Held(p)'
  BY <1>1, <1>8 DEF Seat, Held, HoldsState, HoldsRun, Claims, Waits
<1>10. Shaped(p)'
  BY <1>1, <1>7, <1>8 DEF Seat, Shaped, Moved, Waits, Leaves, Makes, Appends, Orch
<1>11. KnowsRun(p)' /\ KnowsLedger(p)' /\ KnowsEnd(p)' /\ KnowsPointers(p)'
  <2>1. proc[p].chk # NoRun => proc[p].chk \in Runs /\ Status(proc[p].chk) # "none"
    BY <1>1, BoundAssumption DEF Seat, KnowsRun, IInv, Typed, Cmd, Named, Runs, NoRun
  <2>2. proc[p].chk # NoRun => run'[proc[p].chk].status # "none"
    <3>1. RunsKept(p)
      BY <1>2, <1>6, Writing
    <3> QED
      BY <2>1, <3>1 DEF RunsKept, Status
  <2>3. KnowsRun(p)'
    BY <1>1, <1>4, <1>7, <1>8, <2>2 DEF Seat, KnowsRun, Moved, Status, Makes
  <2>4. KnowsLedger(p)'
    <3>1. d.ledger # <<>> /\ proc[p].req \in ToSet(d.ledger) /\ d.status = "running"
      BY <1>1, <1>3, <1>4 DEF Status
    <3>2. proc'[p].req = proc[p].req
      BY <1>7 DEF Moved
    <3> QED
      BY <1>8, <3>1, <3>2 DEF KnowsLedger, Status
  <2> QED
    BY <1>8, <2>3, <2>4 DEF KnowsEnd, KnowsPointers, Waits
<1>12. Enters(p)
  BY <1>1, <1>8 DEF Enters, Makes, Hooks, Waits
<1>13. LockTyped' /\ Respects(p)
  BY <1>1, LocksUntouched DEF IInv, Typed
<1>14. proc' \in [Procs -> Cmd] /\ half' \in SUBSET Orchs /\ Alone(p)
  BY <1>1, <1>7 DEF IInv, Typed, Moved
<1>15. Registers
  BY <1>1, <1>2, <1>4, <1>6, Works, BoundsKept DEF IInv, Status
<1> QED
  BY <1>1, <1>2, <1>6, <1>9, <1>10, <1>11, <1>12, <1>13, <1>14, <1>15, WriteStep DEF Seat

LEMMA WriteAnchorIsSafe ==
  ASSUME IInv, NEW p \in Procs, WriteAnchor(p)
  PROVE  IInv' /\ Registers
<1> DEFINE r == Mine(p)
           d == [run[r] EXCEPT !.anchor = run[r].ledger, !.log = Append(run[r].log, "note")]
           y == [proc[p] EXCEPT !.at = "check", !.req = 0, !.made = FALSE]
<1>1. /\ proc[p].at = "anchor" /\ Seat(p) /\ Drop(p, r) /\ UNCHANGED <<ptr, half, bounds>>
      /\ run' = [run EXCEPT ![r] = d] /\ proc' = [proc EXCEPT ![p] = y]
      /\ acked' = acked \cup {<<r, proc[p].req>>}
  BY DEF WriteAnchor, At, IInv
<1>2. r \in Runs /\ r \in Locks /\ r # NoRun /\ proc[p] \in Cmd /\ proc[p].req \in Requests
  BY <1>1, Wants DEF Seat, Shaped, Waits, Leaves, IInv, Typed, Cmd
<1>3. /\ Status(r) = "running" /\ run[r].ledger # <<>>
      /\ proc[p].req \in ToSet(run[r].ledger)
  BY <1>1 DEF Seat, KnowsLedger
<1>4. run[r].log \in Seq(Event) /\ "note" \in Event
  BY <1>2, DirIs DEF Dir, Event
<1>5. /\ Append(run[r].log, "note") \in Seq(Event)
      /\ ToSet(Append(run[r].log, "note")) = ToSet(run[r].log) \cup {"note"}
  BY <1>4, Appended
<1>6. d \in Dir /\ d.status = run[r].status /\ d.orch = run[r].orch
      /\ d.task = run[r].task /\ d.pipe = run[r].pipe
      /\ d.ledger = run[r].ledger /\ d.anchor = run[r].ledger
      /\ d.log = Append(run[r].log, "note")
  BY <1>2, <1>5, DirIs DEF Dir
<1> HIDE DEF d
<1>7. SoundDir(d)
  BY <1>2, <1>3, <1>5, <1>6, DirIs DEF SoundDir
<1>8. Writes(p, r, d)
  BY <1>1, <1>3, <1>6, <1>7 DEF Writes, Status
<1>9. y \in Cmd /\ y.at = "check" /\ y.run = r /\ ~y.made /\ y.orch = proc[p].orch
      /\ y.chk = proc[p].chk
  <2>1. "check" \in Places /\ 0 \in Requests
    BY BoundAssumption DEF Places, Requests
  <2> QED
    BY <1>2, <2>1 DEF Cmd, Mine
<1> HIDE DEF y
<1>10. /\ proc' \in [Procs -> Cmd] /\ Alone(p) /\ proc'[p] = y /\ Mine(p)' = r
       /\ Orch(p)' = Orch(p) /\ ptr' = ptr /\ run'[r] = d
  BY <1>1, <1>2, <1>8, <1>9, Writing DEF IInv, Typed, Alone, Mine, Orch
<1>11. Held(p)'
  BY <1>9, <1>10 DEF Held, HoldsState, HoldsRun, Claims, Waits
<1>12. Shaped(p)'
  BY <1>1, <1>2, <1>9, <1>10 DEF Seat, Shaped, Waits, Leaves, Orch
<1>13. KnowsRun(p)' /\ KnowsLedger(p)' /\ KnowsEnd(p)' /\ KnowsPointers(p)'
  <2>1. proc[p].chk # NoRun => proc[p].chk \in Runs /\ Status(proc[p].chk) # "none"
    BY <1>1, BoundAssumption DEF Seat, KnowsRun, IInv, Typed, Cmd, Named, Runs, NoRun
  <2>2. proc[p].chk # NoRun => run'[proc[p].chk].status # "none"
    <3>1. RunsKept(p)
      BY <1>2, <1>8, Writing
    <3> QED
      BY <2>1, <3>1 DEF RunsKept, Status
  <2> QED
    BY <1>3, <1>6, <1>9, <1>10, <2>2
       DEF KnowsRun, KnowsLedger, KnowsEnd, KnowsPointers, Status, Makes, Waits
<1>14. Enters(p)
  BY <1>1, <1>9, <1>10 DEF Enters, Makes, Hooks, Waits
<1>15. LockTyped' /\ Respects(p) /\ half' \in SUBSET Orchs
  BY <1>1, <1>2, DropDoes DEF IInv, Typed
<1>16. proc[p].req \in ToSet(d.ledger)
  BY <1>3, <1>6
<1>17. Registers
  BY <1>1, <1>2, <1>3, <1>6, <1>8, Works, BoundsKept DEF IInv, Status
<1> QED
  BY <1>1, <1>2, <1>8, <1>10, <1>11, <1>12, <1>13, <1>14, <1>15, <1>16, <1>17, WriteStep
     DEF Seat

LEMMA InitPipelineIsSafe ==
  ASSUME IInv, NEW p \in Procs, InitPipeline(p)
  PROVE  IInv' /\ Registers
<1> DEFINE r == Mine(p)
           d == IF Status(r) = "running" THEN [run[r] EXCEPT !.pipe = TRUE] ELSE run[r]
<1>1. /\ proc[p].at = "init" /\ Seat(p) /\ Drop(p, r) /\ Quit(p)
      /\ UNCHANGED <<ptr, half, acked, bounds>>
  BY DEF InitPipeline, At, IInv
<1>2. r \in Runs /\ r \in Locks
  BY <1>1, Wants DEF Seat, Shaped, Waits, Leaves
<1>3. run' = [run EXCEPT ![r] = d]
  <2>1. run = [run EXCEPT ![r] = run[r]]
    BY DEF IInv, Typed
  <2> QED
    BY <2>1 DEF InitPipeline
<1>4. /\ Writes(p, r, d)
      /\ d = run[r] \/ (Status(r) = "running" /\ d.status = "running")
  <2>1. CASE Status(r) # "running"
    BY <1>2, <1>3, <2>1, DirIs DEF Writes
  <2>2. CASE Status(r) = "running"
    <3>1. d \in Dir /\ d.status = run[r].status /\ d.orch = run[r].orch
          /\ d.task = run[r].task /\ d.pipe
          /\ d.ledger = run[r].ledger /\ d.anchor = run[r].anchor /\ d.log = run[r].log
      BY <1>2, <2>2, DirIs DEF Dir
    <3> HIDE DEF d
    <3>2. SoundDir(d)
      BY <1>2, <2>2, <3>1, DirIs DEF SoundDir
    <3> QED
      BY <1>1, <1>3, <2>2, <3>1, <3>2 DEF Writes, Status
  <2> QED
    BY <2>1, <2>2
<1>5. LockTyped' /\ Respects(p) /\ half' \in SUBSET Orchs
  BY <1>1, <1>2, DropDoes DEF IInv, Typed
<1>6. proc' \in [Procs -> Cmd] /\ Alone(p) /\ Seat(p)' /\ Enters(p)
  BY <1>1, QuitIsSafe DEF IInv
<1> HIDE DEF d
<1>7. Registers
  BY <1>1, <1>2, <1>4, Works, BoundsKept DEF IInv
<1> QED
  BY <1>7, <1>1, <1>2, <1>4, <1>5, <1>6, WriteStep

-----------------------------------------------------------------------------
(* The end of a run, and events of the hooks                               *)

LEMMA CloseIsSafe ==
  ASSUME IInv, NEW p \in Procs, Close(p)
  PROVE  IInv' /\ Registers
<1> DEFINE r == Mine(p)
           d == [run[r] EXCEPT !.status = "completed"]
           y == [proc[p] EXCEPT !.at = "final", !.seen = ptr[Orch(p)]]
<1>1. /\ proc[p].at = "close" /\ Seat(p) /\ half' = half \ {Orch(p)}
      /\ UNCHANGED <<ptr, locks, acked, bounds>>
      /\ run' = [run EXCEPT ![r] = d] /\ proc' = [proc EXCEPT ![p] = y]
  BY DEF Close, At, IInv
<1>2. /\ r \in Runs /\ r # NoRun /\ proc[p] \in Cmd /\ ~proc[p].made /\ Orch(p) \in Orchs
      /\ run[r].pipe /\ run[r].orch = Orch(p)
  BY <1>1, Wants
     DEF Seat, Shaped, KnowsEnd, Waits, Leaves, Makes, Appends, Orch, IInv, Typed
<1>3. run[r].status \in {"running", "completed"}
  BY <1>2, DirIs DEF SoundDir
<1>4. d \in Dir /\ d.status = "completed" /\ d.orch = run[r].orch
      /\ d.task = run[r].task /\ d.pipe = run[r].pipe
      /\ d.ledger = run[r].ledger /\ d.anchor = run[r].anchor /\ d.log = run[r].log
  BY <1>2, DirIs DEF Dir
<1> HIDE DEF d
<1>5. SoundDir(d)
  BY <1>2, <1>3, <1>4, DirIs DEF SoundDir
<1>6. Writes(p, r, d)
  BY <1>1, <1>4, <1>5 DEF Writes
<1>7. y \in Cmd /\ y.at = "final" /\ y.run = r /\ ~y.made /\ y.orch = proc[p].orch
      /\ y.chk = proc[p].chk
  <2>1. "final" \in Places /\ ptr[Orch(p)] \in Named
    BY <1>2 DEF Places, IInv, Typed
  <2> QED
    BY <1>2, <2>1 DEF Cmd, Mine
<1> HIDE DEF y
<1>8. /\ proc' \in [Procs -> Cmd] /\ Alone(p) /\ proc'[p] = y /\ Mine(p)' = r
      /\ Orch(p)' = Orch(p) /\ ptr' = ptr /\ lock' = lock /\ run'[r] = d
  BY <1>1, <1>2, <1>6, <1>7, Writing DEF IInv, Typed, Alone, Mine, Orch, locks
<1>9. Held(p)'
  BY <1>1, <1>7, <1>8 DEF Seat, Held, HoldsState, HoldsRun, Claims, Waits
<1>10. Shaped(p)'
  BY <1>2, <1>7, <1>8 DEF Shaped, Waits, Leaves, Orch
<1>11. KnowsRun(p)' /\ KnowsLedger(p)' /\ KnowsEnd(p)' /\ KnowsPointers(p)'
  <2>1. proc[p].chk # NoRun => proc[p].chk \in Runs /\ Status(proc[p].chk) # "none"
    BY <1>1, BoundAssumption DEF Seat, KnowsRun, IInv, Typed, Cmd, Named, Runs, NoRun
  <2>2. proc[p].chk # NoRun => run'[proc[p].chk].status # "none"
    <3>1. RunsKept(p)
      BY <1>2, <1>6, Writing
    <3> QED
      BY <2>1, <3>1 DEF RunsKept, Status
  <2> QED
    BY <1>2, <1>4, <1>7, <1>8, <2>2
       DEF KnowsRun, KnowsLedger, KnowsEnd, KnowsPointers, Status, Makes, Waits
<1>12. Enters(p)
  BY <1>1, <1>7, <1>8 DEF Enters, Makes, Hooks, Waits
<1>13. LockTyped' /\ Respects(p) /\ half' \in SUBSET Orchs
  BY <1>1, LocksUntouched DEF IInv, Typed
<1>14. Registers
  <2>1. run \in [Runs -> Dir] /\ \A x \in Runs \ {r} : run'[x] = run[x]
    BY <1>2, <1>6, Writing DEF IInv, Typed
  <2>2. CASE Status(r) = "completed"
    <3>1. d = run[r]
      BY <1>2, <2>2, DirIs DEF d, Dir
    <3> QED
      BY <1>1, <1>2, <1>6, <3>1, Works, BoundsKept DEF IInv
  <2>3. CASE Status(r) # "completed"
    <3>1. r \in Runs \ EndedRuns /\ EndedRuns' = EndedRuns \cup {r}
      BY <1>2, <1>4, <1>8, <2>1, <2>3 DEF EndedRuns, Status
    <3>2. ActiveRuns' = ActiveRuns /\ (r \in ActiveRuns \/ count.lost > 0)
      <4>1. ptr[Orch(p)] = r \/ count.lost > 0
        BY <1>1, <2>3 DEF Seat, KnowsEnd
      <4> QED
        BY <1>2, <1>8, <4>1 DEF ActiveRuns
    <3>3. \A x \in Runs : run'[x].log = run[x].log /\ run'[x].ledger = run[x].ledger
                          /\ run'[x].anchor = run[x].anchor /\ run'[x].task = run[x].task
                          /\ run'[x].pipe = run[x].pipe
      BY <1>4, <1>8, <2>1
    <3>4. SealedRuns' = SealedRuns
      BY <3>3 DEF SealedRuns, Sealed
    <3>5. [x \in Runs |-> Book(x)]' = [x \in Runs |-> Book(x)]
      BY <3>3 DEF Book, Sealed
    <3>6. count'.lost = count.lost
      BY <1>1, BoundsKept DEF IInv
    <3>7. Registry!End
      BY <3>1, <3>2, <3>4, <3>5, <3>6 DEF Registry!End
    <3> QED
      BY <3>7 DEF Registers, Registry!Next
  <2> QED
    BY <2>2, <2>3
<1> QED
  BY <1>1, <1>2, <1>6, <1>8, <1>9, <1>10, <1>11, <1>12, <1>13, <1>14, WriteStep DEF Seat

LEMMA CloseEventIsSafe ==
  ASSUME IInv, NEW p \in Procs, CloseEvent(p)
  PROVE  IInv' /\ Registers
<1> DEFINE r == Mine(p)
           d == IF Final(r) THEN run[r]
                ELSE [run[r] EXCEPT !.log = Append(run[r].log, "final")]
<1>1. /\ proc[p].at = "final" /\ Seat(p) /\ Go(p, "clear")
      /\ UNCHANGED <<ptr, half, locks, acked, bounds>>
  BY DEF CloseEvent, At, IInv
<1>2. r \in Runs /\ Status(r) = "completed"
  BY <1>1, Wants DEF Seat, Shaped, KnowsEnd, Waits, Leaves
<1>3. run' = [run EXCEPT ![r] = d]
  <2>1. run = [run EXCEPT ![r] = run[r]]
    BY DEF IInv, Typed
  <2> QED
    BY <2>1 DEF CloseEvent
<1>4. Writes(p, r, d) /\ d.status = "completed" /\ d.pipe = run[r].pipe
      /\ d.orch = run[r].orch
  <2>1. CASE Final(r)
    BY <1>2, <1>3, <2>1, DirIs DEF Writes
  <2>2. CASE ~Final(r)
    <3>1. run[r].log \in Seq(Event) /\ "final" \in Event
      BY <1>2, DirIs DEF Dir, Event
    <3>2. Append(run[r].log, "final") \in Seq(Event)
      BY <3>1
    <3>3. d \in Dir /\ d.status = run[r].status /\ d.orch = run[r].orch
          /\ d.task = run[r].task /\ d.pipe = run[r].pipe
          /\ d.ledger = run[r].ledger /\ d.anchor = run[r].anchor
      BY <1>2, <2>2, <3>2, DirIs DEF Dir
    <3> HIDE DEF d
    <3>4. SoundDir(d)
      BY <1>2, <3>3, DirIs DEF SoundDir
    <3> QED
      BY <1>2, <1>3, <3>3, <3>4 DEF Writes, Status
  <2> QED
    BY <2>1, <2>2
<1> HIDE DEF d
<1>5. Moved(p, "clear", proc[p].next)
  BY <1>1, GoMoves DEF IInv, Places
<1>6. /\ Mine(p)' = Mine(p) /\ Orch(p)' = Orch(p) /\ proc'[p].at = "clear" /\ lock' = lock
      /\ ptr' = ptr /\ run'[r] = d
  BY <1>1, <1>2, <1>4, <1>5, Writing DEF Moved, Mine, Orch, locks
<1>7. Held(p)'
  BY <1>1, <1>6 DEF Seat, Held, HoldsState, HoldsRun, Claims, Waits
<1>8. Shaped(p)'
  BY <1>1, <1>5, <1>6 DEF Seat, Shaped, Moved, Waits, Leaves, Makes, Appends, Orch
<1>9. KnowsRun(p)' /\ KnowsLedger(p)' /\ KnowsEnd(p)' /\ KnowsPointers(p)'
  <2>1. proc[p].chk # NoRun => proc[p].chk \in Runs /\ Status(proc[p].chk) # "none"
    BY <1>1, BoundAssumption DEF Seat, KnowsRun, IInv, Typed, Cmd, Named, Runs, NoRun
  <2>2. proc[p].chk # NoRun => run'[proc[p].chk].status # "none"
    <3>1. RunsKept(p)
      BY <1>2, <1>4, Writing
    <3> QED
      BY <2>1, <3>1 DEF RunsKept, Status
  <2>3. ~proc[p].made
    BY <1>1 DEF Seat, Shaped, Makes, Appends, Leaves, Waits
  <2> QED
    BY <1>1, <1>4, <1>5, <1>6, <2>2, <2>3
       DEF Seat, KnowsRun, KnowsLedger, KnowsEnd, KnowsPointers, Moved, Status, Makes,
           Waits
<1>10. Enters(p)
  BY <1>1, <1>6 DEF Enters, Makes, Hooks, Waits
<1>11. LockTyped' /\ Respects(p) /\ half' \in SUBSET Orchs
  BY <1>1, LocksUntouched DEF IInv, Typed
<1>12. Registers
  <2>1. count'.lost = count.lost
    BY <1>1, BoundsKept DEF IInv
  <2>2. CASE Final(r)
    <3>1. run' = run
      BY <2>2 DEF CloseEvent
    <3> QED
      BY <1>1, <2>1, <3>1, Stutters
  <2>3. CASE ~Final(r)
    <3>1. run' = [run EXCEPT ![r].log = Append(run[r].log, "final")]
      BY <2>3 DEF CloseEvent
    <3> QED
      BY <1>1, <1>2, <2>1, <2>3, <3>1, Seals
  <2> QED
    BY <2>2, <2>3
<1> QED
  BY <1>1, <1>2, <1>4, <1>5, <1>7, <1>8, <1>9, <1>10, <1>11, <1>12, WriteStep
     DEF Seat, Moved

LEMMA AddEventIsSafe ==
  ASSUME IInv, NEW p \in Procs, AddEvent(p)
  PROVE  IInv' /\ Registers
<1> DEFINE r == Mine(p)
           d == IF Status(r) = "running"
                THEN [run[r] EXCEPT !.log = Append(run[r].log, "note")] ELSE run[r]
<1>1. /\ proc[p].at = "note" /\ Seat(p) /\ Drop(p, r) /\ Quit(p)
      /\ UNCHANGED <<ptr, half, acked, bounds>>
  BY DEF AddEvent, At, IInv
<1>2. r \in Runs /\ r \in Locks
  BY <1>1, Wants DEF Seat, Shaped, Waits, Leaves
<1>3. run' = [run EXCEPT ![r] = d]
  <2>1. run = [run EXCEPT ![r] = run[r]]
    BY DEF IInv, Typed
  <2> QED
    BY <2>1 DEF AddEvent
<1>4. /\ Writes(p, r, d)
      /\ d = run[r] \/ (Status(r) = "running" /\ d.status = "running")
  <2>1. CASE Status(r) # "running"
    BY <1>2, <1>3, <2>1, DirIs DEF Writes
  <2>2. CASE Status(r) = "running"
    <3>1. run[r].log \in Seq(Event) /\ "note" \in Event
      BY <1>2, DirIs DEF Dir, Event
    <3>2. /\ Append(run[r].log, "note") \in Seq(Event)
          /\ ToSet(Append(run[r].log, "note")) = ToSet(run[r].log) \cup {"note"}
      BY <3>1, Appended
    <3>3. d \in Dir /\ d.status = run[r].status /\ d.orch = run[r].orch
          /\ d.task = run[r].task /\ d.pipe = run[r].pipe
          /\ d.ledger = run[r].ledger /\ d.anchor = run[r].anchor
          /\ d.log = Append(run[r].log, "note")
      BY <1>2, <2>2, <3>2, DirIs DEF Dir
    <3> HIDE DEF d
    <3>4. SoundDir(d)
      BY <1>2, <2>2, <3>2, <3>3, DirIs DEF SoundDir
    <3> QED
      BY <1>1, <1>3, <2>2, <3>3, <3>4 DEF Writes, Status
  <2> QED
    BY <2>1, <2>2
<1>5. LockTyped' /\ Respects(p) /\ half' \in SUBSET Orchs
  BY <1>1, <1>2, DropDoes DEF IInv, Typed
<1>6. proc' \in [Procs -> Cmd] /\ Alone(p) /\ Seat(p)' /\ Enters(p)
  BY <1>1, QuitIsSafe DEF IInv
<1> HIDE DEF d
<1>7. Registers
  BY <1>1, <1>2, <1>4, Works, BoundsKept DEF IInv
<1> QED
  BY <1>7, <1>1, <1>2, <1>4, <1>5, <1>6, WriteStep

LEMMA ClearPointerIsSafe ==
  ASSUME IInv, NEW p \in Procs, ClearPointer(p)
  PROVE  IInv' /\ Registers
<1>1. /\ proc[p].at = "clear" /\ Seat(p) /\ Drop(p, Mine(p)) /\ Quit(p)
      /\ half' = half \ {Orch(p)} /\ UNCHANGED <<run, acked, bounds>>
      /\ ptr' = IF ptr[Orch(p)] = Mine(p) /\ proc[p].seen = ptr[Orch(p)]
                THEN [ptr EXCEPT ![Orch(p)] = NoRun] ELSE ptr
  BY DEF ClearPointer, At, IInv
<1>2. Mine(p) \in Locks /\ Status(Mine(p)) = "completed"
  BY <1>1, Wants DEF Seat, KnowsEnd
<1>3. LockTyped' /\ Respects(p) /\ half' \in SUBSET Orchs
  BY <1>1, <1>2, DropDoes DEF IInv, Typed
<1>4. proc' \in [Procs -> Cmd] /\ Alone(p) /\ Seat(p)' /\ Enters(p)
  BY <1>1, QuitIsSafe DEF IInv
<1>5. /\ ptr' \in [Orchs -> Named]
      /\ \A o \in Orchs : ptr'[o] = ptr[o] \/ (ptr[o] = Mine(p) /\ ptr'[o] = NoRun)
  <2>1. ptr \in [Orchs -> Named] /\ NoRun \in Named
    BY BoundAssumption DEF IInv, Typed, Named, NoRun
  <2>2. CASE ptr[Orch(p)] = Mine(p) /\ proc[p].seen = ptr[Orch(p)]
    BY <1>1, <2>1, <2>2
  <2>3. CASE ~(ptr[Orch(p)] = Mine(p) /\ proc[p].seen = ptr[Orch(p)])
    BY <1>1, <2>1, <2>3
  <2> QED
    BY <2>2, <2>3
<1>6. Typed'
  BY <1>1, <1>3, <1>4, <1>5, BoundsKept DEF IInv, Typed
<1>7. RunsKept(p) /\ PtrKept(p)
  BY <1>1, <1>2, <1>5, BoundsKept DEF RunsKept, PtrKept, Status, IInv
<1>8. (\A r \in Runs : Sound(r))' /\ Kept'
  BY <1>1 DEF IInv, Sound, Status, Final, Anchored, Pending, Missing, Kept
<1>9. OneActive'
  <2>1. \A o \in Orchs : Other(o) \in Orchs
    BY DEF Orchs, Other
  <2> QED
    BY <1>1, <1>5, <2>1 DEF IInv, OneActive, Status
<1>10. Registers
  <2>1. count'.lost = count.lost
    BY <1>1, BoundsKept DEF IInv
  <2>2. CASE ptr' = ptr
    BY <1>1, <2>1, <2>2, Stutters
  <2>3. CASE ptr' # ptr
    <3>1. ptr[Orch(p)] = Mine(p) /\ ptr' = [ptr EXCEPT ![Orch(p)] = NoRun]
      BY <1>1, <2>3
    <3>2. Mine(p) # NoRun /\ Mine(p) \in Runs /\ Orch(p) \in Orchs
      BY <1>1, Wants DEF Seat, Shaped, Waits, Leaves, Orch
    <3>3. ptr[Other(Orch(p))] = NoRun /\ Orchs = {Orch(p), Other(Orch(p))}
      BY <3>1, <3>2 DEF IInv, OneActive, Orchs, Other
    <3>4. ActiveRuns = {Mine(p)} /\ ActiveRuns' = {}
      BY <3>1, <3>2, <3>3 DEF ActiveRuns, IInv, Typed
    <3>5. Mine(p) \in EndedRuns
      BY <1>2, <3>2 DEF EndedRuns
    <3>6. EndedRuns' = EndedRuns /\ SealedRuns' = SealedRuns
      BY <1>1 DEF EndedRuns, SealedRuns, Status, Sealed
    <3>7. [r \in Runs |-> Book(r)]' = [r \in Runs |-> Book(r)]
      BY <1>1 DEF Book, Sealed
    <3>8. Registry!Close
      BY <2>1, <3>4, <3>5, <3>6, <3>7 DEF Registry!Close
    <3> QED
      BY <3>8 DEF Registers, Registry!Next
  <2> QED
    BY <2>2, <2>3
<1> QED
  BY <1>10, <1>3, <1>4, <1>6, <1>7, <1>8, <1>9, Keeps

LEMMA LosePointerIsSafe ==
  ASSUME IInv, LosePointer
  PROVE  IInv' /\ Registers
<1>1. /\ Happens("lost") /\ UNCHANGED <<run, locks, proc, acked, requests>>
      /\ count \in [{"resumes", "hooks", "crashes", "lost"} -> Nat]
  BY DEF LosePointer, IInv, Typed
<1>2. PICK o \in Orchs : ptr[o] # NoRun /\ ptr' = [ptr EXCEPT ![o] = NoRun] /\ half' = half \ {o}
  BY BoundAssumption DEF LosePointer
<1>3. /\ count' \in [{"resumes", "hooks", "crashes", "lost"} -> Nat]
      /\ count'.lost > 0
  BY <1>1, HappensKeeps DEF IInv
<1>4. ptr' \in [Orchs -> Named] /\ \A x \in Orchs : ptr'[x] \in {ptr[x], NoRun}
  BY <1>2, BoundAssumption DEF IInv, Typed, Named, NoRun
<1>5. Typed'
  BY <1>1, <1>2, <1>3, <1>4 DEF IInv, Typed, LockTyped, locks
<1>6. ASSUME NEW p \in Procs PROVE Seat(p)'
  <2>1. Seat(p)
    BY DEF IInv
  <2>2. Held(p)' /\ Shaped(p)'
    BY <1>1, <2>1
       DEF Seat, Held, Shaped, HoldsState, HoldsRun, Claims, Waits, Leaves, Makes,
           Appends, Mine, Orch, Wanted, locks
  <2>3. KnowsRun(p)' /\ KnowsLedger(p)'
    BY <1>1, <2>1 DEF Seat, KnowsRun, KnowsLedger, Makes, Mine, Status
  <2>4. KnowsEnd(p)'
    BY <1>1, <1>3, <2>1 DEF Seat, KnowsEnd, Waits, Mine, Orch, Status
  <2>5. KnowsPointers(p)'
    BY <1>1, <1>4, <2>1 DEF Seat, KnowsPointers, NoneActive, Waits
  <2> QED
    BY <2>2, <2>3, <2>4, <2>5 DEF Seat
<1>7. MakerAlone'
  BY <1>1 DEF IInv, MakerAlone, Makes, Hooks, Waits, Mine
<1>8. (\A r \in Runs : Sound(r))' /\ Kept'
  BY <1>1 DEF IInv, Sound, Status, Final, Anchored, Pending, Missing, Kept
<1>9. OneActive'
  <2>1. \A x \in Orchs : Other(x) \in Orchs
    BY DEF Orchs, Other
  <2> QED
    BY <1>1, <1>4, <2>1 DEF IInv, OneActive, Status
<1>10. Registers
  <2>1. ptr[Other(o)] = NoRun /\ Orchs = {o, Other(o)}
    BY <1>2 DEF IInv, OneActive, Orchs, Other
  <2>2. ActiveRuns = {ptr[o]} /\ ptr[o] # NoRun /\ ActiveRuns' = {}
    BY <1>2, <2>1 DEF ActiveRuns, IInv, Typed
  <2>3. EndedRuns' = EndedRuns /\ SealedRuns' = SealedRuns
    BY <1>1 DEF EndedRuns, SealedRuns, Status, Sealed
  <2>4. [r \in Runs |-> Book(r)]' = [r \in Runs |-> Book(r)]
    BY <1>1 DEF Book, Sealed
  <2>5. count'.lost = count.lost + 1
    BY <1>1, HappensKeeps DEF IInv
  <2>6. Registry!Lose
    BY <2>2, <2>3, <2>4, <2>5 DEF Registry!Lose
  <2> QED
    BY <2>6 DEF Registers, Registry!Next
<1> QED
  BY <1>10, <1>5, <1>6, <1>7, <1>8, <1>9 DEF IInv

LEMMA InitIInv == Init => IInv
<1> SUFFICES ASSUME Init PROVE IInv
  OBVIOUS
<1>1. NoDir \in Dir /\ NoDir.status = "none" /\ ~NoDir.pipe /\ ToSet(NoDir.log) = {}
      /\ NoDir.ledger = <<>> /\ NoDir.anchor = <<>>
  BY BoundAssumption, EmptyToSet DEF NoDir, Dir, Requests
<1>2. LockTyped
  BY DEF Init, LockInit, LockTyped
<1>3. Typed
  BY <1>1, <1>2, IdleIsCmd, BoundAssumption DEF Init, Typed, Named, NoRun, Requests
<1>4. ASSUME NEW p \in Procs PROVE proc[p] = Idle /\ Seat(p) /\ ~Makes(p)
  <2>1. /\ proc[p] = Idle /\ proc[p].at = "idle" /\ proc[p].next = "idle" /\ ~proc[p].made
        /\ proc[p].run = NoRun /\ proc[p].chk = NoRun
    BY DEF Init, Idle
  <2>2. Held(p) /\ Shaped(p)
    BY <2>1 DEF Held, Shaped, HoldsState, HoldsRun, Claims, Waits, Leaves
  <2>3. KnowsRun(p) /\ KnowsLedger(p) /\ KnowsEnd(p) /\ KnowsPointers(p) /\ ~Makes(p)
    BY <2>1 DEF KnowsRun, KnowsLedger, KnowsEnd, KnowsPointers, Makes, Waits, Mine
  <2> QED
    BY <2>1, <2>2, <2>3 DEF Seat
<1>5. MakerAlone
  BY <1>4 DEF MakerAlone
<1>6. ASSUME NEW r \in Runs PROVE Sound(r)
  <2>1. run[r] = NoDir
    BY DEF Init
  <2> QED
    BY <1>1, <2>1 DEF Sound, Status, Final, Missing
<1>7. OneActive /\ Kept
  BY DEF Init, OneActive, Kept
<1> QED
  BY <1>3, <1>4, <1>5, <1>6, <1>7 DEF IInv

(* The other commands leave the runs and the pointers as they are.         *)
LEMMA OthersStutter ==
  ASSUME IInv, NEW p \in Procs,
         \/ Locking(p) \/ Look(p) \/ UnlinkState(p) \/ RemoveState(p) \/ Decide(p)
         \/ Prove(p) \/ Reprove(p) \/ RefuseAppend(p) \/ ReadLedger(p) \/ Check(p)
         \/ Invoke(p) \/ Hook(p) \/ Crash(p) \/ \E r \in Runs : Finalize(p, r)
  PROVE  Registers
<1>1. CASE Invoke(p) \/ Hook(p) \/ Crash(p)
  <2>1. UNCHANGED <<ptr, run>>
    BY <1>1 DEF Invoke, Hook, Crash, records
  <2>2. count' = count \/ \E e \in {"resumes", "hooks", "crashes"} : Happens(e)
    BY <1>1 DEF Invoke, Hook, Crash
  <2> QED
    BY <2>1, <2>2, HappensKeeps, Stutters DEF IInv
<1>2. CASE ~(Invoke(p) \/ Hook(p) \/ Crash(p))
  <2>1. UNCHANGED <<records, bounds>>
    BY <1>2
       DEF Locking, Lock, ClaimDead, Recheck, Break, GiveUp, Look, UnlinkState,
           RemoveState, Decide, Prove, Reprove, RefuseAppend, ReadLedger, Check, Finalize
  <2> QED
    BY <2>1, BoundsKept, Stutters DEF IInv, records
<1> QED
  BY <1>1, <1>2

LEMMA StepIInv ==
  ASSUME IInv, [Next]_vars
  PROVE  IInv' /\ Registers
<1>1. CASE UNCHANGED vars
  <2>1. /\ ptr' = ptr /\ half' = half /\ run' = run /\ proc' = proc /\ acked' = acked
        /\ lock' = lock /\ claim' = claim /\ requests' = requests /\ count' = count
    BY <1>1 DEF vars, records, locks, bounds
  <2>2. Typed' /\ OneActive' /\ Kept' /\ (\A r \in Runs : Sound(r))'
    BY <2>1
       DEF IInv, Typed, LockTyped, OneActive, Kept, Sound, Status, Final, Anchored,
           Pending, Missing
  <2>3. MakerAlone'
    BY <2>1 DEF IInv, MakerAlone, Makes, Hooks, Waits, Mine
  <2>4. ASSUME NEW p \in Procs PROVE Seat(p)'
    <3>1. Seat(p)
      BY DEF IInv
    <3>2. Held(p)' /\ Shaped(p)'
      BY <2>1, <3>1
         DEF Seat, Held, Shaped, HoldsState, HoldsRun, Claims, Waits, Leaves, Makes,
             Appends, Mine, Orch, Wanted
    <3>3. KnowsRun(p)' /\ KnowsLedger(p)' /\ KnowsEnd(p)' /\ KnowsPointers(p)'
      BY <2>1, <3>1
         DEF Seat, KnowsRun, KnowsLedger, KnowsEnd, KnowsPointers, NoneActive, Makes,
             Waits, Mine, Orch, Status
    <3> QED
      BY <3>2, <3>3 DEF Seat
  <2>5. Registers
    BY <2>1, Stutters
  <2> QED
    BY <2>2, <2>3, <2>4, <2>5 DEF IInv
<1>2. ASSUME NEW p \in Procs, Locking(p) PROVE IInv' /\ Registers
  BY <1>2, OthersStutter, LockIsSafe, ClaimIsSafe, RecheckIsSafe, BreakIsSafe, GiveUpIsSafe
     DEF Locking
<1>3. ASSUME NEW p \in Procs, Admitting(p) PROVE IInv' /\ Registers
  BY <1>3, OthersStutter, LookIsSafe, UnlinkStateIsSafe, RemoveStateIsSafe,
     DecideIsSafe, CreateIsSafe,
     PublishIsSafe, DropIntentIsSafe, ProveIsSafe, ReproveIsSafe DEF Admitting
<1>4. ASSUME NEW p \in Procs, Asking(p) PROVE IInv' /\ Registers
  BY <1>4, OthersStutter, RepairIsSafe, WriteLedgerIsSafe, RefuseAppendIsSafe,
     WriteAnchorIsSafe,
     ReadIsSafe, InitPipelineIsSafe DEF Asking
<1>5. ASSUME NEW p \in Procs, Ending(p) PROVE IInv' /\ Registers
  BY <1>5, CloseIsSafe, CloseEventIsSafe, ClearPointerIsSafe, AddEventIsSafe DEF Ending
<1>6. ASSUME NEW p \in Procs, \/ Invoke(p) \/ Hook(p) \/ Crash(p)
                              \/ \E r \in Runs : Finalize(p, r)
      PROVE  IInv' /\ Registers
  BY <1>6, OthersStutter, InvokeIsSafe, HookIsSafe, CrashIsSafe, FinalizeIsSafe
<1> QED
  BY <1>1, <1>2, <1>3, <1>4, <1>5, <1>6, LosePointerIsSafe DEF Next, Step

(* What every state of every behaviour has.                                *)
THEOREM RunAdmissionInvariant == Spec => []IInv
<1> QED
  BY InitIInv, StepIInv, PTL DEF Spec

(* A request whose append was reported done stays in the ledger of its     *)
(* run, for every number of processes, runs, deaths and lost pointers; and *)
(* what a death leaves of a ledger and its anchor can be gone on from      *)
(* (appendUserTaskUpdate, recoverPendingTaskUpdateAnchor).                 *)
THEOREM RequestsAreKept == Spec => []RequestsSurvive
<1>1. IInv => RequestsSurvive
  <2> SUFFICES ASSUME IInv, NEW r \in Runs
               PROVE  /\ Anchored(r) \/ Pending(r) \/ Missing(r)
                      /\ \A q \in 1 .. MaxRequests :
                           <<r, q>> \in acked => q \in ToSet(run[r].ledger)
    BY DEF RequestsSurvive
  <2> QED
    BY DEF IInv, Sound, Kept
<1> QED
  BY <1>1, RunAdmissionInvariant, PTL

(* The files keep what the registry promises: one run is active at most,   *)
(* no run that ended is made active again, and a run that ended takes no   *)
(* request, no phase and no event but the final one, that once and last,   *)
(* through every race and every death of every number of processes.        *)
THEOREM RegistryIsKept == Spec => KeepsRegistry
<1>1. Init => Registry!Init
  <2> SUFFICES ASSUME Init PROVE Registry!Init
    OBVIOUS
  <2>1. \A r \in Runs : run[r].status = "none" /\ run[r].log = <<>>
    BY DEF Init, NoDir
  <2>2. ActiveRuns = {} /\ EndedRuns = {} /\ SealedRuns = {} /\ count.lost = 0
    BY <2>1 DEF Init, ActiveRuns, EndedRuns, SealedRuns, Status, Sealed
  <2> QED
    BY <2>2 DEF Registry!Init
<1>2. IInv /\ [Next]_vars => [Registry!Next]_(Registry!vars)
  BY StepIInv DEF Registers
<1> QED
  BY <1>1, <1>2, RunAdmissionInvariant, PTL DEF Spec, KeepsRegistry, Registry!Spec
-----------------------------------------------------------------------------
-----------------------------------------------------------------------------
(* What a run accepts and commits: ReviewEvidence.                         *)

(* The commands that keep the lock of the run; those of complete-finalize  *)
(* and approve-review carry an approval.                                   *)
Committing == {"commit", "resolve", "rollback", "compare", "install"}
Finalizing == Committing \cup {"materialize", "confirm", "finalized"}
UnderLock       == Finalizing \cup {"prove", "verified", "approve", "reviewed"}
Carriers   == Finalizing \cup {"approve"}
Gens       == 1 .. Len(bindings)

Evidences == [head : Seq(Commits), index : Contents, tree : Contents]
Carrying  == [at : Carriers, a : Approvals]
               \cup [at : Carriers, a : Approvals, index : Contents]

ReviewCmdType(p) ==
  LET c == cmd[p] IN
  /\ c.at = "begin" => c.phase \in Phases /\ c.e \in Evidences /\ c.plan \in Nat
  /\ c.at = "bind" => c.gen \in Gens /\ c.e \in Evidences /\ c.plan \in Nat
  /\ c.at = "append" => /\ c.gen \in Gens /\ c.story \in Stories
                        /\ c.verdict \in {"pass", "fail"}
  /\ c.at \in {"prove", "verified"} => c \in [at : {"prove", "verified"}, gen : Nat]
  /\ c.at \in Carriers => c \in Carrying

ReviewTypeOK ==
  /\ head \in Seq(Commits) /\ index \in Contents /\ tree \in Contents
  /\ plan \in Nat /\ entry \in Nat
  /\ stage \in {"verify", "review", "finalize", "done", "closed"}
  /\ final \in Approvals \cup {None}
  /\ manifest \in Manifests \cup {None}
  /\ log \subseteq Verifications
  /\ bindings \in Seq(Bindings \cup {None})
  /\ approvals \subseteq Approvals
  /\ DOMAIN cmd = Hosts
  /\ tickLock \in Hosts \cup {None}

(* Every file names a generation that was begun, a record and an approval  *)
(* one that is bound.                                                      *)
FilesAgree ==
  /\ IF manifest = None THEN bindings = <<>> /\ stage = "verify"
     ELSE manifest.gen = Len(bindings) /\ manifest.gen > 0 /\ manifest.entry <= entry
  /\ \A r \in log : r.gen \in Gens /\ bindings[r.gen] # None
  /\ \A a \in approvals : a.gen \in Gens /\ bindings[a.gen] = Subject(a)

AllPassed == Unrecorded(manifest.gen) = {} /\ Passed(manifest.gen)

(* What was approved in the current generation was verified in it, and     *)
(* nothing is recorded any more.                                           *)
ApprovedIsVerified ==
  \A a \in approvals : a.gen = manifest.gen =>
    manifest.status = "sealed" /\ AllPassed

(* The generation the run goes by is that of its phase; the commit of a    *)
(* completed one stays in the history.                                     *)
PhaseAgrees ==
  /\ stage = "review" => manifest.entry = entry /\ manifest.phase = "review"
  /\ stage = "finalize" /\ manifest.phase = "final-review" => manifest.entry = entry
  /\ stage \in {"done", "closed"} =>
       final # None /\ Promise!IsPrefixOf(Proposal(final), head)

(* What a command has found still holds when it acts on it.                *)
CmdAgrees(p) ==
  LET c == cmd[p] IN
  /\ c.at \in UnderLock => tickLock = p
  /\ c.at = "begin" /\ c.phase = "final-review" => tickLock = p /\ stage = "finalize"
  /\ c.at = "append" => bindings[c.gen] # None
  /\ c.at \in {"prove", "verified"} =>
       /\ stage = "verify" /\ manifest # None
       /\ c.gen = manifest.gen /\ manifest.entry = entry /\ manifest.phase = "review"
  /\ c.at = "verified" => AllPassed
  /\ c.at = "approve" =>
       /\ stage \in {"review", "finalize"} /\ c.a.gen = manifest.gen
       /\ manifest.entry = entry /\ manifest.phase = PhaseOf(stage)
       /\ manifest.status = "sealed" /\ AllPassed
       /\ bindings[c.a.gen] = Subject(c.a)
  /\ c.at = "reviewed" =>
       stage = "review" /\ \E a \in approvals : a.gen = manifest.gen
  /\ c.at \in Finalizing =>
       /\ stage \in {"finalize", "done"} /\ c.a \in approvals /\ c.a.gen = manifest.gen
       /\ manifest.phase = "final-review" /\ (stage = "done" => c.a = final)
  /\ c.at \in Committing => stage = "finalize"
  /\ c.at = "finalized" => Promise!IsPrefixOf(Proposal(c.a), head)

ReviewInv ==
  /\ ReviewTypeOK /\ FilesAgree /\ ApprovedIsVerified /\ PhaseAgrees
  /\ \A p \in Hosts : ReviewCmdType(p) /\ CmdAgrees(p)

-----------------------------------------------------------------------------
(* Histories.                                                              *)

LEMMA PrefixGrows ==
  ASSUME NEW S, NEW s \in Seq(S), NEW t \in Seq(S), NEW x \in S,
         Promise!IsPrefixOf(s, t)
  PROVE  Promise!IsPrefixOf(s, Append(t, x))
BY DEF Promise!IsPrefixOf

LEMMA PrefixSelf ==
  ASSUME NEW S, NEW s \in Seq(S)
  PROVE  Promise!IsPrefixOf(s, s)
BY DEF Promise!IsPrefixOf

LEMMA PrefixAppend ==
  ASSUME NEW S, NEW s \in Seq(S), NEW x \in S
  PROVE  /\ Append(s, x) \in Seq(S) /\ Len(Append(s, x)) = Len(s) + 1
         /\ Append(s, x)[Len(Append(s, x))] = x
         /\ SubSeq(Append(s, x), 1, Len(s)) = s
         /\ Promise!IsPrefixOf(s, Append(s, x))
         /\ Append(s, x) # <<>>
<1>1. Append(s, x) \in Seq(S) /\ Len(Append(s, x)) = Len(s) + 1
  OBVIOUS
<1>2. Append(s, x)[Len(Append(s, x))] = x
  OBVIOUS
<1>3. SubSeq(Append(s, x), 1, Len(s)) = s
  OBVIOUS
<1>4. Append(s, x) # <<>>
  <2>1. Len(<<>>) = 0 /\ Len(s) \in Nat
    OBVIOUS
  <2> QED
    BY <1>1, <2>1
<1> QED
  BY <1>1, <1>2, <1>3, <1>4 DEF Promise!IsPrefixOf

LEMMA ProposalType ==
  ASSUME NEW a \in Approvals
  PROVE  /\ Proposal(a) \in Seq(Commits)
         /\ [tree |-> a.tree, by |-> <<"run", a.gen>>] \in Commits
BY DEF Proposal, Approvals, Commits

LEMMA SameRound ==
  ASSUME UNCHANGED <<head, stage, entry, final, manifest, log, bindings, approvals>>
  PROVE  UNCHANGED Promise!vars
BY DEF Promise!vars, Round, RoundBegun, PassedStories, Approved, Shipped, Records,
       Subject, Proposal

-----------------------------------------------------------------------------
(* Who does not take a step keeps what it knows: nothing that is bound is  *)
(* bound anew, and while it has the lock only the history grows.           *)
BindingsStay ==
  /\ Len(bindings') >= Len(bindings)
  /\ \A g \in Gens : bindings[g] # None => bindings'[g] = bindings[g]
HeadGrows == head' = head \/ \E x \in Commits : head' = Append(head, x)
Steady == UNCHANGED <<stage, entry, final, manifest, log, approvals>> /\ HeadGrows

LEMMA HeadGrowsPrefix ==
  ASSUME ReviewInv, HeadGrows, NEW a \in Approvals, Promise!IsPrefixOf(Proposal(a), head)
  PROVE  Promise!IsPrefixOf(Proposal(a), head')
<1>1. Proposal(a) \in Seq(Commits) /\ head \in Seq(Commits)
  BY ProposalType DEF ReviewInv, ReviewTypeOK
<1>2. CASE head' = head
  BY <1>2
<1>3. ASSUME NEW x \in Commits, head' = Append(head, x)
      PROVE  Promise!IsPrefixOf(Proposal(a), head')
  BY <1>1, <1>3, PrefixGrows
<1> QED
  BY <1>2, <1>3 DEF HeadGrows

LEMMA CarriedApproval ==
  ASSUME NEW c \in Carrying
  PROVE  /\ c.a \in Approvals
         /\ \A s \in Carriers : /\ [c EXCEPT !.at = s] \in Carrying
                                /\ [c EXCEPT !.at = s].at = s
                                /\ [c EXCEPT !.at = s].a = c.a
BY DEF Carrying

LEMMA OtherAgrees ==
  ASSUME ReviewInv, NEW q \in Hosts, cmd'[q] = cmd[q], BindingsStay,
         tickLock = q => tickLock' = q /\ Steady
  PROVE  ReviewCmdType(q)' /\ CmdAgrees(q)'
<1> DEFINE c == cmd[q]
<1>1. /\ ReviewCmdType(q) /\ CmdAgrees(q) /\ Len(bindings) \in Nat /\ Len(bindings') >= Len(bindings)
      /\ bindings \in Seq(Bindings \cup {None})
  BY DEF ReviewInv, ReviewTypeOK, BindingsStay
<1>2. \A g \in Gens : g \in Gens'
  BY <1>1 DEF Gens
<1>3. ReviewCmdType(q)'
  BY <1>1, <1>2 DEF ReviewCmdType
<1>4. c.at = "append" => bindings'[c.gen] # None
  BY <1>1 DEF ReviewCmdType, CmdAgrees, BindingsStay
<1>5. CASE tickLock # q
  <2>1. cmd[q].at \notin UnderLock /\ ~(cmd[q].at = "begin" /\ cmd[q].phase = "final-review")
    BY <1>1, <1>5 DEF CmdAgrees
  <2>2. /\ cmd[q].at \notin {"prove", "verified"} /\ cmd[q].at \notin Finalizing
        /\ cmd[q].at # "verified" /\ cmd[q].at # "approve" /\ cmd[q].at # "reviewed"
        /\ cmd[q].at \notin Committing /\ cmd[q].at # "finalized"
    BY <2>1 DEF UnderLock, Finalizing
  <2> QED
    BY <1>3, <2>1, <2>2, <1>4 DEF CmdAgrees
<1>6. CASE tickLock = q
  <2>1. /\ tickLock' = q /\ HeadGrows
        /\ UNCHANGED <<stage, entry, final, manifest, log, approvals>>
    BY <1>6 DEF Steady
  <2>2. AllPassed' <=> AllPassed
    BY <2>1 DEF AllPassed, Unrecorded, Passed, Records
  <2>3. c.at = "finalized" => Promise!IsPrefixOf(Proposal(c.a), head')
    <3> SUFFICES ASSUME c.at = "finalized" PROVE Promise!IsPrefixOf(Proposal(c.a), head')
      OBVIOUS
    <3>1. c.a \in Approvals /\ Promise!IsPrefixOf(Proposal(c.a), head)
      BY <1>1, CarriedApproval DEF ReviewCmdType, CmdAgrees, Carriers, Finalizing
    <3> QED
      BY <2>1, <3>1, HeadGrowsPrefix
  <2>4. c.at = "approve" => bindings'[c.a.gen] = Subject(c.a)
    <3> SUFFICES ASSUME c.at = "approve" PROVE bindings'[c.a.gen] = Subject(c.a)
      OBVIOUS
    <3>1. /\ c.a \in Approvals /\ c.a.gen = manifest.gen /\ bindings[c.a.gen] = Subject(c.a)
          /\ stage \in {"review", "finalize"}
      BY <1>1, CarriedApproval DEF ReviewCmdType, CmdAgrees, Carriers
    <3>2. c.a.gen \in Gens
      BY <1>1, <3>1 DEF ReviewInv, ReviewTypeOK, FilesAgree, Gens, Manifests, Approvals
    <3>3. Subject(c.a) # None
      BY <3>1, NoneAssumption DEF Subject, Bindings, Approvals
    <3> QED
      BY <3>1, <3>2, <3>3 DEF BindingsStay
  <2>5. PhaseOf(stage)' = PhaseOf(stage)
    BY <2>1 DEF PhaseOf
  <2>6. cmd[q].at \in UnderLock => tickLock' = q
    BY <2>1
  <2>7. CmdAgrees(q)
    BY <1>1
  <2> QED
    BY <1>3, <1>4, <2>1, <2>2, <2>3, <2>4, <2>5, <2>6, <2>7 DEF CmdAgrees
<1> QED
  BY <1>3, <1>5, <1>6

(* A step that changes no file, no phase and not the history.              *)
LEMMA QuietStep ==
  ASSUME ReviewInv, NEW P \in SUBSET Hosts,
         UNCHANGED <<head, stage, entry, final, manifest, log, bindings, approvals>>,
         index' \in Contents, tree' \in Contents, plan' \in Nat,
         tickLock' \in Hosts \cup {None}, DOMAIN cmd' = Hosts,
         \A q \in Hosts \ P : cmd'[q] = cmd[q] /\ (tickLock = q => tickLock' = q),
         \A p \in P : ReviewCmdType(p)' /\ CmdAgrees(p)'
  PROVE  ReviewInv' /\ UNCHANGED Promise!vars
<1>1. ReviewTypeOK'
  BY DEF ReviewInv, ReviewTypeOK
<1>2. AllPassed' <=> AllPassed
  BY DEF AllPassed, Unrecorded, Passed, Records
<1>3. FilesAgree' /\ ApprovedIsVerified' /\ PhaseAgrees'
  BY <1>2 DEF ReviewInv, FilesAgree, ApprovedIsVerified, PhaseAgrees, Gens
<1>4. BindingsStay /\ Steady
  BY DEF BindingsStay, Steady, HeadGrows, ReviewInv, ReviewTypeOK
<1>5. \A q \in Hosts \ P : ReviewCmdType(q)' /\ CmdAgrees(q)'
  BY <1>4, OtherAgrees
<1> QED
  BY <1>1, <1>3, <1>5, SameRound DEF ReviewInv

LEMMA QuietStepOf ==
  ASSUME ReviewInv, NEW p \in Hosts,
         UNCHANGED <<head, stage, entry, final, manifest, log, bindings, approvals>>,
         index' \in Contents, tree' \in Contents, plan' \in Nat,
         tickLock' \in Hosts \cup {None}, DOMAIN cmd' = Hosts,
         \A q \in Hosts \ {p} : cmd'[q] = cmd[q] /\ (tickLock = q => tickLock' = q),
         ReviewCmdType(p)', CmdAgrees(p)'
  PROVE  ReviewInv' /\ UNCHANGED Promise!vars
<1>1. {p} \in SUBSET Hosts /\ \A q \in {p} : ReviewCmdType(q)' /\ CmdAgrees(q)'
  OBVIOUS
<1> QED
  BY <1>1, QuietStep

LEMMA GoCmd ==
  ASSUME ReviewInv, NEW p \in Hosts, NEW c, Do(p, c)
  PROVE  cmd'[p] = c /\ DOMAIN cmd' = Hosts /\ \A q \in Hosts \ {p} : cmd'[q] = cmd[q]
BY DEF Do, ReviewInv, ReviewTypeOK

LEMMA StepCmd ==
  ASSUME ReviewInv, NEW p \in Hosts, NEW s, GoTo(p, s)
  PROVE  /\ cmd'[p] = [cmd[p] EXCEPT !.at = s]
         /\ DOMAIN cmd' = Hosts /\ \A q \in Hosts \ {p} : cmd'[q] = cmd[q]
BY DEF GoTo, ReviewInv, ReviewTypeOK

LEMMA IdleAgrees ==
  ASSUME NEW p \in Hosts, cmd'[p] = NoCommand
  PROVE  ReviewCmdType(p)' /\ CmdAgrees(p)'
<1>1. cmd'[p].at = "idle"
  BY DEF NoCommand
<1>2. ReviewCmdType(p)'
  BY <1>1 DEF ReviewCmdType, Carriers, Finalizing, Committing
<1>3. CmdAgrees(p)'
  BY <1>1 DEF CmdAgrees, UnderLock, Finalizing, Committing
<1> QED
  BY <1>2, <1>3

LEMMA EndCmd ==
  ASSUME ReviewInv, NEW p \in Hosts, Return(p)
  PROVE  /\ cmd'[p] = NoCommand /\ DOMAIN cmd' = Hosts /\ tickLock' \in Hosts \cup {None}
         /\ \A q \in Hosts \ {p} : cmd'[q] = cmd[q] /\ (tickLock = q => tickLock' = q)
         /\ ReviewCmdType(p)' /\ CmdAgrees(p)'
<1>1. /\ cmd'[p] = NoCommand /\ DOMAIN cmd' = Hosts
      /\ \A q \in Hosts \ {p} : cmd'[q] = cmd[q]
  BY GoCmd DEF Return
<1> QED
  BY <1>1, IdleAgrees DEF Return, ReviewInv, ReviewTypeOK

(* A command that keeps the lock, and carries an approval, takes another   *)
(* step with it.                                                           *)
LEMMA FinalizingStep ==
  ASSUME ReviewInv, NEW p \in Hosts, cmd[p].at \in Finalizing,
         NEW s \in Finalizing,
         \/ cmd'[p] = [cmd[p] EXCEPT !.at = s]
         \/ \E i \in Contents : cmd'[p] = [at |-> s, a |-> cmd[p].a, index |-> i],
         tickLock' = tickLock,
         UNCHANGED <<stage, final, manifest, approvals>>,
         s \in Committing => stage = "finalize",
         s = "finalized" => Promise!IsPrefixOf(Proposal(cmd[p].a), head')
  PROVE  ReviewCmdType(p)' /\ CmdAgrees(p)'
<1>1. ReviewCmdType(p) /\ CmdAgrees(p)
  BY DEF ReviewInv
<1>2. cmd[p] \in Carrying
  BY <1>1 DEF ReviewCmdType, Carriers
<1>3. cmd'[p] \in Carrying /\ cmd'[p].at = s /\ cmd'[p].a = cmd[p].a
  <2>1. s \in Carriers
    BY DEF Carriers
  <2>2. CASE cmd'[p] = [cmd[p] EXCEPT !.at = s]
    BY <1>2, <2>1, <2>2, CarriedApproval
  <2>3. ASSUME NEW i \in Contents, cmd'[p] = [at |-> s, a |-> cmd[p].a, index |-> i]
        PROVE  cmd'[p] \in Carrying /\ cmd'[p].at = s /\ cmd'[p].a = cmd[p].a
    BY <1>2, <2>1, <2>3, CarriedApproval DEF Carrying
  <2> QED
    BY <2>2, <2>3
<1>4. /\ s \notin {"prove", "verified", "approve", "reviewed", "begin", "bind", "append"}
      /\ s \in UnderLock
  BY DEF Finalizing, Committing, UnderLock
<1>5. ReviewCmdType(p)'
  BY <1>3, <1>4 DEF ReviewCmdType
<1>6. /\ tickLock = p /\ stage \in {"finalize", "done"} /\ cmd[p].a \in approvals
      /\ cmd[p].a.gen = manifest.gen /\ manifest.phase = "final-review"
      /\ stage = "done" => cmd[p].a = final
  BY <1>1 DEF CmdAgrees, UnderLock
<1>7. CmdAgrees(p)'
  BY <1>3, <1>4, <1>6 DEF CmdAgrees
<1> QED
  BY <1>5, <1>7

-----------------------------------------------------------------------------
(* Steps that only look, and those of everybody else.                      *)
FilesKept == UNCHANGED <<head, stage, entry, final, manifest, log, bindings, approvals>>

LEMMA QuietCommand ==
  ASSUME ReviewInv, NEW p \in Hosts, FilesKept, UNCHANGED <<index, tree, plan>>,
         NEW c, Do(p, c), tickLock' \in {p, tickLock}, tickLock \in {None, p},
         ReviewCmdType(p)', CmdAgrees(p)'
  PROVE  ReviewInv' /\ UNCHANGED Promise!vars
<1>1. DOMAIN cmd' = Hosts /\ \A q \in Hosts \ {p} : cmd'[q] = cmd[q]
  BY GoCmd
<1>2. tickLock' \in Hosts \cup {None} /\ \A q \in Hosts \ {p} : tickLock # q
  BY NoneAssumption DEF ReviewInv, ReviewTypeOK
<1> QED
  BY <1>1, <1>2, QuietStepOf DEF FilesKept, ReviewInv, ReviewTypeOK

LEMMA QuietEnd ==
  ASSUME ReviewInv, NEW p \in Hosts, FilesKept, UNCHANGED <<index, tree, plan>>, Return(p)
  PROVE  ReviewInv' /\ UNCHANGED Promise!vars
BY EndCmd, QuietStepOf DEF FilesKept, ReviewInv, ReviewTypeOK

LEMMA QuietFinalizing ==
  ASSUME ReviewInv, NEW p \in Hosts, FilesKept, UNCHANGED <<tree, plan, tickLock>>,
         index' \in Contents,
         cmd[p].at \in Finalizing, NEW s \in Finalizing,
         GoTo(p, s) \/ \E i \in Contents : Do(p, [at |-> s, a |-> cmd[p].a, index |-> i]),
         s \in Committing => stage = "finalize",
         s = "finalized" => Promise!IsPrefixOf(Proposal(cmd[p].a), head')
  PROVE  ReviewInv' /\ UNCHANGED Promise!vars
<1>1. /\ \/ cmd'[p] = [cmd[p] EXCEPT !.at = s]
         \/ \E i \in Contents : cmd'[p] = [at |-> s, a |-> cmd[p].a, index |-> i]
      /\ DOMAIN cmd' = Hosts /\ \A q \in Hosts \ {p} : cmd'[q] = cmd[q]
  <2>1. CASE GoTo(p, s)
    BY <2>1, StepCmd
  <2>2. ASSUME NEW i \in Contents, Do(p, [at |-> s, a |-> cmd[p].a, index |-> i])
        PROVE  /\ cmd'[p] = [at |-> s, a |-> cmd[p].a, index |-> i]
               /\ DOMAIN cmd' = Hosts /\ \A q \in Hosts \ {p} : cmd'[q] = cmd[q]
    BY <2>2, GoCmd
  <2> QED
    BY <2>1, <2>2
<1>2. ReviewCmdType(p)' /\ CmdAgrees(p)'
  BY <1>1, FinalizingStep DEF FilesKept
<1> QED
  BY <1>1, <1>2, QuietStepOf DEF FilesKept, ReviewInv, ReviewTypeOK

LEMMA StartQuiet ==
  ASSUME ReviewInv, NEW p \in Hosts, NEW over, Start(p, over)
  PROVE  ReviewInv' /\ UNCHANGED Promise!vars
<1> DEFINE c == [at |-> "begin", phase |-> PhaseOf(stage), over |-> over,
                 e |-> Evidence, plan |-> plan]
<1>1. /\ Do(p, c) /\ tickLock = None /\ stage \in {"verify", "finalize"} /\ FilesKept
      /\ tickLock' = (IF stage = "finalize" THEN p ELSE tickLock) /\ UNCHANGED <<index, tree, plan>>
  BY DEF Start, FilesKept, git, progress, files
<1>2. cmd'[p] = c
  BY <1>1, GoCmd
<1>3. ReviewCmdType(p)'
  <2>1. PhaseOf(stage) \in Phases /\ Evidence \in Evidences /\ plan \in Nat
    BY DEF PhaseOf, Phases, Evidence, Evidences, ReviewInv, ReviewTypeOK
  <2>2. cmd'[p].at = "begin" /\ cmd'[p].phase \in Phases /\ cmd'[p].e \in Evidences
        /\ cmd'[p].plan \in Nat
    BY <1>2, <2>1
  <2> QED
    BY <2>2 DEF ReviewCmdType, Carriers, Finalizing, Committing
<1>4. CmdAgrees(p)'
  <2>1. cmd'[p].at = "begin" /\ cmd'[p].phase = PhaseOf(stage)
    BY <1>2
  <2>2. cmd'[p].phase = "final-review" => tickLock' = p /\ stage' = "finalize"
    BY <1>1, <2>1 DEF PhaseOf, FilesKept
  <2> QED
    BY <2>1, <2>2 DEF CmdAgrees, UnderLock, Finalizing, Committing
<1> QED
  BY <1>1, <1>3, <1>4, QuietCommand

(* What BindingHolds says of the generation it was asked about.            *)
LEMMA HeldBinding ==
  ASSUME ReviewInv, NEW g, NEW e, BindingHolds(g, e), g \in Nat \ {0}
  PROVE  /\ g \in Gens /\ bindings[g] # None
         /\ bindings[g] = [head |-> e.head, tree |-> e.tree, plan |-> plan]
BY DEF BindingHolds, Gens, ReviewInv, ReviewTypeOK

LEMMA RecordQuiet ==
  ASSUME ReviewInv, NEW p \in Hosts, NEW s \in Stories, NEW v \in {"pass", "fail"},
         Record(p, s, v)
  PROVE  ReviewInv' /\ UNCHANGED Promise!vars
<1> DEFINE c == [at |-> "append", story |-> s, verdict |-> v, gen |-> manifest.gen]
<1>1. /\ Do(p, c) /\ tickLock = None /\ manifest # None /\ FilesKept
      /\ tickLock' \in {p, tickLock} /\ UNCHANGED <<index, tree, plan>>
      /\ BindingHolds(manifest.gen, Evidence)
  BY DEF Record, FilesKept, git, progress, files
<1>2. cmd'[p] = c
  BY <1>1, GoCmd
<1>3. manifest.gen \in Gens /\ bindings[manifest.gen] # None
  <2>1. manifest.gen \in Nat \ {0}
    BY <1>1 DEF ReviewInv, FilesAgree, ReviewTypeOK, Manifests
  <2> QED
    BY <1>1, <2>1, HeldBinding
<1>4. /\ cmd'[p].at = "append" /\ cmd'[p].gen = manifest.gen /\ cmd'[p].story \in Stories
      /\ cmd'[p].verdict \in {"pass", "fail"}
  BY <1>2
<1>5. ReviewCmdType(p)'
  BY <1>1, <1>3, <1>4 DEF ReviewCmdType, Carriers, Finalizing, Committing, Gens, FilesKept
<1>6. CmdAgrees(p)'
  BY <1>1, <1>3, <1>4 DEF CmdAgrees, UnderLock, Finalizing, Committing, FilesKept
<1> QED
  BY <1>1, <1>5, <1>6, QuietCommand

LEMMA ProveQuiet ==
  ASSUME ReviewInv, NEW p \in Hosts, ProvePackage(p)
  PROVE  ReviewInv' /\ UNCHANGED Promise!vars
<1>1. cmd[p].at = "prove" /\ FilesKept /\ UNCHANGED <<index, tree, plan>>
  BY DEF ProvePackage, Doing, FilesKept, git, progress, files
<1>2. CASE ~Complete(cmd[p].gen, "review")
  BY <1>1, <1>2, QuietEnd DEF ProvePackage
<1>3. CASE Complete(cmd[p].gen, "review")
  <2>1. GoTo(p, "verified") /\ tickLock' = tickLock
    BY <1>3 DEF ProvePackage
  <2>2. ReviewCmdType(p) /\ CmdAgrees(p)
    BY DEF ReviewInv
  <2>3. cmd[p] \in [at : {"prove", "verified"}, gen : Nat]
    BY <1>1, <2>2 DEF ReviewCmdType
  <2>4. cmd'[p] \in [at : {"prove", "verified"}, gen : Nat]
        /\ cmd'[p].at = "verified" /\ cmd'[p].gen = cmd[p].gen
    <3>1. cmd'[p] = [cmd[p] EXCEPT !.at = "verified"]
      BY <2>1, StepCmd
    <3> QED
      BY <2>3, <3>1
  <2>5. /\ tickLock = p /\ stage = "verify" /\ manifest # None /\ cmd[p].gen = manifest.gen
        /\ manifest.entry = entry /\ manifest.phase = "review"
    BY <1>1, <2>2 DEF CmdAgrees, UnderLock
  <2>6. AllPassed'
    BY <1>1, <1>3, <2>5 DEF AllPassed, Unrecorded, Passed, Records, Complete, FilesKept
  <2>7. ReviewCmdType(p)'
    BY <2>4 DEF ReviewCmdType, Carriers, Finalizing, Committing
  <2>8. CmdAgrees(p)'
    BY <1>1, <2>1, <2>4, <2>5, <2>6 DEF CmdAgrees, Finalizing, Committing, FilesKept
  <2>9. DOMAIN cmd' = Hosts /\ \A q \in Hosts \ {p} : cmd'[q] = cmd[q]
    BY <2>1, StepCmd
  <2> QED
    BY <1>1, <2>1, <2>7, <2>8, <2>9, QuietStepOf DEF FilesKept, ReviewInv, ReviewTypeOK
<1> QED
  BY <1>2, <1>3

LEMMA ApproveQuiet ==
  ASSUME ReviewInv, NEW p \in Hosts, Approve(p)
  PROVE  ReviewInv' /\ UNCHANGED Promise!vars
<1> DEFINE a == [phase |-> PhaseOf(stage), gen |-> manifest.gen, head |-> head,
                 index |-> index, tree |-> tree, plan |-> plan]
<1>1. /\ Do(p, [at |-> "approve", a |-> a]) /\ tickLock = None /\ manifest # None
      /\ tickLock' = p /\ FilesKept /\ UNCHANGED <<index, tree, plan>>
      /\ stage \in {"review", "finalize"} /\ Fresh(manifest.gen, PhaseOf(stage))
      /\ Complete(manifest.gen, PhaseOf(stage))
  BY DEF Approve, FilesKept, git, progress, files
<1>2. manifest.gen \in Nat \ {0}
  BY <1>1 DEF ReviewInv, FilesAgree, ReviewTypeOK, Manifests
<1>3. /\ BindingHolds(manifest.gen, Evidence) /\ AllPassed /\ manifest.status = "sealed"
      /\ manifest.entry = entry /\ manifest.phase = PhaseOf(stage)
  BY <1>1 DEF Complete, IsSealed, Fresh, AllPassed
<1>4. bindings[manifest.gen] = [head |-> head, tree |-> tree, plan |-> plan]
  BY <1>2, <1>3, HeldBinding DEF Evidence
<1>5. a \in Approvals
  BY <1>2 DEF Approvals, PhaseOf, Phases, ReviewInv, ReviewTypeOK
<1>6. cmd'[p] = [at |-> "approve", a |-> a]
  BY <1>1, GoCmd
<1>7. cmd'[p].at = "approve" /\ cmd'[p].a = a /\ cmd'[p] \in Carrying
  BY <1>5, <1>6 DEF Carrying, Carriers
<1>8. ReviewCmdType(p)'
  BY <1>7 DEF ReviewCmdType
<1>9. AllPassed' /\ PhaseOf(stage)' = PhaseOf(stage)
  BY <1>1, <1>3 DEF AllPassed, Unrecorded, Passed, Records, FilesKept, PhaseOf
<1>10. bindings'[a.gen] = Subject(a) /\ a.gen = manifest.gen
  BY <1>1, <1>4 DEF Subject, FilesKept
<1>11. CmdAgrees(p)'
  BY <1>1, <1>3, <1>7, <1>9, <1>10 DEF CmdAgrees, Finalizing, Committing, FilesKept
<1> QED
  BY <1>1, <1>8, <1>11, QuietCommand

LEMMA CompleteReviewQuiet ==
  ASSUME ReviewInv, NEW p \in Hosts, NEW a \in approvals, CompleteReview(p, a)
  PROVE  ReviewInv' /\ UNCHANGED Promise!vars
<1>1. /\ Do(p, [at |-> "reviewed"]) /\ tickLock = None /\ tickLock' = p /\ stage = "review"
      /\ FilesKept /\ UNCHANGED <<index, tree, plan>> /\ Valid(a, "review")
  BY DEF CompleteReview, FilesKept, git, progress, files
<1>2. a.gen = manifest.gen
  BY <1>1 DEF Valid, IsSealed
<1>3. cmd'[p].at = "reviewed"
  BY <1>1, GoCmd
<1>4. ReviewCmdType(p)'
  BY <1>3 DEF ReviewCmdType, Carriers, Finalizing, Committing
<1>5. \E x \in approvals' : x.gen = manifest'.gen
  BY <1>1, <1>2 DEF FilesKept
<1>6. CmdAgrees(p)'
  BY <1>1, <1>3, <1>5 DEF CmdAgrees, Finalizing, Committing, FilesKept
<1> QED
  BY <1>1, <1>4, <1>6, QuietCommand

LEMMA CompleteFinalizeQuiet ==
  ASSUME ReviewInv, NEW p \in Hosts, NEW a \in approvals, CompleteFinalize(p, a)
  PROVE  ReviewInv' /\ UNCHANGED Promise!vars
<1>1. /\ Do(p, [at |-> "materialize", a |-> a]) /\ tickLock = None /\ tickLock' = p
      /\ stage \in {"finalize", "done"} /\ (stage = "done" => a = final)
      /\ FilesKept /\ UNCHANGED <<index, tree, plan>> /\ Valid(a, "final-review")
  BY DEF CompleteFinalize, FilesKept, git, progress, files
<1>2. a.gen = manifest.gen /\ manifest.phase = "final-review"
  BY <1>1 DEF Valid, IsSealed
<1>3. a \in Approvals
  BY DEF ReviewInv, ReviewTypeOK
<1>4. cmd'[p] = [at |-> "materialize", a |-> a]
  BY <1>1, GoCmd
<1>5. cmd'[p].at = "materialize" /\ cmd'[p].a = a /\ cmd'[p] \in Carrying
  BY <1>3, <1>4 DEF Carrying, Carriers, Finalizing
<1>6. ReviewCmdType(p)'
  BY <1>5 DEF ReviewCmdType
<1>7. CmdAgrees(p)'
  BY <1>1, <1>2, <1>5 DEF CmdAgrees, Committing, FilesKept
<1> QED
  BY <1>1, <1>6, <1>7, QuietCommand

LEMMA ReplayQuiet ==
  ASSUME ReviewInv, NEW p \in Hosts, Replay(p)
  PROVE  ReviewInv' /\ UNCHANGED Promise!vars
<1>1. cmd[p].at \in Finalizing /\ FilesKept /\ UNCHANGED <<index, tree, plan>>
  BY DEF Replay, Doing, FilesKept, git, progress, files, Finalizing
<1>2. CASE ~Clean
  BY <1>1, <1>2, QuietEnd DEF Replay
<1>3. CASE Clean
  <2>1. GoTo(p, "confirm") /\ UNCHANGED tickLock
    BY <1>3 DEF Replay
  <2> QED
    BY <1>1, <2>1, QuietFinalizing DEF Finalizing, Committing, ReviewInv, ReviewTypeOK
<1> QED
  BY <1>2, <1>3

(* What is committed after finalize was completed is committed already.    *)
LEMMA CurrentIsNew ==
  ASSUME ReviewInv, NEW a \in Approvals, stage \in {"done", "closed"}, a = final, Current(a)
  PROVE  FALSE
<1>1. Promise!IsPrefixOf(Proposal(a), head)
  BY DEF ReviewInv, PhaseAgrees
<1>2. a.head = head /\ head \in Seq(Commits)
  BY DEF Current, ReviewInv, ReviewTypeOK
<1>3. [tree |-> a.tree, by |-> <<"run", a.gen>>] \in Commits
  BY ProposalType
<1>4. Len(Proposal(a)) = Len(head) + 1 /\ Len(head) \in Nat
  BY <1>2, <1>3, PrefixAppend DEF Proposal
<1> QED
  BY <1>1, <1>4 DEF Promise!IsPrefixOf

LEMMA PrepareQuiet ==
  ASSUME ReviewInv, NEW p \in Hosts, Prepare(p)
  PROVE  ReviewInv' /\ UNCHANGED Promise!vars
<1> DEFINE a == cmd[p].a
<1>1. /\ cmd[p].at = "materialize" /\ cmd[p].at \in Finalizing /\ cmd[p].at \in Carriers
      /\ FilesKept /\ UNCHANGED <<index, tree, plan>>
  BY DEF Prepare, Doing, FilesKept, git, progress, files, Finalizing, Carriers
<1>2. CASE ~Current(a)
  BY <1>1, <1>2, QuietEnd DEF Prepare
<1>3. CASE Current(a)
  <2>1. Do(p, [at |-> "commit", a |-> cmd[p].a, index |-> index]) /\ UNCHANGED tickLock
    BY <1>3 DEF Prepare
  <2>2. ReviewCmdType(p) /\ CmdAgrees(p)
    BY DEF ReviewInv
  <2>3. a \in Approvals
    BY <1>1, <2>2, CarriedApproval DEF ReviewCmdType
  <2>4. stage = "finalize"
    BY <1>1, <1>3, <2>2, <2>3, CurrentIsNew DEF CmdAgrees
  <2>5. index \in Contents
    BY DEF ReviewInv, ReviewTypeOK
  <2> QED
    BY <1>1, <2>1, <2>4, <2>5, QuietFinalizing DEF Finalizing, Committing
<1> QED
  BY <1>2, <1>3

LEMMA ResolveQuiet ==
  ASSUME ReviewInv, NEW p \in Hosts, Resolve(p)
  PROVE  ReviewInv' /\ UNCHANGED Promise!vars
<1>1. /\ cmd[p].at \in Finalizing /\ cmd[p].at \in Committing
      /\ FilesKept /\ UNCHANGED <<index, tree, plan>>
  BY DEF Resolve, Doing, FilesKept, git, progress, files, Finalizing, Committing
<1>2. stage = "finalize" /\ index \in Contents
  BY <1>1 DEF ReviewInv, CmdAgrees, ReviewTypeOK
<1>3. \/ \E s \in {"compare", "rollback"} : GoTo(p, s) /\ UNCHANGED tickLock
      \/ Return(p)
  BY DEF Resolve
<1>4. CASE Return(p)
  BY <1>1, <1>4, QuietEnd
<1>5. ASSUME NEW s \in {"compare", "rollback"}, GoTo(p, s) /\ UNCHANGED tickLock
      PROVE  ReviewInv' /\ UNCHANGED Promise!vars
  <2>1. s \in Finalizing /\ s # "finalized"
    BY DEF Finalizing, Committing
  <2> QED
    BY <1>1, <1>2, <1>5, <2>1, QuietFinalizing
<1> QED
  BY <1>3, <1>4, <1>5

LEMMA CompareQuiet ==
  ASSUME ReviewInv, NEW p \in Hosts, Compare(p)
  PROVE  ReviewInv' /\ UNCHANGED Promise!vars
<1>1. /\ cmd[p].at \in Finalizing /\ cmd[p].at \in Committing
      /\ FilesKept /\ UNCHANGED <<index, tree, plan>>
  BY DEF Compare, Doing, FilesKept, git, progress, files, Finalizing, Committing
<1>2. stage = "finalize" /\ index \in Contents
  BY <1>1 DEF ReviewInv, CmdAgrees, ReviewTypeOK
<1>3. CASE index = cmd[p].index
  <2>1. GoTo(p, "install") /\ UNCHANGED tickLock
    BY <1>3 DEF Compare
  <2> QED
    BY <1>1, <1>2, <2>1, QuietFinalizing DEF Finalizing, Committing
<1>4. CASE index # cmd[p].index
  BY <1>1, <1>4, QuietEnd DEF Compare
<1> QED
  BY <1>3, <1>4

LEMMA InstallQuiet ==
  ASSUME ReviewInv, NEW p \in Hosts, Install(p)
  PROVE  ReviewInv' /\ UNCHANGED Promise!vars
<1>1. /\ cmd[p].at \in Finalizing /\ cmd[p].at \in Carriers /\ FilesKept
      /\ UNCHANGED <<tree, plan, tickLock>> /\ index' = cmd[p].a.tree /\ GoTo(p, "confirm")
  BY DEF Install, Doing, FilesKept, progress, files, Finalizing, Committing, Carriers
<1>2. cmd[p].a \in Approvals
  BY <1>1, CarriedApproval DEF ReviewInv, ReviewCmdType
<1>3. index' \in Contents
  BY <1>1, <1>2 DEF Approvals
<1> QED
  BY <1>1, <1>3, QuietFinalizing DEF Finalizing, Committing

LEMMA ConfirmQuiet ==
  ASSUME ReviewInv, NEW p \in Hosts, Confirm(p)
  PROVE  ReviewInv' /\ UNCHANGED Promise!vars
<1>1. /\ cmd[p].at \in Finalizing /\ cmd[p].at \in Carriers
      /\ FilesKept /\ UNCHANGED <<index, tree, plan>>
  BY DEF Confirm, Doing, FilesKept, git, progress, files, Finalizing, Carriers
<1>2. CASE Committed(cmd[p].a) /\ Clean
  <2>1. GoTo(p, "finalized") /\ UNCHANGED tickLock
    BY <1>2 DEF Confirm
  <2>2. cmd[p].a \in Approvals
    BY <1>1, CarriedApproval DEF ReviewInv, ReviewCmdType
  <2>3. Promise!IsPrefixOf(Proposal(cmd[p].a), head')
    BY <1>1, <1>2, <2>2, ProposalType, PrefixSelf DEF Committed, FilesKept
  <2>4. index \in Contents
    BY DEF ReviewInv, ReviewTypeOK
  <2> QED
    BY <1>1, <2>1, <2>3, <2>4, QuietFinalizing DEF Finalizing, Committing
<1>3. CASE ~(Committed(cmd[p].a) /\ Clean)
  BY <1>1, <1>3, QuietEnd DEF Confirm
<1> QED
  BY <1>2, <1>3

LEMMA CrashQuiet ==
  ASSUME ReviewInv, NEW p \in Hosts, HostDies(p)
  PROVE  ReviewInv' /\ UNCHANGED Promise!vars
BY QuietEnd DEF HostDies, FilesKept, git, progress, files

LEMMA OutsideQuiet ==
  ASSUME ReviewInv, Stage \/ Replan \/ \E t \in Trees : Edit(t)
  PROVE  ReviewInv' /\ UNCHANGED Promise!vars
<1>1. /\ FilesKept /\ UNCHANGED <<cmd, tickLock>>
      /\ index' \in Contents /\ tree' \in Contents /\ plan' \in Nat
  BY DEF Stage, Replan, Edit, FilesKept, git, progress, files, ReviewInv, ReviewTypeOK, Contents
<1>2. {} \in SUBSET Hosts
  OBVIOUS
<1>3. \A q \in Hosts \ {} : cmd'[q] = cmd[q] /\ (tickLock = q => tickLock' = q)
  BY <1>1
<1>4. tickLock' \in Hosts \cup {None} /\ DOMAIN cmd' = Hosts
  BY <1>1 DEF ReviewInv, ReviewTypeOK
<1> QED
  BY <1>1, <1>2, <1>3, <1>4, QuietStep DEF FilesKept

-----------------------------------------------------------------------------
(* Steps that write.                                                       *)

LEMMA ActorStep ==
  ASSUME ReviewInv, NEW p \in Hosts, BindingsStay, DOMAIN cmd' = Hosts,
         tickLock' \in Hosts \cup {None},
         \A q \in Hosts \ {p} :
           cmd'[q] = cmd[q] /\ (tickLock = q => tickLock' = q /\ Steady),
         ReviewTypeOK', FilesAgree', ApprovedIsVerified', PhaseAgrees',
         ReviewCmdType(p)', CmdAgrees(p)'
  PROVE  ReviewInv'
<1>1. \A q \in Hosts \ {p} : ReviewCmdType(q)' /\ CmdAgrees(q)'
  BY OtherAgrees
<1> QED
  BY <1>1 DEF ReviewInv

LEMMA SameBindings ==
  ASSUME ReviewInv, UNCHANGED bindings
  PROVE  BindingsStay
BY DEF BindingsStay, ReviewInv, ReviewTypeOK

LEMMA PassedAll ==
  ASSUME ReviewInv, manifest # None, AllPassed
  PROVE  PassedStories = Stories
<1>1. \A r \in Records(manifest.gen) : r.story \in Stories /\ r.verdict = "pass"
  BY DEF AllPassed, Passed, Records, ReviewInv, ReviewTypeOK, Verifications
<1>2. \A s \in Stories : \E r \in Records(manifest.gen) : r.story = s
  BY DEF AllPassed, Unrecorded
<1> QED
  BY <1>1, <1>2 DEF PassedStories

LEMMA BeginKeeps ==
  ASSUME ReviewInv, NEW p \in Hosts, Begin(p)
  PROVE  ReviewInv' /\ (Promise!Next \/ UNCHANGED Promise!vars)
<1> DEFINE c == cmd[p]
           g == Len(bindings) + 1
           m == [gen |-> g, tree |-> c.e.tree, phase |-> c.phase,
                 entry |-> entry, status |-> "open", records |-> {}]
<1>1. /\ c.at = "begin" /\ tickLock \in {None, p}
      /\ UNCHANGED <<head, index, tree, plan, stage, entry, final, log, approvals>>
  BY DEF Begin, Doing, CanLock, git, progress
<1>2. ReviewCmdType(p) /\ CmdAgrees(p)
  BY DEF ReviewInv
<1>3. c.phase \in Phases /\ c.e \in Evidences /\ c.plan \in Nat
  BY <1>1, <1>2 DEF ReviewCmdType
<1>4. CASE Refuses(c)
  <2>1. Return(p) /\ UNCHANGED <<manifest, bindings>>
    BY <1>4 DEF Begin
  <2> QED
    BY <1>1, <2>1, QuietEnd DEF FilesKept
<1>5. CASE ~Refuses(c) /\ Resumes(c)
  <2>1. /\ Do(p, [at |-> "bind", gen |-> manifest.gen, e |-> c.e, plan |-> c.plan])
        /\ UNCHANGED <<manifest, bindings, tickLock>> /\ manifest # None
    BY <1>5 DEF Begin, Resumes, IsOpen
  <2>2. /\ cmd'[p].at = "bind" /\ cmd'[p].gen = manifest.gen /\ cmd'[p].e = c.e
        /\ cmd'[p].plan = c.plan
    BY <2>1, GoCmd
  <2>3. manifest.gen \in Gens'
    BY <2>1 DEF ReviewInv, FilesAgree, ReviewTypeOK, Manifests, Gens
  <2>4. ReviewCmdType(p)'
    BY <1>3, <2>2, <2>3 DEF ReviewCmdType, Carriers, Finalizing, Committing
  <2>5. CmdAgrees(p)'
    BY <2>2 DEF CmdAgrees, UnderLock, Finalizing, Committing
  <2> QED
    BY <1>1, <2>1, <2>4, <2>5, QuietCommand DEF FilesKept
<1>6. CASE ~Refuses(c) /\ ~Resumes(c)
  <2>1. /\ manifest' = m /\ bindings' = Append(bindings, None) /\ UNCHANGED tickLock
        /\ Do(p, [at |-> "bind", gen |-> g, e |-> c.e, plan |-> c.plan])
    BY <1>6 DEF Begin
  <2>2. stage # "closed"
    BY <1>6 DEF Refuses
  <2>3. /\ bindings \in Seq(Bindings \cup {None}) /\ Len(bindings) \in Nat
        /\ bindings' \in Seq(Bindings \cup {None}) /\ Len(bindings') = g
        /\ \A x \in Gens : bindings'[x] = bindings[x]
        /\ bindings'[g] = None /\ g \notin Gens /\ Gens \subseteq Gens' /\ g \in Gens'
        /\ 0 \notin Gens /\ Gens \subseteq Nat /\ g \in Nat \ {0}
    BY <2>1 DEF ReviewInv, ReviewTypeOK, Gens
  <2>4. m \in Manifests /\ m # None
    <3>1. m \in Manifests
      BY <1>3, <2>3 DEF Manifests, Evidences, ReviewInv, ReviewTypeOK
    <3> QED
      BY <3>1, NoneAssumption
  <2>5. ReviewTypeOK'
    BY <1>1, <2>1, <2>3, <2>4, GoCmd DEF ReviewInv, ReviewTypeOK
  <2>6. FilesAgree'
    <3>1. manifest' # None /\ manifest'.gen = g /\ manifest'.entry = entry
      BY <2>1, <2>4
    <3>2. \A r \in log : r.gen \in Gens' /\ bindings'[r.gen] # None
      BY <2>3 DEF ReviewInv, FilesAgree
    <3>3. \A a \in approvals : a.gen \in Gens' /\ bindings'[a.gen] = Subject(a)
      BY <2>3 DEF ReviewInv, FilesAgree
    <3>4. entry \in Nat
      BY DEF ReviewInv, FilesAgree, ReviewTypeOK
    <3>5. \A a \in approvals : Subject(a)' = Subject(a)
      BY DEF Subject
    <3> QED
      BY <1>1, <2>3, <3>1, <3>2, <3>3, <3>4, <3>5 DEF FilesAgree
  <2>7. \A a \in approvals : a.gen # g
    BY <2>3 DEF ReviewInv, FilesAgree
  <2>8. ApprovedIsVerified'
    BY <1>1, <2>1, <2>7 DEF ApprovedIsVerified
  <2>9. stage = "review" => c.phase = "review"
    BY <1>1, <1>2, <1>3 DEF CmdAgrees, Phases
  <2>10. PhaseAgrees'
    BY <1>1, <2>1, <2>9 DEF PhaseAgrees, ReviewInv
  <2>11. /\ cmd'[p].at = "bind" /\ cmd'[p].gen = g /\ cmd'[p].e = c.e
         /\ cmd'[p].plan = c.plan
         /\ DOMAIN cmd' = Hosts /\ \A q \in Hosts \ {p} : cmd'[q] = cmd[q]
    BY <2>1, GoCmd
  <2>12. ReviewCmdType(p)'
    BY <1>3, <2>3, <2>11 DEF ReviewCmdType, Carriers, Finalizing, Committing
  <2>13. CmdAgrees(p)'
    BY <2>11 DEF CmdAgrees, UnderLock, Finalizing, Committing
  <2>14. BindingsStay
    <3>1. Len(bindings') >= Len(bindings)
      BY <2>3
    <3>2. \A x \in Gens : bindings'[x] = bindings[x]
      BY <2>3
    <3> QED
      BY <3>1, <3>2 DEF BindingsStay
  <2>15. \A q \in Hosts \ {p} : tickLock # q
    BY <1>1, NoneAssumption
  <2>16. ReviewInv'
    BY <2>1, <2>5, <2>6, <2>8, <2>10, <2>11, <2>12, <2>13, <2>14, <2>15, ActorStep
       DEF ReviewTypeOK, ReviewInv
  <2>17. Round' = [number |-> g, phase |-> c.phase, subject |-> None]
    BY <2>1, <2>3, <2>4 DEF Round
  <2>18. Round' # None
    BY <1>3, <2>3, <2>17, NoneAssumption DEF Rounds
  <2>19. Round # None => g > Round.number
    BY <2>3 DEF Round, ReviewInv, FilesAgree
  <2>20. RoundBegun' = TRUE
    BY <1>1, <2>1, <2>4 DEF RoundBegun
  <2>21. PassedStories' = {}
    <3>1. \A r \in log : r.gen # g
      BY <2>3 DEF ReviewInv, FilesAgree
    <3> QED
      BY <1>1, <2>1, <2>4, <3>1 DEF PassedStories, Records
  <2>22. Approved' = {}
    BY <1>1, <2>1, <2>7 DEF Approved
  <2>23. Shipped' = Shipped
    BY <1>1 DEF Shipped, Proposal
  <2>24. Promise!BeginRound
    BY <1>1, <2>17, <2>18, <2>19, <2>20, <2>21, <2>22, <2>23 DEF Promise!BeginRound
  <2> QED
    BY <2>16, <2>24 DEF Promise!Next
<1> QED
  BY <1>4, <1>5, <1>6

LEMMA BoundSubject ==
  ASSUME NEW a \in Approvals
  PROVE  Subject(a) \in Bindings /\ Subject(a) # None
BY NoneAssumption DEF Subject, Bindings, Approvals

LEMMA BindKeeps ==
  ASSUME ReviewInv, NEW p \in Hosts, Bind(p)
  PROVE  ReviewInv' /\ (Promise!Next \/ UNCHANGED Promise!vars)
<1> DEFINE c == cmd[p]
           b == [head |-> c.e.head, tree |-> c.e.tree, plan |-> c.plan]
<1>1. /\ c.at = "bind" /\ Return(p)
      /\ UNCHANGED <<head, index, tree, plan, stage, entry, final, manifest, log, approvals>>
  BY DEF Bind, Doing, git, progress
<1>2. c.gen \in Gens /\ c.e \in Evidences /\ c.plan \in Nat
  BY <1>1 DEF ReviewInv, ReviewCmdType
<1>3. CASE bindings[c.gen] # None
  <2>1. bindings' = bindings
    BY <1>3 DEF Bind
  <2> QED
    BY <1>1, <2>1, QuietEnd DEF FilesKept
<1>4. CASE bindings[c.gen] = None
  <2>1. bindings' = [bindings EXCEPT ![c.gen] = b]
    BY <1>4 DEF Bind
  <2>2. b \in Bindings /\ b # None
    BY <1>2, NoneAssumption DEF Bindings, Evidences
  <2>3. /\ bindings' \in Seq(Bindings \cup {None}) /\ Len(bindings') = Len(bindings)
        /\ bindings'[c.gen] = b /\ Gens' = Gens
        /\ \A g \in Gens : g # c.gen => bindings'[g] = bindings[g]
    BY <1>2, <2>1, <2>2 DEF ReviewInv, ReviewTypeOK, Gens
  <2>4. BindingsStay
    BY <1>4, <2>3 DEF BindingsStay, ReviewInv, ReviewTypeOK
  <2>6. /\ DOMAIN cmd' = Hosts /\ tickLock' \in Hosts \cup {None}
        /\ \A q \in Hosts \ {p} : cmd'[q] = cmd[q] /\ (tickLock = q => tickLock' = q)
        /\ ReviewCmdType(p)' /\ CmdAgrees(p)'
    BY <1>1, EndCmd
  <2>7. ReviewTypeOK'
    BY <1>1, <2>3, <2>6 DEF ReviewInv, ReviewTypeOK
  <2>8. FilesAgree'
    <3>1. \A r \in log : r.gen \in Gens /\ r.gen # c.gen
      BY <1>4 DEF ReviewInv, FilesAgree
    <3>2. \A a \in approvals : a.gen \in Gens /\ a.gen # c.gen
      BY <1>4, BoundSubject DEF ReviewInv, FilesAgree, ReviewTypeOK
    <3>3. bindings # <<>> /\ manifest # None
      BY <1>2 DEF Gens, ReviewInv, FilesAgree
    <3>4. /\ manifest.gen = Len(bindings) /\ manifest.gen > 0
          /\ manifest.entry <= entry
      BY <3>3 DEF ReviewInv, FilesAgree
    <3>5. \A r \in log : bindings'[r.gen] # None
      BY <2>3, <3>1 DEF ReviewInv, FilesAgree
    <3>6. \A a \in approvals : bindings'[a.gen] = Subject(a)
      BY <2>3, <3>2 DEF ReviewInv, FilesAgree
    <3> QED
      BY <1>1, <2>3, <3>1, <3>2, <3>3, <3>4, <3>5, <3>6 DEF FilesAgree, Subject
  <2>9. ApprovedIsVerified' /\ PhaseAgrees'
    BY <1>1 DEF ReviewInv, ApprovedIsVerified, PhaseAgrees, AllPassed, Unrecorded, Passed, Records
  <2>10. Steady
    BY <1>1 DEF Steady, HeadGrows
  <2>11. ReviewInv'
    BY <2>4, <2>6, <2>7, <2>8, <2>9, <2>10, ActorStep
  <2>12. /\ manifest # None /\ manifest.gen \in Gens
    BY <1>2 DEF Gens, ReviewInv, FilesAgree, ReviewTypeOK, Manifests
  <2>13. UNCHANGED <<head, stage, RoundBegun, PassedStories, Approved, Shipped>>
    BY <1>1 DEF RoundBegun, PassedStories, Approved, Shipped, Records, Subject, Proposal
  <2>14. CASE c.gen = manifest.gen
    <3>1. /\ Round = [number |-> manifest.gen, phase |-> manifest.phase, subject |-> None]
          /\ Round' = [number |-> manifest.gen, phase |-> manifest.phase, subject |-> b]
      BY <1>1, <1>4, <2>3, <2>12, <2>14 DEF Round
    <3>2. Round # None /\ Round' # None
      BY <2>2, <2>12, <3>1, NoneAssumption DEF Rounds, Manifests, Gens, ReviewInv, ReviewTypeOK
    <3>3. Round' = [Round EXCEPT !.subject = Round'.subject]
      BY <3>1
    <3>4. Promise!FixSubject
      BY <2>13, <3>1, <3>2, <3>3 DEF Promise!FixSubject
    <3> QED
      BY <2>11, <3>4 DEF Promise!Next
  <2>15. CASE c.gen # manifest.gen
    <3>1. Round' = Round
      BY <1>1, <2>3, <2>12, <2>15 DEF Round
    <3> QED
      BY <2>11, <2>13, <3>1 DEF Promise!vars
  <2> QED
    BY <2>14, <2>15
<1> QED
  BY <1>3, <1>4

LEMMA AddVerificationKeeps ==
  ASSUME ReviewInv, NEW p \in Hosts, AddVerification(p)
  PROVE  ReviewInv' /\ (Promise!Next \/ UNCHANGED Promise!vars)
<1> DEFINE c == cmd[p]
           r == [gen |-> c.gen, story |-> c.story, verdict |-> c.verdict]
<1>1. /\ c.at = "append" /\ Return(p) /\ tickLock \in {None, p}
      /\ UNCHANGED <<head, index, tree, plan, stage, entry, final, manifest, bindings,
                     approvals>>
  BY DEF AddVerification, Doing, CanLock, git, progress
<1>2. /\ c.gen \in Gens /\ c.story \in Stories /\ c.verdict \in {"pass", "fail"}
      /\ bindings[c.gen] # None
  BY <1>1 DEF ReviewInv, ReviewCmdType, CmdAgrees
<1>3. CASE ~Takes(c)
  <2>1. log' = log
    BY <1>3 DEF AddVerification
  <2> QED
    BY <1>1, <2>1, QuietEnd DEF FilesKept
<1>4. CASE Takes(c)
  <2>1. /\ log' = log \cup {r} /\ manifest # None /\ manifest.status = "open"
        /\ manifest.gen = c.gen /\ c.story \in Unrecorded(c.gen)
    BY <1>4 DEF AddVerification, Takes, IsOpen
  <2>2. r \in Verifications
    BY <1>2 DEF Verifications, Gens, ReviewInv, ReviewTypeOK
  <2>3. /\ DOMAIN cmd' = Hosts /\ tickLock' \in Hosts \cup {None}
        /\ \A q \in Hosts \ {p} : cmd'[q] = cmd[q]
        /\ ReviewCmdType(p)' /\ CmdAgrees(p)'
    BY <1>1, EndCmd
  <2>4. ReviewTypeOK'
    BY <1>1, <2>1, <2>2, <2>3 DEF ReviewInv, ReviewTypeOK
  <2>5. FilesAgree'
    BY <1>1, <1>2, <2>1 DEF ReviewInv, FilesAgree, Gens, Subject
  <2>6. \A a \in approvals : a.gen # manifest.gen
    BY <2>1 DEF ReviewInv, ApprovedIsVerified
  <2>7. ApprovedIsVerified'
    BY <1>1, <2>6 DEF ApprovedIsVerified
  <2>8. PhaseAgrees' /\ BindingsStay
    BY <1>1, SameBindings DEF ReviewInv, PhaseAgrees
  <2>9. \A q \in Hosts \ {p} : tickLock # q
    BY <1>1, NoneAssumption
  <2>10. ReviewInv'
    BY <2>3, <2>4, <2>5, <2>7, <2>8, <2>9, ActorStep
  <2>11. UNCHANGED <<head, stage, RoundBegun, Round, Approved, Shipped>> /\ Approved = {}
    BY <1>1, <2>6 DEF RoundBegun, Round, Approved, Shipped, Subject, Proposal
  <2>12. /\ Round # None /\ Round.subject # None
    <3>1. /\ Round = [number |-> manifest.gen, phase |-> manifest.phase,
                      subject |-> bindings[manifest.gen]]
          /\ bindings[manifest.gen] \in Bindings \cup {None}
          /\ manifest \in Manifests
      BY <1>2, <2>1 DEF Round, ReviewInv, ReviewTypeOK, Gens
    <3>2. Round \in Rounds
      BY <3>1 DEF Rounds, Manifests
    <3> QED
      BY <1>2, <2>1, <3>1, <3>2, NoneAssumption
  <2>13. c.story \notin PassedStories
    BY <2>1 DEF Unrecorded, PassedStories
  <2>14. CASE c.verdict = "pass"
    <3>1. PassedStories' = PassedStories \cup {c.story}
      <4> DEFINE Pass == {x \in log : x.gen = manifest.gen /\ x.verdict = "pass"}
      <4>1. r.gen = manifest.gen /\ r.verdict = "pass" /\ r.story = c.story
        BY <2>1, <2>14
      <4>2. Pass' = Pass \cup {r}
        BY <1>1, <2>1, <4>1
      <4>3. PassedStories = {x.story : x \in Pass}
        BY <2>1 DEF PassedStories, Records
      <4>4. PassedStories' = {x.story : x \in Pass'}
        BY <1>1, <2>1 DEF PassedStories, Records
      <4> QED
        BY <4>1, <4>2, <4>3, <4>4
    <3>2. Promise!Verify(c.story)
      BY <2>11, <2>12, <2>13, <3>1 DEF Promise!Verify
    <3> QED
      BY <1>2, <2>10, <3>2 DEF Promise!Next
  <2>15. CASE c.verdict = "fail"
    <3>1. PassedStories' = PassedStories
      BY <1>1, <2>1, <2>15 DEF PassedStories, Records
    <3> QED
      BY <2>10, <2>11, <3>1 DEF Promise!vars
  <2> QED
    BY <1>2, <2>14, <2>15
<1> QED
  BY <1>3, <1>4

(* A seal changes nothing but the status of the generation.                *)
LEMMA SealKeeps ==
  ASSUME ReviewInv, manifest # None, SealRecords(manifest.gen),
         UNCHANGED <<head, stage, entry, final, log, bindings, approvals>>
  PROVE  /\ manifest' \in Manifests /\ manifest' # None
         /\ manifest'.gen = manifest.gen /\ manifest'.phase = manifest.phase
         /\ manifest'.entry = manifest.entry
         /\ FilesAgree' /\ ApprovedIsVerified' /\ PhaseAgrees'
         /\ UNCHANGED Promise!vars
<1>1. manifest \in Manifests /\ Records(manifest.gen) \in SUBSET Verifications
  BY DEF ReviewInv, ReviewTypeOK, Records
<1>2. /\ manifest' \in Manifests /\ manifest'.status = "sealed"
      /\ manifest'.gen = manifest.gen /\ manifest'.phase = manifest.phase
      /\ manifest'.entry = manifest.entry
  BY <1>1 DEF SealRecords, Manifests
<1>3. manifest' # None
  BY <1>2, NoneAssumption
<1>4. FilesAgree'
  BY <1>2, <1>3 DEF ReviewInv, FilesAgree, Gens, Subject
<1>5. AllPassed' <=> AllPassed
  BY <1>2 DEF AllPassed, Unrecorded, Passed, Records
<1>6. ApprovedIsVerified' /\ PhaseAgrees'
  BY <1>2, <1>5 DEF ReviewInv, ApprovedIsVerified, PhaseAgrees
<1>7. UNCHANGED Promise!vars
  BY <1>2, <1>3 DEF Promise!vars, Round, RoundBegun, PassedStories, Approved, Shipped, Records,
     Subject, Proposal
<1> QED
  BY <1>2, <1>3, <1>4, <1>6, <1>7

(* With the lock free, nobody is in the middle of what needs it.           *)
LEMMA FreeStep ==
  ASSUME ReviewInv, tickLock = None, UNCHANGED <<tickLock, cmd, bindings>>,
         ReviewTypeOK', FilesAgree', ApprovedIsVerified', PhaseAgrees'
  PROVE  ReviewInv'
<1>1. \A q \in Hosts : tickLock # q
  BY NoneAssumption
<1>2. \A q \in Hosts : ReviewCmdType(q)' /\ CmdAgrees(q)'
  BY <1>1, SameBindings, OtherAgrees
<1> QED
  BY <1>2 DEF ReviewInv

LEMMA SealFinalKeeps ==
  ASSUME ReviewInv, NEW p \in Hosts, SealFinal(p)
  PROVE  ReviewInv' /\ (Promise!Next \/ UNCHANGED Promise!vars)
<1>1. /\ tickLock = None /\ manifest # None /\ SealRecords(manifest.gen) /\ UNCHANGED <<tickLock, cmd>>
      /\ UNCHANGED <<head, index, tree, plan, stage, entry, final, log, bindings, approvals>>
  BY DEF SealFinal, git, progress
<1>2. ReviewTypeOK'
  BY <1>1, SealKeeps DEF ReviewInv, ReviewTypeOK
<1> QED
  BY <1>1, <1>2, SealKeeps, FreeStep

LEMMA CompleteVerificationKeeps ==
  ASSUME ReviewInv, NEW p \in Hosts, CompleteVerification(p)
  PROVE  ReviewInv' /\ (Promise!Next \/ UNCHANGED Promise!vars)
<1>1. /\ tickLock = None /\ tickLock' = p /\ manifest # None /\ SealRecords(manifest.gen)
      /\ stage = "verify" /\ manifest.phase = "review" /\ manifest.entry = entry
      /\ Do(p, [at |-> "prove", gen |-> manifest.gen])
      /\ UNCHANGED <<head, index, tree, plan, stage, entry, final, log, bindings, approvals>>
  BY DEF CompleteVerification, Fresh, git, progress
<1>2. /\ cmd'[p] = [at |-> "prove", gen |-> manifest.gen] /\ DOMAIN cmd' = Hosts
      /\ \A q \in Hosts \ {p} : cmd'[q] = cmd[q]
  BY <1>1, GoCmd
<1>3. ReviewTypeOK'
  BY <1>1, <1>2, SealKeeps DEF ReviewInv, ReviewTypeOK
<1>4. cmd'[p] \in [at : {"prove", "verified"}, gen : Nat] /\ cmd'[p].at = "prove"
      /\ cmd'[p].gen = manifest.gen
  BY <1>1, <1>2 DEF ReviewInv, ReviewTypeOK, Manifests
<1>5. ReviewCmdType(p)'
  BY <1>4 DEF ReviewCmdType, Carriers, Finalizing, Committing
<1>6. CmdAgrees(p)'
  BY <1>1, <1>4, SealKeeps DEF CmdAgrees, Finalizing, Committing
<1>7. \A q \in Hosts \ {p} : tickLock # q
  BY <1>1, NoneAssumption
<1>8. ReviewInv'
  BY <1>1, <1>2, <1>3, <1>5, <1>6, <1>7, SealKeeps, SameBindings, ActorStep
<1> QED
  BY <1>1, <1>8, SealKeeps

LEMMA VerifiedKeeps ==
  ASSUME ReviewInv, NEW p \in Hosts, Verified(p)
  PROVE  ReviewInv' /\ (Promise!Next \/ UNCHANGED Promise!vars)
<1>1. /\ cmd[p].at = "verified" /\ Return(p) /\ stage' = "review"
      /\ UNCHANGED <<head, index, tree, plan, entry, final, manifest, log, bindings, approvals>>
  BY DEF Verified, Doing, git, files
<1>2. /\ tickLock = p /\ stage = "verify" /\ manifest # None /\ manifest.entry = entry
      /\ manifest.phase = "review" /\ AllPassed
  BY <1>1 DEF ReviewInv, CmdAgrees, UnderLock
<1>3. /\ DOMAIN cmd' = Hosts /\ tickLock' \in Hosts \cup {None}
      /\ \A q \in Hosts \ {p} : cmd'[q] = cmd[q] /\ tickLock # q
      /\ ReviewCmdType(p)' /\ CmdAgrees(p)'
  BY <1>1, <1>2, EndCmd
<1>4. ReviewTypeOK'
  BY <1>1, <1>3 DEF ReviewInv, ReviewTypeOK
<1>5. FilesAgree'
  BY <1>1, <1>2 DEF ReviewInv, FilesAgree, Gens, Subject
<1>6. ApprovedIsVerified'
  BY <1>1 DEF ReviewInv, ApprovedIsVerified, AllPassed, Unrecorded, Passed, Records
<1>7. PhaseAgrees'
  BY <1>1, <1>2 DEF PhaseAgrees
<1>8. ReviewInv'
  BY <1>1, <1>3, <1>4, <1>5, <1>6, <1>7, SameBindings, ActorStep
<1>9. UNCHANGED <<head, Round, RoundBegun, PassedStories, Approved, Shipped>>
  BY <1>1 DEF Round, RoundBegun, PassedStories, Approved, Shipped, Records, Subject, Proposal
<1>10. RoundBegun /\ Round.phase = "review" /\ PassedStories = Stories
  BY <1>2, PassedAll DEF RoundBegun, Round
<1>11. Promise!Pass
  BY <1>1, <1>2, <1>9, <1>10 DEF Promise!Pass
<1> QED
  BY <1>8, <1>11 DEF Promise!Next

LEMMA WriteApprovalKeeps ==
  ASSUME ReviewInv, NEW p \in Hosts, WriteApproval(p)
  PROVE  ReviewInv' /\ (Promise!Next \/ UNCHANGED Promise!vars)
<1> DEFINE a == cmd[p].a
<1>1. /\ cmd[p].at = "approve" /\ Return(p) /\ approvals' = approvals \cup {a}
      /\ UNCHANGED <<head, index, tree, plan, stage, entry, final, manifest, log, bindings>>
  BY DEF WriteApproval, Doing, git, progress
<1>2. ReviewCmdType(p) /\ CmdAgrees(p)
  BY DEF ReviewInv
<1>3. /\ tickLock = p /\ stage \in {"review", "finalize"} /\ a.gen = manifest.gen
      /\ manifest.entry = entry /\ manifest.phase = PhaseOf(stage)
      /\ manifest.status = "sealed" /\ AllPassed /\ bindings[a.gen] = Subject(a)
  BY <1>1, <1>2 DEF CmdAgrees, UnderLock
<1>4. a \in Approvals
  BY <1>1, <1>2, CarriedApproval DEF ReviewCmdType, Carriers
<1>5. manifest # None /\ manifest.gen \in Gens /\ manifest \in Manifests
  BY <1>3 DEF ReviewInv, FilesAgree, ReviewTypeOK, Manifests, Gens
<1>6. /\ DOMAIN cmd' = Hosts /\ tickLock' \in Hosts \cup {None}
      /\ \A q \in Hosts \ {p} : cmd'[q] = cmd[q] /\ tickLock # q
      /\ ReviewCmdType(p)' /\ CmdAgrees(p)'
  BY <1>1, <1>3, EndCmd
<1>7. ReviewTypeOK'
  BY <1>1, <1>4, <1>6 DEF ReviewInv, ReviewTypeOK
<1>8. FilesAgree'
  BY <1>1, <1>3, <1>5 DEF ReviewInv, FilesAgree, Gens, Subject
<1>9. ApprovedIsVerified'
  BY <1>1, <1>3 DEF ReviewInv, ApprovedIsVerified, AllPassed, Unrecorded, Passed, Records
<1>10. PhaseAgrees'
  BY <1>1 DEF ReviewInv, PhaseAgrees
<1>11. ReviewInv'
  BY <1>1, <1>6, <1>7, <1>8, <1>9, <1>10, SameBindings, ActorStep
<1>12. UNCHANGED <<head, stage, Round, RoundBegun, PassedStories, Shipped>>
  BY <1>1 DEF Round, RoundBegun, PassedStories, Shipped, Records, Proposal
<1>13. /\ Round = [number |-> manifest.gen, phase |-> manifest.phase, subject |-> Subject(a)]
       /\ RoundBegun /\ PassedStories = Stories
  BY <1>3, <1>5, PassedAll DEF Round, RoundBegun
<1>14. Round # None /\ Round.subject # None /\ Round.subject = Subject(a)
  <2>1. Subject(a) \in Bindings /\ Subject(a) # None
    BY <1>4, BoundSubject
  <2>2. Round \in Rounds
    BY <1>5, <1>13, <2>1 DEF Rounds, Manifests
  <2> QED
    BY <1>13, <2>1, <2>2, NoneAssumption
<1>15. stage = (IF Round.phase = "review" THEN "review" ELSE "finalize")
  BY <1>3, <1>13 DEF PhaseOf
<1>16. Approved' = Approved \cup {Subject(a)}
  <2> DEFINE OfRound == {x \in approvals : x.gen = manifest.gen}
  <2>1. OfRound' = OfRound \cup {a}
    BY <1>1, <1>3
  <2>2. Approved = {Subject(x) : x \in OfRound} /\ Approved' = {Subject(x) : x \in OfRound'}
    BY DEF Approved, Subject
  <2> QED
    BY <2>1, <2>2
<1>17. Promise!Approve
  BY <1>12, <1>13, <1>14, <1>15, <1>16 DEF Promise!Approve
<1> QED
  BY <1>11, <1>17 DEF Promise!Next

LEMMA ReviewedKeeps ==
  ASSUME ReviewInv, NEW p \in Hosts, Reviewed(p)
  PROVE  ReviewInv' /\ (Promise!Next \/ UNCHANGED Promise!vars)
<1>1. /\ cmd[p].at = "reviewed" /\ Return(p) /\ stage' = "finalize" /\ entry' = entry + 1
      /\ UNCHANGED <<head, index, tree, plan, final, manifest, log, bindings, approvals>>
  BY DEF Reviewed, Doing, git, files
<1>2. tickLock = p /\ stage = "review" /\ \E a \in approvals : a.gen = manifest.gen
  BY <1>1 DEF ReviewInv, CmdAgrees, UnderLock
<1>3. /\ manifest # None /\ manifest.phase = "review" /\ manifest.entry = entry
      /\ manifest \in Manifests /\ entry \in Nat
  BY <1>2 DEF ReviewInv, FilesAgree, PhaseAgrees, ReviewTypeOK
<1>4. /\ DOMAIN cmd' = Hosts /\ tickLock' \in Hosts \cup {None}
      /\ \A q \in Hosts \ {p} : cmd'[q] = cmd[q] /\ tickLock # q
      /\ ReviewCmdType(p)' /\ CmdAgrees(p)'
  BY <1>1, <1>2, EndCmd
<1>5. ReviewTypeOK'
  BY <1>1, <1>4 DEF ReviewInv, ReviewTypeOK
<1>6. FilesAgree'
  BY <1>1, <1>3 DEF ReviewInv, FilesAgree, Gens, Subject
<1>7. ApprovedIsVerified'
  BY <1>1 DEF ReviewInv, ApprovedIsVerified, AllPassed, Unrecorded, Passed, Records
<1>8. PhaseAgrees'
  BY <1>1, <1>3 DEF PhaseAgrees
<1>9. ReviewInv'
  BY <1>1, <1>4, <1>5, <1>6, <1>7, <1>8, SameBindings, ActorStep
<1>10. UNCHANGED <<head, Round, PassedStories, Approved, Shipped>>
  BY <1>1 DEF Round, PassedStories, Approved, Shipped, Records, Subject, Proposal
<1>11. RoundBegun /\ Round.phase = "review" /\ Approved # {} /\ RoundBegun' = FALSE
  BY <1>1, <1>2, <1>3 DEF RoundBegun, Round, Approved
<1>12. Promise!Accept
  BY <1>1, <1>2, <1>10, <1>11 DEF Promise!Accept
<1> QED
  BY <1>9, <1>12 DEF Promise!Next

LEMMA ReattemptKeeps ==
  ASSUME ReviewInv, NEW p \in Hosts, Reattempt(p)
  PROVE  ReviewInv' /\ (Promise!Next \/ UNCHANGED Promise!vars)
<1>1. /\ stage \in {"verify", "review", "finalize"} /\ tickLock = None
      /\ stage' = "verify" /\ entry' = entry + 1 /\ UNCHANGED <<cmd, tickLock>>
      /\ UNCHANGED <<head, index, tree, plan, final, manifest, log, bindings, approvals>>
  BY DEF Reattempt, git, files
<1>2. entry \in Nat /\ (manifest # None => manifest \in Manifests /\ manifest.entry <= entry)
  BY DEF ReviewInv, ReviewTypeOK, FilesAgree
<1>3. manifest # None => manifest.entry \in Nat
  BY <1>2 DEF Manifests
<1>4. ReviewTypeOK'
  BY <1>1 DEF ReviewInv, ReviewTypeOK
<1>5. FilesAgree'
  BY <1>1, <1>2, <1>3 DEF ReviewInv, FilesAgree, Gens, Subject
<1>6. ApprovedIsVerified'
  BY <1>1 DEF ReviewInv, ApprovedIsVerified, AllPassed, Unrecorded, Passed, Records
<1>7. PhaseAgrees'
  BY <1>1 DEF PhaseAgrees
<1>8. ReviewInv'
  BY <1>1, <1>4, <1>5, <1>6, <1>7, FreeStep
<1>9. UNCHANGED <<head, Round, PassedStories, Approved, Shipped>>
  BY <1>1 DEF Round, PassedStories, Approved, Shipped, Records, Subject, Proposal
<1>10. RoundBegun' = FALSE
  BY <1>1, <1>2, <1>3 DEF RoundBegun
<1>11. Promise!Rework
  BY <1>1, <1>9, <1>10 DEF Promise!Rework
<1> QED
  BY <1>8, <1>11 DEF Promise!Next

-----------------------------------------------------------------------------
(* Steps that change the history.                                          *)

LEMMA ExtendStep ==
  ASSUME ReviewInv, NEW x \in Commits, head' = Append(head, x),
         UNCHANGED <<stage, entry, final, manifest, log, bindings, approvals>>,
         x.by \in Promise!ByOthers
           \/ (stage = "finalize" /\ \E s \in Approved : s.tree = x.tree)
  PROVE  Promise!Next
<1>1. head \in Seq(Commits)
  BY DEF ReviewInv, ReviewTypeOK
<1>2. /\ Len(head') = Len(head) + 1 /\ head'[Len(head')] = x
      /\ Promise!IsPrefixOf(head, head')
  BY <1>1, PrefixAppend
<1>3. UNCHANGED <<Round, RoundBegun, PassedStories, Approved, Shipped>>
  BY DEF Round, RoundBegun, PassedStories, Approved, Shipped, Records, Subject, Proposal
<1>4. Promise!Extend
  BY <1>2, <1>3 DEF Promise!Extend
<1> QED
  BY <1>4 DEF Promise!Next

LEMMA GitCommitKeeps ==
  ASSUME ReviewInv, NEW p \in Hosts, NEW hook \in HookKinds, NEW t \in Trees,
         GitCommit(p, hook, t)
  PROVE  ReviewInv' /\ (Promise!Next \/ UNCHANGED Promise!vars)
<1> DEFINE a == cmd[p].a
<1>1. /\ cmd[p].at = "commit" /\ cmd[p].at \in Committing /\ cmd[p].at \in Finalizing
      /\ cmd[p].at \in Carriers
      /\ UNCHANGED <<index, tree, plan, stage, entry, final, manifest, log, bindings, approvals>>
  BY DEF GitCommit, Doing, progress, files, Committing, Finalizing, Carriers
<1>2. ReviewCmdType(p) /\ CmdAgrees(p)
  BY DEF ReviewInv
<1>3. /\ tickLock = p /\ stage = "finalize" /\ a \in approvals /\ a.gen = manifest.gen
  BY <1>1, <1>2 DEF CmdAgrees, UnderLock
<1>4. a \in Approvals /\ a.gen \in Nat /\ t \in Contents
  BY <1>3 DEF ReviewInv, ReviewTypeOK, Approvals, Contents
<1>5. /\ DOMAIN cmd' = Hosts /\ tickLock' \in Hosts \cup {None}
      /\ \A q \in Hosts \ {p} : cmd'[q] = cmd[q] /\ tickLock # q
      /\ ReviewCmdType(p)' /\ CmdAgrees(p)'
  <2>1. CASE hook \in {"refuse", "late"}
    <3>1. Return(p)
      BY <2>1 DEF GitCommit
    <3> QED
      BY <1>3, <3>1, EndCmd
  <2>2. CASE hook \notin {"refuse", "late"}
    <3>1. GoTo(p, "resolve") /\ tickLock' = tickLock
      BY <2>2 DEF GitCommit
    <3>2. /\ cmd'[p] = [cmd[p] EXCEPT !.at = "resolve"]
          /\ DOMAIN cmd' = Hosts /\ \A q \in Hosts \ {p} : cmd'[q] = cmd[q]
      BY <3>1, StepCmd
    <3>3. ReviewCmdType(p)' /\ CmdAgrees(p)'
      BY <1>1, <1>3, <3>1, <3>2, FinalizingStep DEF Finalizing, Committing
    <3> QED
      BY <1>3, <3>1, <3>2, <3>3
  <2> QED
    BY <2>1, <2>2
<1>6. CASE hook = "refuse"
  <2>1. head' = head /\ Return(p)
    BY <1>6 DEF GitCommit
  <2> QED
    BY <1>1, <2>1, QuietEnd DEF FilesKept
<1>7. CASE hook # "refuse"
  <2>1. PICK x \in Commits :
          /\ head' = Append(head, x) /\ x.tree = t
          /\ x.by \in Promise!ByOthers \/ t = a.tree
    <3>1. CASE hook = "message"
      <4>1. head' = Append(head, [tree |-> t, by |-> <<"mutated", a.gen>>]) /\ t = a.tree
        BY <3>1 DEF GitCommit
      <4>2. [tree |-> t, by |-> <<"mutated", a.gen>>] \in Commits
        BY <1>4 DEF Commits
      <4> QED
        BY <4>1, <4>2
    <3>2. CASE hook = "tree"
      <4>1. head' = Append(head, [tree |-> t, by |-> <<"hook", 0>>])
        BY <3>2 DEF GitCommit
      <4>2. [tree |-> t, by |-> <<"hook", 0>>] \in Commits
        BY <1>4 DEF Commits
      <4> QED
        BY <4>1, <4>2 DEF Promise!ByOthers
    <3>3. CASE hook \in {"none", "late"}
      <4>1. head' = Append(head, [tree |-> t, by |-> <<"run", a.gen>>]) /\ t = a.tree
        BY <3>3 DEF GitCommit
      <4>2. [tree |-> t, by |-> <<"run", a.gen>>] \in Commits
        BY <1>4 DEF Commits
      <4> QED
        BY <4>1, <4>2
    <3> QED
      BY <1>7, <3>1, <3>2, <3>3 DEF HookKinds
  <2>2. head \in Seq(Commits) /\ head' \in Seq(Commits)
    BY <2>1, PrefixAppend DEF ReviewInv, ReviewTypeOK
  <2>3. ReviewTypeOK'
    BY <1>1, <1>5, <2>2 DEF ReviewInv, ReviewTypeOK
  <2>4. FilesAgree'
    BY <1>1 DEF ReviewInv, FilesAgree, Gens, Subject
  <2>5. ApprovedIsVerified'
    BY <1>1 DEF ReviewInv, ApprovedIsVerified, AllPassed, Unrecorded, Passed, Records
  <2>6. PhaseAgrees'
    BY <1>1, <1>3 DEF ReviewInv, PhaseAgrees
  <2>7. ReviewInv'
    BY <1>1, <1>5, <2>3, <2>4, <2>5, <2>6, SameBindings, ActorStep
  <2>8. \E s \in Approved : s.tree = a.tree
    <3>1. Subject(a) \in Approved /\ Subject(a).tree = a.tree
      BY <1>3 DEF Approved, Subject
    <3> QED
      BY <3>1
  <2>9. Promise!Next
    BY <1>1, <1>3, <2>1, <2>8, ExtendStep
  <2> QED
    BY <2>7, <2>9
<1> QED
  BY <1>6, <1>7

LEMMA UserCommitKeeps ==
  ASSUME ReviewInv, UserCommit
  PROVE  ReviewInv' /\ (Promise!Next \/ UNCHANGED Promise!vars)
<1> DEFINE x == [tree |-> index, by |-> <<"user", 0>>]
<1>1. /\ head' = Append(head, x) /\ UNCHANGED <<index, tree, plan, cmd, tickLock>>
      /\ UNCHANGED <<stage, entry, final, manifest, log, bindings, approvals>>
  BY DEF UserCommit, progress, files
<1>2. x \in Commits
  BY DEF Commits, ReviewInv, ReviewTypeOK
<1>3. head' \in Seq(Commits)
  BY <1>1, <1>2 DEF ReviewInv, ReviewTypeOK
<1>4. ReviewTypeOK'
  BY <1>1, <1>3 DEF ReviewInv, ReviewTypeOK
<1>5. FilesAgree'
  BY <1>1 DEF ReviewInv, FilesAgree, Gens, Subject
<1>6. ApprovedIsVerified'
  BY <1>1 DEF ReviewInv, ApprovedIsVerified, AllPassed, Unrecorded, Passed, Records
<1>7. HeadGrows /\ Steady
  BY <1>1, <1>2 DEF HeadGrows, Steady
<1>8. PhaseAgrees'
  <2>1. ASSUME stage \in {"done", "closed"}
        PROVE  final # None /\ Promise!IsPrefixOf(Proposal(final), head')
    <3>1. final \in Approvals /\ final # None /\ Promise!IsPrefixOf(Proposal(final), head)
      BY <2>1 DEF ReviewInv, ReviewTypeOK, PhaseAgrees
    <3> QED
      BY <1>7, <3>1, HeadGrowsPrefix
  <2> QED
    BY <1>1, <2>1 DEF ReviewInv, PhaseAgrees, Proposal
<1>9. \A q \in Hosts : ReviewCmdType(q)' /\ CmdAgrees(q)'
  BY <1>1, <1>7, SameBindings, OtherAgrees
<1>10. ReviewInv'
  BY <1>4, <1>5, <1>6, <1>8, <1>9 DEF ReviewInv
<1>11. x.by \in Promise!ByOthers
  BY DEF Promise!ByOthers
<1> QED
  BY <1>1, <1>2, <1>10, <1>11, ExtendStep

LEMMA RollbackKeeps ==
  ASSUME ReviewInv, NEW p \in Hosts, Rollback(p)
  PROVE  ReviewInv' /\ (Promise!Next \/ UNCHANGED Promise!vars)
<1> DEFINE a == cmd[p].a
           x == [tree |-> a.tree, by |-> <<"mutated", a.gen>>]
<1>1. /\ cmd[p].at = "rollback" /\ cmd[p].at \in Committing /\ cmd[p].at \in Finalizing
      /\ Return(p) /\ head' = (IF Unmoved(a) THEN a.head ELSE head)
      /\ UNCHANGED <<index, tree, plan, stage, entry, final, manifest, log, bindings, approvals>>
  BY DEF Rollback, Doing, progress, files, Committing, Finalizing
<1>2. /\ tickLock = p /\ stage = "finalize" /\ a \in approvals /\ a.gen = manifest.gen
      /\ manifest.phase = "final-review"
  BY <1>1 DEF ReviewInv, CmdAgrees, UnderLock
<1>3. a \in Approvals /\ a.head \in Seq(Commits)
  BY <1>2 DEF ReviewInv, ReviewTypeOK, Approvals
<1>4. CASE ~Unmoved(a)
  BY <1>1, <1>4, QuietEnd DEF FilesKept
<1>5. CASE Unmoved(a)
  <2>1. head = Append(a.head, x) /\ head' = a.head
    BY <1>1, <1>5 DEF Unmoved, Attempt
  <2>2. x \in Commits
    BY <1>3 DEF Commits, Approvals
  <2>3. /\ Len(head) = Len(a.head) + 1 /\ head[Len(head)] = x
        /\ SubSeq(head, 1, Len(a.head)) = a.head
    BY <1>3, <2>1, <2>2, PrefixAppend
  <2>4. Len(a.head) \in Nat
    BY <1>3
  <2>5. head' = SubSeq(head, 1, Len(head) - 1) /\ head[Len(head)].by = <<"mutated", manifest.gen>>
    <3>1. Len(head) - 1 = Len(a.head)
      BY <2>3, <2>4
    <3>2. head[Len(head)].by = <<"mutated", a.gen>>
      BY <2>3
    <3>3. QED
      BY <1>2, <2>1, <2>3, <3>1, <3>2
  <2>6. /\ DOMAIN cmd' = Hosts /\ tickLock' \in Hosts \cup {None}
        /\ \A q \in Hosts \ {p} : cmd'[q] = cmd[q] /\ tickLock # q
        /\ ReviewCmdType(p)' /\ CmdAgrees(p)'
    BY <1>1, <1>2, EndCmd
  <2>7. ReviewTypeOK'
    BY <1>1, <1>3, <2>1, <2>6 DEF ReviewInv, ReviewTypeOK
  <2>8. FilesAgree'
    BY <1>1 DEF ReviewInv, FilesAgree, Gens, Subject
  <2>9. ApprovedIsVerified'
    BY <1>1 DEF ReviewInv, ApprovedIsVerified, AllPassed, Unrecorded, Passed, Records
  <2>10. PhaseAgrees'
    BY <1>1, <1>2 DEF ReviewInv, PhaseAgrees
  <2>11. ReviewInv'
    BY <1>1, <2>6, <2>7, <2>8, <2>9, <2>10, SameBindings, ActorStep
  <2>12. UNCHANGED <<stage, Round, RoundBegun, PassedStories, Approved, Shipped>>
    BY <1>1 DEF Round, RoundBegun, PassedStories, Approved, Shipped, Records, Subject, Proposal
  <2>13. Round # None /\ Round.number = manifest.gen
    <3>1. manifest # None /\ manifest \in Manifests /\ a.gen \in Gens
      BY <1>2 DEF ReviewInv, FilesAgree, ReviewTypeOK
    <3>2. /\ Round = [number |-> manifest.gen, phase |-> manifest.phase,
                      subject |-> bindings[manifest.gen]]
          /\ bindings[manifest.gen] \in Bindings \cup {None}
      BY <1>2, <3>1 DEF Round, ReviewInv, ReviewTypeOK, Gens
    <3> QED
      BY <3>1, <3>2, NoneAssumption DEF Rounds, Manifests
  <2>14. Promise!Withdraw
    BY <2>5, <2>12, <2>13 DEF Promise!Withdraw
  <2> QED
    BY <2>11, <2>14 DEF Promise!Next
<1> QED
  BY <1>4, <1>5

LEMMA FinalizedKeeps ==
  ASSUME ReviewInv, NEW p \in Hosts, Finalized(p)
  PROVE  ReviewInv' /\ (Promise!Next \/ UNCHANGED Promise!vars)
<1> DEFINE a == cmd[p].a
<1>1. /\ cmd[p].at = "finalized" /\ cmd[p].at \in Finalizing /\ Return(p)
      /\ stage' = (IF stage = "done" THEN "closed" ELSE "done") /\ final' = a
      /\ UNCHANGED <<head, index, tree, plan, entry, manifest, log, bindings, approvals>>
  BY DEF Finalized, Doing, git, files, Finalizing
<1>2. /\ tickLock = p /\ stage \in {"finalize", "done"} /\ a \in approvals
      /\ a.gen = manifest.gen /\ manifest.phase = "final-review"
      /\ (stage = "done" => a = final) /\ Promise!IsPrefixOf(Proposal(a), head)
  BY <1>1 DEF ReviewInv, CmdAgrees, UnderLock
<1>3. a \in Approvals /\ a # None
  BY <1>2, NoneAssumption DEF ReviewInv, ReviewTypeOK
<1>4. manifest # None /\ manifest \in Manifests
  BY <1>2 DEF ReviewInv, FilesAgree, ReviewTypeOK
<1>5. /\ DOMAIN cmd' = Hosts /\ tickLock' \in Hosts \cup {None}
      /\ \A q \in Hosts \ {p} : cmd'[q] = cmd[q] /\ tickLock # q
      /\ ReviewCmdType(p)' /\ CmdAgrees(p)'
  BY <1>1, <1>2, EndCmd
<1>6. ReviewTypeOK'
  BY <1>1, <1>3, <1>5 DEF ReviewInv, ReviewTypeOK
<1>7. FilesAgree'
  BY <1>1, <1>4 DEF ReviewInv, FilesAgree, Gens, Subject
<1>8. ApprovedIsVerified'
  BY <1>1 DEF ReviewInv, ApprovedIsVerified, AllPassed, Unrecorded, Passed, Records
<1>9. Proposal(final)' = Proposal(a)
  BY <1>1 DEF Proposal
<1>10. PhaseAgrees'
  BY <1>1, <1>2, <1>3, <1>9 DEF PhaseAgrees
<1>11. ReviewInv'
  BY <1>1, <1>5, <1>6, <1>7, <1>8, <1>10, SameBindings, ActorStep
<1>12. UNCHANGED <<head, Round, RoundBegun, PassedStories, Approved>>
  BY <1>1 DEF Round, RoundBegun, PassedStories, Approved, Records, Subject
<1>13. Shipped' = Proposal(a)
  BY <1>1, <1>3, <1>9 DEF Shipped
<1>14. CASE stage = "done"
  <2>1. Shipped = Proposal(a)
    BY <1>2, <1>3, <1>14 DEF Shipped
  <2>2. Promise!Close
    BY <1>1, <1>2, <1>12, <1>13, <1>14, <2>1 DEF Promise!Close
  <2> QED
    BY <1>11, <2>2 DEF Promise!Next
<1>15. CASE stage = "finalize"
  <2>1. RoundBegun /\ Round.phase = "final-review" /\ Round.number = a.gen
    BY <1>2, <1>4, <1>15 DEF RoundBegun, Round, ReviewInv, PhaseAgrees
  <2>2. Subject(a) \in Approved /\ Subject(a).head = a.head /\ Subject(a).tree = a.tree
    BY <1>2 DEF Approved, Subject
  <2>3. Shipped' = Append(Subject(a).head,
                      [tree |-> Subject(a).tree, by |-> <<"run", Round.number>>])
    BY <1>13, <2>1, <2>2 DEF Proposal
  <2>4. Promise!IsPrefixOf(Shipped', head)
    BY <1>2, <1>13
  <2>5. Promise!Finish
    BY <1>1, <1>12, <1>15, <2>1, <2>2, <2>3, <2>4 DEF Promise!Finish
  <2> QED
    BY <1>11, <2>5 DEF Promise!Next
<1> QED
  BY <1>2, <1>14, <1>15


-----------------------------------------------------------------------------
(* The whole run.                                                          *)

LEMMA ReviewStarts == ReviewInit => ReviewInv /\ Promise!Init
<1> SUFFICES ASSUME ReviewInit PROVE ReviewInv /\ Promise!Init
  OBVIOUS
<1> DEFINE first == [tree |-> Base, by |-> <<"user", 0>>]
<1>1. first \in Commits /\ head = <<first>>
  BY DEF ReviewInit, Commits, Contents
<1>2. head \in Seq(Commits) /\ head # <<>>
  BY <1>1
<1>3. ReviewTypeOK
  BY <1>2 DEF ReviewInit, ReviewTypeOK, Contents
<1>4. \A p \in Hosts : cmd[p].at = "idle"
  BY DEF ReviewInit, NoCommand
<1>5. \A p \in Hosts : ReviewCmdType(p) /\ CmdAgrees(p)
  BY <1>4 DEF ReviewCmdType, CmdAgrees, UnderLock, Finalizing, Committing, Carriers
<1>6. FilesAgree /\ ApprovedIsVerified /\ PhaseAgrees
  BY DEF ReviewInit, FilesAgree, ApprovedIsVerified, PhaseAgrees
<1>7. Promise!Init
  BY <1>2, NoneAssumption
     DEF ReviewInit, Promise!Init, Round, RoundBegun, PassedStories, Approved, Shipped
<1> QED
  BY <1>3, <1>5, <1>6, <1>7 DEF ReviewInv

LEMMA OthersKeep ==
  ASSUME ReviewInv, Others
  PROVE  ReviewInv' /\ (Promise!Next \/ UNCHANGED Promise!vars)
BY OutsideQuiet, UserCommitKeeps, CrashQuiet DEF Others

LEMMA CommandKeeps ==
  ASSUME ReviewInv, NEW p \in Hosts, Command(p)
  PROVE  ReviewInv' /\ (Promise!Next \/ UNCHANGED Promise!vars)
BY StartQuiet, RecordQuiet, SealFinalKeeps, CompleteVerificationKeeps, ApproveQuiet,
   ReattemptKeeps, CompleteReviewQuiet, CompleteFinalizeQuiet DEF Command

LEMMA GoOnKeeps ==
  ASSUME ReviewInv, NEW p \in Hosts, GoOn(p)
  PROVE  ReviewInv' /\ (Promise!Next \/ UNCHANGED Promise!vars)
<1>1. CASE Begin(p) \/ Bind(p) \/ AddVerification(p) \/ Verified(p)
           \/ WriteApproval(p) \/ Reviewed(p)
  BY <1>1, BeginKeeps, BindKeeps, AddVerificationKeeps, VerifiedKeeps,
     WriteApprovalKeeps, ReviewedKeeps
<1>2. CASE ProvePackage(p) \/ Replay(p) \/ Prepare(p) \/ Resolve(p) \/ Compare(p)
           \/ Install(p) \/ Confirm(p)
  BY <1>2, ProveQuiet, ReplayQuiet, PrepareQuiet, ResolveQuiet, CompareQuiet,
     InstallQuiet, ConfirmQuiet
<1>3. CASE \E h \in HookKinds, t \in Trees : GitCommit(p, h, t)
  BY <1>3, GitCommitKeeps
<1>4. CASE Rollback(p) \/ Finalized(p)
  BY <1>4, RollbackKeeps, FinalizedKeeps
<1> QED
  BY <1>1, <1>2, <1>3, <1>4 DEF GoOn

LEMMA ReviewStep ==
  ReviewInv /\ [ReviewNext]_reviewVars => ReviewInv' /\ [Promise!Next]_Promise!vars
<1> SUFFICES ASSUME ReviewInv, [ReviewNext]_reviewVars
             PROVE  ReviewInv' /\ (Promise!Next \/ UNCHANGED Promise!vars)
  OBVIOUS
<1>1. CASE ReviewNext
  BY <1>1, OthersKeep, CommandKeeps, GoOnKeeps DEF ReviewNext
<1>2. CASE UNCHANGED reviewVars
  <2>1. UNCHANGED <<head, stage, entry, final, manifest, log, bindings, approvals>>
        /\ UNCHANGED <<index, tree, plan, cmd, tickLock>>
    BY <1>2 DEF reviewVars, git, progress, files
  <2>2. /\ index' \in Contents /\ tree' \in Contents /\ plan' \in Nat
        /\ tickLock' \in Hosts \cup {None} /\ DOMAIN cmd' = Hosts
    BY <2>1 DEF ReviewInv, ReviewTypeOK
  <2>3. {} \in SUBSET Hosts
        /\ \A q \in Hosts \ {} : cmd'[q] = cmd[q] /\ (tickLock = q => tickLock' = q)
    BY <2>1
  <2>4. ReviewInv' /\ UNCHANGED Promise!vars
    BY <2>1, <2>2, <2>3, QuietStep
  <2> QED
    BY <2>4
<1> QED
  BY <1>1, <1>2

(* The files and the commands in flight agree, whatever goes wrong between *)
(* two of their steps: the types of everything a run keeps, and            *)
(* ApprovedIsVerified, PhaseAgrees and CmdAgrees.                          *)
THEOREM ReviewInvariant == ReviewSpec => []ReviewInv
<1>1. ReviewInit => ReviewInv
  BY ReviewStarts
<1>2. ReviewInv /\ [ReviewNext]_reviewVars => ReviewInv'
  BY ReviewStep
<1> QED
  BY <1>1, <1>2, PTL DEF ReviewSpec

(* The run keeps the promise of its review gate, for any number of hosts,  *)
(* stories, trees and mishaps: a new round of verification voids the one   *)
(* before, nothing is accepted but what every story passed on in a round   *)
(* begun since the phase was entered, and the run commits nothing but an   *)
(* approved tree and takes back nothing but its own last attempt.          *)
THEOREM ReviewIsKept == ReviewSpec => KeepsReview
<1>1. ReviewInit => Promise!Init
  BY ReviewStarts
<1>2. ReviewInv /\ [ReviewNext]_reviewVars => [Promise!Next]_Promise!vars
  BY ReviewStep
<1> QED
  BY <1>1, <1>2, ReviewInvariant, PTL DEF ReviewSpec, KeepsReview
=============================================================================
