------------------------------ MODULE PrdStore ------------------------------
(***************************************************************************)
(* The plan of a project: spec.md and prd.json, replaced together by a     *)
(* journaled transaction (spec-artifact.mjs), prd.json alone by compare    *)
(* and swap (execution-prd-store.mjs), both under one lock file            *)
(* (execution-prd-lock.mjs).  A process is one command; it may die between *)
(* any two effects.                                                        *)
(***************************************************************************)
EXTENDS Naturals, FiniteSets

CONSTANTS
  Procs,     \* commands
  Stories,   \* stories of a plan
  Requires,  \* Requires[s]: the stories s depends on
  TextOf,    \* TextOf[n]: the spec.md of plan n
  None,      \* no file, no value
  Scenes     \* what is asked: kind[p] ("plan": write a new one; "check" the one
             \* there; "trivial", "enrich", "pass", "rollback"), arg[p],
             \* after[p] (the commands p comes after), the files at the start,
             \* how many deaths and faults

Names == {"spec", "prd"}
Commands == {"plan", "check", "trivial", "enrich", "pass", "rollback", "idle"}

VARIABLES
  scene,    \* what is asked, and how much may still go wrong
  lock,     \* execution-prd.lock: None, or its creator and whether its owner
            \* is written
  aged,     \* it is older than 30 s
  judged,   \* judged[p]: p judged the lock stale; it is the "same", or "changed"
  tries,    \* tries[p]: the attempts of p to create it
  file,     \* spec.md and prd.json
  txn,      \* txn[p]: the transaction directory of p
  pc,       \* pc[p]: where p is
  part,     \* part[p]: "write" both files, or "set" prd.json
  got,      \* got[p]: the prd.json p has read without the lock
  cur,      \* cur[p]: what it has read, or whom it recovers, under the lock
  touched,  \* touched[p]: the files that others replaced since
  told,     \* told[p]: "no", "ok", "again", "refused"
  dead,     \* processes that died
  stolen,   \* history: a lock was removed that was not the one judged
  served    \* history: commands that had their effect
lockVars  == <<lock, aged, judged, tries>>
pairVars  == <<file, txn>>
mine      == <<part, got, cur, touched>>
history   == <<stolen, served>>
storeVars == <<scene, lockVars, pairVars, pc, mine, told, dead, history>>
-----------------------------------------------------------------------------
(* Values.                                                                 *)
Kind(p) == scene.kind[p]
Arg(p)  == scene.arg[p]   \* the plan or the story a command is about

Prds == [plan : DOMAIN TextOf, assigned : DOMAIN TextOf \cup Procs \cup {None},
         passed : SUBSET Stories]
Prd(n)       == [plan |-> n, assigned |-> None, passed |-> {}]
Content(p)   == [spec |-> TextOf[Arg(p)], prd |-> Prd(Arg(p))]
IsPlanning(d)  == d # None /\ d.passed = {}
IsExecution(d) ==
  /\ d # None /\ d.assigned # None
  /\ \A s \in d.passed : Requires[s] \subseteq d.passed

(* Where a plan lies at the start, spec.md has its text; None is no value. *)
Texts == {TextOf[n] : n \in DOMAIN TextOf} \cup {s.start["spec"] : s \in Scenes}
Pairs == [spec : Texts \cup {None}, prd : Prds \cup {None}]
Whole(f) == f["prd"] # None => f["spec"] = TextOf[f["prd"].plan]

ASSUME ScenesAssumption ==
  /\ Scenes \subseteq [kind : [Procs -> Commands],
                       arg : [Procs -> DOMAIN TextOf \cup Stories \cup {None}],
                       after : [Procs -> SUBSET Procs], start : Pairs,
                       deaths : Nat, faults : Nat]
  /\ \A s \in Scenes :
       /\ Whole(s.start)
       /\ \A p \in Procs :
            /\ s.kind[p] \in {"plan", "trivial"} => s.arg[p] \in DOMAIN TextOf
            /\ s.kind[p] = "pass" => s.arg[p] \in Stories

Locks == [by : Procs, written : BOOLEAN]
Txns  == [manifest : {"no", "part", "whole"}, init : Pairs, next : Pairs,
          staged : [Names -> {"no", "part", "whole", "gone"}],
          backup : [Names -> BOOLEAN]]

ASSUME NoneAssumption ==
  /\ None \notin Procs /\ None \notin DOMAIN TextOf
  /\ None \notin Prds /\ None \notin Pairs
  /\ \A n \in DOMAIN TextOf : TextOf[n] # None
  /\ None \notin Locks /\ None \notin Txns /\ None \notin {"same", "changed"}

(* The stories that fall with those of S.                                  *)
Dependents(S) ==
  LET more[n \in Nat] == IF n = 0 THEN S
        ELSE more[n - 1] \cup {s \in Stories : Requires[s] \cap more[n - 1] # {}}
  IN  more[Cardinality(Stories)]

(* What a setter makes of the file d, and whether d lets it.               *)
Assignment(p) == IF Kind(p) = "trivial" THEN Arg(p) ELSE p
Changed(p, d) ==
  CASE Kind(p) \in {"enrich", "trivial"} -> [d EXCEPT !.assigned = Assignment(p)]
    [] Kind(p) = "pass"     -> [d EXCEPT !.passed = @ \cup {Arg(p)}]
    [] Kind(p) = "rollback" -> [d EXCEPT !.passed = @ \ Dependents(@)]
Valid(p, d) ==
  IF Kind(p) \in {"enrich", "trivial"} THEN IsPlanning(d) ELSE IsExecution(d)

OpenTxns == {q \in Procs : txn[q] # None}
Took(p)  == served' = served \cup {p}

Goto(p, to)  == pc' = [pc EXCEPT ![p] = to] /\ UNCHANGED told
Hold(p, v) ==
  /\ cur' = [cur EXCEPT ![p] = v] /\ touched' = [touched EXCEPT ![p] = {}]
Forget(p) == got' = [got EXCEPT ![p] = None] /\ tries' = [tries EXCEPT ![p] = 0]

(* A command ends without the lock; or it is ready to release it.          *)
Stop(p, what) ==
  /\ pc' = [pc EXCEPT ![p] = "done"] /\ told' = [told EXCEPT ![p] = what]
  /\ Forget(p)
Leave(p, what) ==
  /\ pc' = [pc EXCEPT ![p] = "release"] /\ told' = [told EXCEPT ![p] = what]
  /\ Forget(p) /\ Hold(p, None)

(* A file is replaced: whoever has its stat finds it changed.              *)
Put(p, i, v) ==
  /\ file' = [file EXCEPT ![i] = v]
  /\ touched' = [q \in Procs |->
       IF q # p /\ cur[q] # None THEN touched[q] \cup {i} ELSE touched[q]]

StoreInit ==
  /\ scene \in Scenes
  /\ lock = None /\ aged = FALSE
  /\ judged = [p \in Procs |-> None] /\ tries = [p \in Procs |-> 0]
  /\ file = scene.start /\ txn = [p \in Procs |-> None]
  /\ pc = [p \in Procs |-> "start"]
  /\ part = [p \in Procs |->
       IF Kind(p) \in {"plan", "check"} THEN "write" ELSE "set"]
  /\ got = [p \in Procs |-> None] /\ cur = [p \in Procs |-> None]
  /\ touched = [p \in Procs |-> {}] /\ told = [p \in Procs |-> "no"]
  /\ dead = {} /\ stolen = FALSE /\ served = {}
-----------------------------------------------------------------------------
(* The lock.  A change of the file is what its stat tells a judge.         *)
PutLock(l) ==
  /\ lock' = l
  /\ judged' = [q \in Procs |-> IF judged[q] = "same" THEN "changed" ELSE judged[q]]
Holds(p) == lock # None /\ lock.by = p

CreateLock(p) ==
  /\ pc[p] = "acquire" /\ lock = None
  /\ PutLock([by |-> p, written |-> FALSE]) /\ aged' = FALSE
  /\ Goto(p, "fill")
  /\ UNCHANGED <<scene, tries, pairVars, mine, dead, history>>

(* The owner goes into the file p created, wherever that is now.           *)
FillLock(p) ==
  /\ pc[p] = "fill"
  /\ IF Holds(p) THEN PutLock([lock EXCEPT !.written = TRUE])
                 ELSE UNCHANGED <<lock, judged>>
  /\ Goto(p, "verify")
  /\ UNCHANGED <<scene, aged, tries, pairVars, mine, dead, history>>

VerifyLock(p) ==
  /\ pc[p] = "verify"
  /\ \/ /\ Holds(p)
        /\ Goto(p, IF part[p] = "write" THEN "recover" ELSE "read")
        /\ UNCHANGED <<got, tries>>
     \/ ~Holds(p) /\ Stop(p, "again")
  /\ UNCHANGED <<scene, lock, aged, judged, pairVars, part, cur, touched, dead,
                 history>>

FindLock(p) ==
  /\ pc[p] = "acquire" /\ lock # None
  /\ Goto(p, "judge")
  /\ UNCHANGED <<scene, lockVars, pairVars, mine, dead, history>>

(* Bug: a lock without owner stays.                                        *)
Stale_Written == lock # None /\ aged /\ lock.written /\ lock.by \in dead

Stale == lock # None /\ aged /\ (~lock.written \/ lock.by \in dead)

JudgeLock(p) ==
  /\ pc[p] = "judge"
  /\ \/ /\ Stale /\ judged' = [judged EXCEPT ![p] = "same"]
        /\ Goto(p, "recheck") /\ UNCHANGED <<got, tries>>
     \/ ~Stale /\ Stop(p, "again") /\ UNCHANGED judged
  /\ UNCHANGED <<scene, lock, aged, pairVars, part, cur, touched, dead, history>>

(* Two attempts, each with a recovery behind it.                           *)
Another(p) ==
  \/ tries[p] = 1 /\ Stop(p, "again")
  \/ /\ tries[p] = 0 /\ tries' = [tries EXCEPT ![p] = 1]
     /\ Goto(p, "acquire") /\ UNCHANGED got

RecheckLock(p) ==
  /\ pc[p] = "recheck"
  /\ \/ judged[p] = "same" /\ Goto(p, "unlink") /\ UNCHANGED <<judged, got, tries>>
     \/ /\ judged[p] = "changed" /\ judged' = [judged EXCEPT ![p] = None]
        /\ Another(p)
  /\ UNCHANGED <<scene, lock, aged, pairVars, part, cur, touched, dead, history>>

(* The path is unlinked, whatever it names by now.                         *)
UnlinkStale(p) ==
  /\ pc[p] = "unlink"
  /\ stolen' = (stolen \/ (lock # None /\ judged[p] = "changed"))
  /\ lock' = None /\ aged' = FALSE
  /\ judged' = [q \in Procs |->
       IF q = p THEN None ELSE IF judged[q] = "same" THEN "changed" ELSE judged[q]]
  /\ Another(p)
  /\ UNCHANGED <<scene, pairVars, part, cur, touched, dead, served>>

(* The end of a command, or of the first half of a trivial one.            *)
Release(p) ==
  /\ pc[p] = "release"
  /\ \/ Holds(p) /\ Goto(p, "unlock") /\ UNCHANGED <<got, tries>>
     \/ ~Holds(p) /\ Stop(p, IF told[p] = "again" THEN "again" ELSE "refused")
  /\ UNCHANGED <<scene, lock, aged, judged, pairVars, part, cur, touched, dead,
                 history>>

RemoveLock(p) ==
  /\ pc[p] = "unlock"
  /\ PutLock(None) /\ aged' = FALSE
  /\ stolen' = (stolen \/ (lock # None /\ lock.by # p))
  /\ Goto(p, IF told[p] = "no" THEN "reread" ELSE "done")
  /\ UNCHANGED <<scene, tries, pairVars, mine, dead, served>>

LockAges ==
  /\ lock # None /\ ~aged /\ aged' = TRUE
  /\ UNCHANGED <<scene, lock, judged, tries, pairVars, pc, mine, told, dead,
                 history>>
-----------------------------------------------------------------------------
(* Before the lock: setters read what they will change.                    *)
MayStart(p) ==
  /\ pc[p] = "start"
  /\ \A q \in scene.after[p] :
       pc[q] = "dead" \/ (pc[q] = "done" /\ told[q] # "again")

Begin(p) ==
  /\ MayStart(p) /\ Kind(p) \in {"plan", "check"}
  /\ Goto(p, "acquire")
  /\ UNCHANGED <<scene, lockVars, pairVars, mine, dead, history>>

ReadFirst(p) ==
  LET d == file["prd"] IN
  /\ MayStart(p) /\ Kind(p) \in {"enrich", "pass", "rollback"}
  /\ \/ ~Valid(p, d) /\ Stop(p, "refused") /\ UNCHANGED served
     \/ /\ Valid(p, d) /\ Kind(p) = "rollback" /\ d.passed = {}
        /\ Stop(p, "ok") /\ Took(p)
     \/ /\ Valid(p, d) /\ (Kind(p) = "rollback" => d.passed # {})
        /\ got' = [got EXCEPT ![p] = d]
        /\ Goto(p, "acquire") /\ UNCHANGED <<tries, served>>
  /\ UNCHANGED <<scene, lock, aged, judged, pairVars, part, cur, touched, dead,
                 stolen>>

(* A trivial run finds its PRD, or its plan, or nothing.                   *)
LookTrivial(p) ==
  LET d     == file["prd"]
      alien == (d = None) # (file["spec"] = None) \/ (d # None /\ d.plan # Arg(p))
      begin(what, x) ==
        /\ part' = [part EXCEPT ![p] = what] /\ got' = [got EXCEPT ![p] = x]
        /\ Goto(p, "acquire") /\ UNCHANGED <<tries, served>>
  IN
  /\ MayStart(p) /\ Kind(p) = "trivial"
  /\ \/ alien /\ Stop(p, "refused") /\ UNCHANGED <<part, served>>
     \/ ~alien /\ d = None /\ begin("write", None)
     \/ ~alien /\ d # None /\ ~IsExecution(d) /\ begin("set", d)
     \/ /\ ~alien /\ d # None /\ IsExecution(d) /\ UNCHANGED part
        /\ \/ d.assigned = Arg(p) /\ Stop(p, "ok") /\ Took(p)
           \/ d.assigned # Arg(p) /\ Stop(p, "refused") /\ UNCHANGED served
  /\ UNCHANGED <<scene, lock, aged, judged, pairVars, cur, touched, dead, stolen>>

(* It assigns whatever plan it finds after it has written its own.         *)
Reread(p) ==
  LET d == file["prd"] IN
  /\ pc[p] = "reread"
  /\ \/ /\ IsPlanning(d) /\ got' = [got EXCEPT ![p] = d]
        /\ part' = [part EXCEPT ![p] = "set"]
        /\ Goto(p, "acquire") /\ UNCHANGED tries
     \/ ~IsPlanning(d) /\ Stop(p, "refused") /\ UNCHANGED part
  /\ UNCHANGED <<scene, lock, aged, judged, pairVars, cur, touched, dead, history>>

(* A command that met a conflict, or failed and undid all, is given again. *)
Retry(p) ==
  /\ pc[p] = "done" /\ told[p] = "again"
  /\ pc' = [pc EXCEPT ![p] = "start"] /\ told' = [told EXCEPT ![p] = "no"]
  /\ UNCHANGED <<scene, lockVars, pairVars, mine, dead, history>>
-----------------------------------------------------------------------------
(* Under the lock: prd.json alone.                                         *)

(* Bug: the generation the caller had read is not compared.                *)
ReadCurrent_NoGeneration(p) ==
  LET d == file["prd"] IN
  /\ pc[p] = "read" /\ Valid(p, d)
  /\ Hold(p, d) /\ Goto(p, "check")
  /\ UNCHANGED <<scene, lockVars, pairVars, part, got, dead, history>>

ReadCurrent(p) ==
  LET d == file["prd"] IN
  /\ pc[p] = "read"
  /\ \/ /\ ~Valid(p, d) \/ (d = got[p] /\ ~Valid(p, Changed(p, d)))
        /\ Leave(p, "refused") /\ UNCHANGED served
     \/ Valid(p, d) /\ d # got[p] /\ Leave(p, "again") /\ UNCHANGED served
     \/ /\ Valid(p, d) /\ d = got[p] /\ Changed(p, d) = d
        /\ Leave(p, "ok") /\ Took(p)
     \/ /\ Valid(p, d) /\ d = got[p] /\ Changed(p, d) # d
        /\ Valid(p, Changed(p, d))
        /\ Hold(p, d) /\ Goto(p, "check") /\ UNCHANGED <<got, tries, served>>
  /\ UNCHANGED <<scene, lock, aged, judged, pairVars, part, dead, stolen>>

(* The temporary file is written between two looks at the stat of the old. *)
CheckCurrent(p) ==
  /\ pc[p] = "check"
  /\ \/ "prd" \in touched[p] /\ Leave(p, "again")
     \/ "prd" \notin touched[p] /\ Goto(p, "swap") /\ UNCHANGED <<got, tries, cur, touched>>
  /\ UNCHANGED <<scene, lock, aged, judged, pairVars, part, dead, history>>

Swap(p) ==
  /\ pc[p] = "swap"
  /\ Put(p, "prd", Changed(p, cur[p])) /\ Took(p)
  /\ Goto(p, "confirm")
  /\ UNCHANGED <<scene, lockVars, txn, part, got, cur, dead, stolen>>

Confirm(p) ==
  /\ pc[p] = "confirm"
  /\ Leave(p, IF /\ file["prd"] = Changed(p, cur[p])
                 /\ Kind(p) = "trivial" => cur[p].plan = Arg(p)
              THEN "ok" ELSE "refused")
  /\ UNCHANGED <<scene, lock, aged, judged, pairVars, part, dead, history>>
-----------------------------------------------------------------------------
(* Under the lock: what a transaction left behind.                         *)
Class(i, t) ==
  IF file[i] = None THEN "missing"
  ELSE IF file[i] = t.next[i] THEN IF t.init[i] = t.next[i] THEN "same" ELSE "next"
  ELSE IF file[i] = t.init[i] THEN "initial" ELSE "unknown"

Committed(t) == \A i \in Names : Class(i, t) \in {"next", "same"}

(* What has to be undone of i, if the transaction is.                      *)
Displaced(i, t) ==
  Class(i, t) = "next" \/ (Class(i, t) = "missing" /\ t.init[i] # None)

(* A transaction that recovery accepts; it refuses any other for ever.     *)
Readable(t) ==
  \/ t.manifest = "no"
  \/ /\ t.manifest = "whole"
     /\ \A i \in Names :
          /\ Class(i, t) # "unknown" /\ t.staged[i] # "part"
          /\ ~(t.backup[i] /\ Class(i, t) = "initial")
          /\ ~Committed(t) /\ t.init[i] # None /\ Displaced(i, t) => t.backup[i]

Ahead(p) == IF Kind(p) = "check" THEN "validate" ELSE "open"

(* An empty directory is removed at once.                                  *)
Recover(p) ==
  /\ pc[p] = "recover"
  /\ \/ /\ \A q \in OpenTxns : OpenTxns = {q} /\ txn[q].manifest = "no"
        /\ txn' = [q \in Procs |-> None]
        /\ Goto(p, Ahead(p)) /\ UNCHANGED <<got, tries, cur, touched>>
     \/ \E q \in OpenTxns :
          /\ OpenTxns = {q} /\ txn[q].manifest # "no" /\ Readable(txn[q])
          /\ Goto(p, IF Committed(txn[q]) THEN "sweep" ELSE "restore")
          /\ Hold(p, q) /\ UNCHANGED <<got, tries, txn>>
     \/ /\ Cardinality(OpenTxns) > 1 \/ \E q \in OpenTxns : ~Readable(txn[q])
        /\ Leave(p, "refused") /\ UNCHANGED txn
  /\ UNCHANGED <<scene, lock, aged, judged, file, part, dead, history>>

(* One file after the other gets its old content, spec.md first.           *)
First(S) == IF "spec" \in S THEN "spec" ELSE "prd"

Restore(p) ==
  /\ pc[p] = "restore" /\ txn[cur[p]] # None
  /\ LET q == cur[p]
         t == txn[q]
         D == {i \in Names : Displaced(i, t)}
         i == First(D)
     IN    \/ /\ D = {} /\ Goto(p, "sweep")
              /\ UNCHANGED <<file, txn, got, tries, cur, touched>>
           \/ /\ D # {} /\ i \notin touched[p] /\ Class(i, t) = "next"
              /\ Put(p, i, None) /\ UNCHANGED <<pc, told, txn, got, tries, cur>>
           \/ /\ D # {} /\ i \notin touched[p] /\ Class(i, t) = "missing"
              /\ Put(p, i, t.init[i]) /\ txn' = [txn EXCEPT ![q].backup[i] = FALSE]
              /\ UNCHANGED <<pc, told, got, tries, cur>>
           \/ /\ D # {} /\ i \in touched[p] /\ Leave(p, "refused")
              /\ UNCHANGED <<file, txn>>
  /\ UNCHANGED <<scene, lock, aged, judged, part, dead, history>>

(* Its files go, then its directory leaves the names of transactions.      *)
Sweep(p) ==
  /\ pc[p] = "sweep"
  /\ txn' = [txn EXCEPT ![cur[p]] = None]
  /\ Hold(p, None) /\ Goto(p, Ahead(p))
  /\ UNCHANGED <<scene, lockVars, file, part, got, dead, history>>

(* PASS: the pair is there and no story of it has passed.                  *)
ValidatePair(p) ==
  /\ pc[p] = "validate" /\ Kind(p) = "check"
  /\ \/ /\ file["spec"] # None /\ IsPlanning(file["prd"])
        /\ Leave(p, "ok") /\ Took(p)
     \/ /\ ~(file["spec"] # None /\ IsPlanning(file["prd"]))
        /\ Leave(p, "refused") /\ UNCHANGED served
  /\ UNCHANGED <<scene, lock, aged, judged, pairVars, part, dead, stolen>>
-----------------------------------------------------------------------------
(* Under the lock: both files, by a transaction.                           *)
Both(v) == [i \in Names |-> v]
Half(s) == IF s = "no" THEN "part" ELSE "whole"

OpenTxn(p) ==
  /\ pc[p] = "open"
  /\ Hold(p, file)
  /\ txn' = [txn EXCEPT ![p] = [manifest |-> "no", init |-> file,
               next |-> Content(p), staged |-> Both("no"), backup |-> Both(FALSE)]]
  /\ Goto(p, "stage")
  /\ UNCHANGED <<scene, lockVars, file, part, got, dead, history>>

(* Each file is created, then written: manifest, spec.md, prd.json.        *)
Stage(p) ==
  LET t == txn[p]
      L == {i \in Names : t.staged[i] # "whole"}
  IN
  /\ pc[p] = "stage" /\ txn[p] # None
  /\ \/ /\ t.manifest # "whole"
        /\ txn' = [txn EXCEPT ![p].manifest = Half(@)] /\ UNCHANGED <<pc, told>>
     \/ /\ t.manifest = "whole" /\ L # {}
        /\ txn' = [txn EXCEPT ![p].staged[First(L)] = Half(@)]
        /\ UNCHANGED <<pc, told>>
     \/ /\ t.manifest = "whole" /\ L = {}
        /\ Goto(p, IF touched[p] = {} THEN "move" ELSE "undo") /\ UNCHANGED txn
  /\ UNCHANGED <<scene, lockVars, file, mine, dead, history>>

(* The old files go to the backup, spec.md first.                          *)
MoveToBackup(p) ==
  LET t == txn[p]
      L == {i \in Names : t.init[i] # None /\ ~t.backup[i]}
      i == First(L)
  IN
  /\ pc[p] = "move" /\ txn[p] # None
  /\ \/ L = {} /\ Goto(p, "install") /\ UNCHANGED <<file, touched, txn>>
     \/ /\ L # {} /\ i \in touched[p] /\ Goto(p, "undo")
        /\ UNCHANGED <<file, touched, txn>>
     \/ /\ L # {} /\ i \notin touched[p]
        /\ Put(p, i, None) /\ txn' = [txn EXCEPT ![p].backup[i] = TRUE]
        /\ UNCHANGED <<pc, told>>
  /\ UNCHANGED <<scene, lockVars, part, got, cur, dead, history>>

Install(p) ==
  LET t == txn[p]
      i == First({j \in Names : t.staged[j] = "whole"})
  IN
  /\ pc[p] = "install" /\ txn[p] # None
  /\ \/ file[i] # None /\ Goto(p, "undo") /\ UNCHANGED <<file, touched, txn, served>>
     \/ /\ file[i] = None
        /\ Put(p, i, t.next[i]) /\ txn' = [txn EXCEPT ![p].staged[i] = "gone"]
        /\ Goto(p, IF i = "prd" THEN "validate" ELSE "install")
        /\ IF i = "prd" /\ Kind(p) = "plan" THEN Took(p) ELSE UNCHANGED served
  /\ UNCHANGED <<scene, lockVars, part, got, cur, dead, stolen>>

ValidateInstalled(p) ==
  /\ pc[p] = "validate" /\ Kind(p) # "check"
  /\ Goto(p, IF file = Content(p) /\ touched[p] = {} THEN "close" ELSE "undo")
  /\ UNCHANGED <<scene, lockVars, pairVars, mine, dead, history>>

CloseTxn(p) ==
  /\ pc[p] = "close"
  /\ txn' = [txn EXCEPT ![p] = None]
  /\ Leave(p, IF Kind(p) = "plan" THEN "ok" ELSE "no")
  /\ UNCHANGED <<scene, lock, aged, judged, file, part, dead, history>>

(* A failed transaction is undone, prd.json first: the new file goes back, *)
(* then the old one returns.  It is left as it is where that fails too.    *)
Undo(p) ==
  LET t == txn[p]
      L == {i \in Names : t.staged[i] = "gone" \/ t.backup[i]}
      i == IF "prd" \in L THEN "prd" ELSE "spec"
      clean == /\ L # {} /\ i \notin touched[p]
               /\ i = "spec" => file["prd"] = t.init["prd"]
  IN
  /\ pc[p] = "undo" /\ txn[p] # None
  /\ \/ /\ clean /\ t.staged[i] = "gone"
        /\ Put(p, i, None) /\ txn' = [txn EXCEPT ![p].staged[i] = "whole"]
        /\ served' = IF i = "prd" THEN served \ {p} ELSE served
        /\ UNCHANGED <<pc, told, got, tries, cur>>
     \/ /\ clean /\ t.staged[i] # "gone"
        /\ Put(p, i, t.init[i]) /\ txn' = [txn EXCEPT ![p].backup[i] = FALSE]
        /\ UNCHANGED <<pc, told, got, tries, cur, served>>
     \/ /\ L = {} /\ file = t.init
        /\ txn' = [txn EXCEPT ![p] = None] /\ Leave(p, "again")
        /\ UNCHANGED <<file, served>>
     \/ /\ IF L = {} THEN file # t.init ELSE ~clean
        /\ Leave(p, "refused") /\ UNCHANGED <<file, txn, served>>
  /\ UNCHANGED <<scene, lock, aged, judged, part, dead, stolen>>

(* Another command removed the transaction, which takes a stolen lock.     *)
LoseTxn(p) ==
  /\ \/ pc[p] \in {"stage", "move", "install", "undo"} /\ txn[p] = None
     \/ pc[p] = "restore" /\ txn[cur[p]] = None
  /\ Leave(p, "refused")
  /\ UNCHANGED <<scene, lock, aged, judged, pairVars, part, dead, history>>
-----------------------------------------------------------------------------
(* What goes wrong.                                                        *)
Removed(s) == IF s = "part" THEN "no" ELSE s

(* One operation fails: a transaction is undone, or its clean-up left out  *)
(* (nobody is told of that); a swap is given up, or done and not confirmed.*)
Fault(p) ==
  /\ scene.faults > 0 /\ scene' = [scene EXCEPT !.faults = @ - 1]
  /\ \/ /\ pc[p] \in {"stage", "move", "install", "validate"} /\ txn[p] # None
        /\ txn' = [txn EXCEPT ![p].manifest = Removed(@),
                     ![p].staged = [i \in Names |-> Removed(@[i])]]
        /\ Goto(p, "undo") /\ UNCHANGED <<got, tries, cur, touched>>
     \/ /\ pc[p] = "close" /\ UNCHANGED txn
        /\ Leave(p, IF Kind(p) = "plan" THEN "ok" ELSE "no")
     \/ pc[p] = "check" /\ UNCHANGED txn /\ Leave(p, "again")
     \/ pc[p] = "confirm" /\ UNCHANGED txn /\ Leave(p, "refused")
  /\ UNCHANGED <<lock, aged, judged, file, part, dead, history>>

Die(p) ==
  /\ scene.deaths > 0 /\ scene' = [scene EXCEPT !.deaths = @ - 1]
  /\ pc[p] \notin {"start", "done", "dead"}
  /\ pc' = [pc EXCEPT ![p] = "dead"] /\ told' = [told EXCEPT ![p] = "no"]
  /\ dead' = dead \cup {p} /\ served' = served \ {p}
  /\ Forget(p) /\ Hold(p, None) /\ judged' = [judged EXCEPT ![p] = None]
  /\ UNCHANGED <<lock, aged, pairVars, part, stolen>>

Lock(p)    == CreateLock(p) \/ FillLock(p) \/ VerifyLock(p) \/ FindLock(p)
                \/ JudgeLock(p) \/ RecheckLock(p) \/ UnlinkStale(p)
                \/ Release(p) \/ RemoveLock(p)
Ask(p)     == Begin(p) \/ ReadFirst(p) \/ LookTrivial(p) \/ Reread(p) \/ Retry(p)
Change(p)  == ReadCurrent(p) \/ CheckCurrent(p) \/ Swap(p) \/ Confirm(p)
Replace(p) == Recover(p) \/ Restore(p) \/ Sweep(p) \/ ValidatePair(p)
                \/ OpenTxn(p) \/ Stage(p) \/ MoveToBackup(p) \/ Install(p)
                \/ ValidateInstalled(p) \/ CloseTxn(p) \/ Undo(p)
                \/ LoseTxn(p)
Step(p)    == Lock(p) \/ Ask(p) \/ Change(p) \/ Replace(p)

StoreNext == LockAges \/ \E p \in Procs : Step(p) \/ Fault(p) \/ Die(p)
StoreSpec == StoreInit /\ [][StoreNext]_storeVars

(* A command that was given goes on, and is repeated where that can help;  *)
(* time passes.                                                            *)
StoreFairSpec == StoreSpec /\ WF_storeVars(LockAges) /\ \A p \in Procs : WF_storeVars(Step(p))
-----------------------------------------------------------------------------
(* A file as recovery will leave it, which refuses what it cannot read.    *)
Settled(i) ==
  LET t == txn[CHOOSE q \in OpenTxns : TRUE]
  IN  IF /\ OpenTxns # {} /\ t.manifest = "whole" /\ Readable(t)
         /\ ~Committed(t) /\ Displaced(i, t)
      THEN t.init[i] ELSE file[i]

(* A transaction that was left half done with spec.md displaced.           *)
Torn == \E q \in OpenTxns : Displaced("spec", txn[q]) /\ ~Committed(txn[q])

Promise == INSTANCE PrdPromise WITH
  content <- [p \in Procs |->
               IF Kind(p) \in {"plan", "trivial"} THEN Content(p) ELSE None],
  change  <- [p \in Procs |-> [d \in Prds \cup {None} |->
               IF Kind(p) \notin {"plan", "check"} /\ Valid(p, d)
               THEN Changed(p, d) ELSE None]],
  pair    <- [i \in Names |-> Settled(i)],
  basis   <- got,
  prior   <- [p \in Procs |->
               IF txn[p] # None /\ txn[p].staged["prd"] = "gone"
               THEN txn[p].init ELSE None],
  told    <- [p \in Procs |-> IF pc[p] # "done" THEN "no"
                              ELSE IF told[p] = "ok" THEN "ok" ELSE "failed"]

(* The files keep the promise through deaths and failures between any two  *)
(* steps, as long as the lock does its work: it does not where two had     *)
(* judged one lock and the second removed its successor.  Excepted: setters*)
(* do not recover, and one that changes prd.json over a transaction that   *)
(* was left half done makes what it has done to spec.md final.             *)
KeepsPair ==
  Promise!Init
    /\ [][Promise!Next \/ stolen' \/ \E p \in Procs : Torn /\ Swap(p)]_Promise!vars

(* Recovery refuses what a dead or finished command left: half a file of   *)
(* its journal, or a prd.json that was changed on top of it.               *)
Wedged == \E q \in OpenTxns :
  pc[q] \in {"dead", "done", "start"} /\ ~Readable(txn[q])

(* Between creating a lock and writing its owner 30 s went by.             *)
Paused == lock # None /\ ~lock.written /\ aged /\ lock.by \notin dead

(* Who replaces the plan gets it done, whatever others left behind, unless *)
(* processes pause like that for ever.  Excepted: recovery refuses what it *)
(* finds; a theft.                                                         *)
PlanSettles ==
  <>[]~Paused =>
    <>(\/ Wedged \/ stolen
       \/ \A p \in Procs :
            Kind(p) = "plan" => p \in dead \/ (pc[p] = "done" /\ told[p] = "ok"))
=============================================================================
