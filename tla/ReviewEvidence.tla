--------------------------- MODULE ReviewEvidence ---------------------------
(***************************************************************************)
(* What an Atlas run accepts and commits: the verification generations of  *)
(* a run (run-artifacts.mjs), the bindings and approvals kept beside them  *)
(* (orchestrator-review-evidence.mjs), the evidence they are about and the *)
(* final commit (review-package.mjs), and the commands that use them       *)
(* (orchestrator-runtime.mjs).                                             *)
(*                                                                         *)
(* Files change, people commit and stage, and hooks run at any time.  A    *)
(* command looks at them, and writes or commits later; it may die between  *)
(* any two effects.  What it is about is compared as Git objects: a tree   *)
(* or a history is equal to another or it is not.  Reads after the last    *)
(* effect of a command only decide what it answers and are left out.       *)
(***************************************************************************)
EXTENDS Naturals, Sequences, FiniteSets

CONSTANTS Hosts,    \* processes that give commands
          Stories,  \* of the execution PRD
          Trees,    \* contents that need a review
          Base,     \* content of the commit that was pinned as review base
          None,
          Scenes    \* the host of the run, what goes wrong, how often

(* A scene has a host that drives the run, a set of kinds of mishaps (edit,*)
(* stage, commit, replan, crash, fail, hook; any is a command that is not  *)
(* needed, or is of another host) and the number of them.                  *)
HookKinds == {"none", "message", "tree", "refuse", "late"}

VARIABLES
  scene, mishaps,  \* bound
  head,       \* the history HEAD names
  index,      \* the content that is staged
  tree,       \* the content of the worktree
  plan,       \* the generation of prd.json
  stage,      \* the phase of the run; "done" when finalize is completed
  entry,      \* how often verify or finalize was entered: startedAt
  sealedBy,   \* outputs of verify: the generation it was completed with
  final,      \* outputs of finalize: the approval its commit belongs to
  manifest,   \* verification-generation.json
  log,        \* verification.jsonl
  bindings,   \* review-verification-<phase>-<generation>.json
  approvals,  \* review-approval-<phase>-<digest>.json
  cmd,        \* the command each host has in flight
  tickLock    \* transition lock of the run, while a command keeps it
git      == <<head, index, tree>>
progress == <<stage, entry, sealedBy, final>>
files    == <<manifest, log, bindings, approvals>>
reviewVars == <<scene, mishaps, git, plan, progress, files, cmd, tickLock>>

(* What is kept in the files.                                              *)
Contents == Trees \cup {Base}
Phases   == {"review", "final-review"}
Commits  == [tree : Contents, by : {"user", "hook", "run", "mutated"} \X Nat]
Verifications == [gen : Nat, story : Stories, verdict : {"pass", "fail"}]
Manifests == [gen : Nat, tree : Contents, phase : Phases, entry : Nat,
              status : {"open", "sealed"}, records : SUBSET Verifications]
Bindings  == [head : Seq(Commits), tree : Contents, plan : Nat]
Approvals == [phase : Phases, gen : Nat, head : Seq(Commits), index : Contents,
              tree : Contents, plan : Nat]
Rounds    == [number : Nat, phase : Phases, subject : Bindings \cup {None}]

ASSUME NoneAssumption ==
  None \notin Hosts \cup Manifests \cup Bindings \cup Approvals \cup Rounds

NoCommand == [at |-> "idle"]

ReviewInit ==
  /\ scene \in Scenes /\ mishaps = 0
  /\ head = <<[tree |-> Base, by |-> <<"user", 0>>]>> /\ index = Base /\ tree \in Trees
  /\ plan = 0 /\ stage = "verify" /\ entry = 1 /\ sealedBy = 0 /\ final = None
  /\ manifest = None /\ log = {} /\ bindings = <<>> /\ approvals = {}
  /\ cmd = [p \in Hosts |-> NoCommand] /\ tickLock = None

May(k) == k \in scene.kinds /\ mishaps < scene.mishaps
Spent    == mishaps' = mishaps + 1
NoMishap == UNCHANGED mishaps

----------------------------------------------------------------------------
(* Evidence.                                                               *)

(* buildReviewPackage: HEAD, the patches between HEAD, index and worktree, *)
(* and the tree a temporary index makes of the worktree.                   *)
Evidence == [head |-> head, index |-> index, tree |-> tree]

(* assertReviewPackageCurrent builds it again and compares.                *)
Current(e) == e.head = head /\ e.index = index /\ e.tree = tree

(* getReviewWorktreeState.                                                 *)
HeadTree == head[Len(head)].tree
Clean    == index = HeadTree /\ tree = index

(* The commit proposed when a generation was bound: its tree, on top of    *)
(* the HEAD of that time, with an identity, a time and a message of its    *)
(* own (two of one second may agree: left out).                            *)
Proposal(x) == Append(x.head, [tree |-> x.tree, by |-> <<"run", x.gen>>])

(* assertReviewPackageHeadTree: HEAD is that commit, byte for byte.        *)
Committed(x) == head = Proposal(x)

Records(g) == {r \in log : r.gen = g}
Unrecorded(g) == {s \in Stories : \A r \in Records(g) : r.story # s}
Passed(g)  == \A r \in Records(g) : r.verdict = "pass"

(* validateVerificationBinding, for evidence e and the PRD as it is now.   *)
BindingHolds(g, e) ==
  /\ g <= Len(bindings) /\ bindings[g] # None
  /\ bindings[g] = [head |-> e.head, tree |-> e.tree, plan |-> plan]
  /\ Current(e) \/ Committed([head |-> e.head, tree |-> e.tree, gen |-> g])

PhaseOf(s) == IF s = "finalize" THEN "final-review" ELSE "review"

(* requireGenerationForPipelinePhase: the generation was begun after its   *)
(* phase was entered.                                                      *)
Fresh(g, ph) ==
  /\ manifest # None /\ manifest.gen = g /\ manifest.phase = ph
  /\ manifest.entry = entry

(* getSealedVerificationGeneration.                                        *)
IsSealed(g, ph) ==
  /\ manifest # None /\ manifest.gen = g /\ manifest.phase = ph
  /\ manifest.status = "sealed" /\ manifest.records = Records(g)

(* loadCompletePackage, with validateReviewContext: every story passed on  *)
(* this tree.                                                              *)
Complete(g, ph) ==
  /\ IsSealed(g, ph) /\ manifest.tree = tree
  /\ head = bindings[g].head /\ BindingHolds(g, Evidence)
  /\ Unrecorded(g) = {} /\ Passed(g)

(* validateApprovalArtifact.                                               *)
Valid(a, ph) ==
  /\ a.phase = ph /\ IsSealed(a.gen, ph) /\ manifest.tree = a.tree
  /\ a.plan = plan /\ BindingHolds(a.gen, a)

----------------------------------------------------------------------------
(* Commands.                                                               *)

Do(p, c)    == cmd' = [cmd EXCEPT ![p] = c]
GoTo(p, s)  == cmd' = [cmd EXCEPT ![p].at = s]
Doing(p, s) == cmd[p].at = s
Return(p)   == /\ Do(p, NoCommand)
               /\ tickLock' = IF tickLock = p THEN None ELSE tickLock
CanLock(p)  == tickLock \in {None, p}

(* A command is given because the run needs it now, or for no reason.      *)
Give(p, needed) ==
  /\ Doing(p, "idle")
  /\ IF needed /\ p = scene.host THEN NoMishap ELSE May("any") /\ Spent

(* What the host goes by: is the current generation any good, and was its  *)
(* commit made already.                                                    *)
Bound(g) == g <= Len(bindings) /\ bindings[g] # None
Usable ==
  /\ manifest # None /\ Fresh(manifest.gen, PhaseOf(stage))
  /\ manifest.tree = tree /\ Passed(manifest.gen)
  /\ stage = "review" => manifest.gen = sealedBy
  /\ Bound(manifest.gen) =>
       bindings[manifest.gen] = [head |-> head, tree |-> tree, plan |-> plan]
Made ==
  /\ stage \in {"finalize", "done"} /\ Clean
  /\ \E a \in approvals : Committed(a) /\ Valid(a, "final-review")
Ready(ph) == {a \in approvals : Valid(a, ph) /\ Current(a)}

(* verification-start, with the id of the generation it is to supersede,   *)
(* or none.  In finalize it runs under the lock of the run, in verify only *)
(* its writes do.                                                          *)
Start(p, over) ==
  LET renew == ~Usable /\ ~Made IN
  /\ stage \in {"verify", "finalize"} /\ tickLock = None
  /\ Give(p, \/ renew /\ (over = 0 <=> manifest = None)
             \/ over = 0 /\ Usable /\ ~Bound(manifest.gen))
  /\ Do(p, [at |-> "begin", phase |-> PhaseOf(stage), over |-> over,
            e |-> Evidence, plan |-> plan])
  /\ tickLock' = IF stage = "finalize" THEN p ELSE tickLock
  /\ UNCHANGED <<scene, git, plan, progress, files>>

(* beginVerificationGeneration: resume the open generation of this tree,   *)
(* refuse another one, or replace it when its exact id is presented.       *)
IsOpen == manifest # None /\ manifest.status = "open"
(* Bug: presenting the id changes nothing while the tree is the same.      *)
Resumes_SameTree(c) == IsOpen /\ manifest.tree = c.e.tree /\ manifest.phase = c.phase
Resumes(c) ==
  /\ IsOpen /\ c.over # manifest.gen
  /\ manifest.tree = c.e.tree /\ manifest.phase = c.phase
Refuses(c) ==
  stage = "closed" \/ (IsOpen /\ c.over # manifest.gen /\ ~Resumes(c))

Begin(p) ==
  LET c == cmd[p]
      g == Len(bindings) + 1 IN
  /\ Doing(p, "begin") /\ CanLock(p)
  /\ IF Refuses(c)
     THEN Return(p) /\ UNCHANGED <<manifest, bindings>>
     ELSE IF Resumes(c)
     THEN /\ Do(p, [at |-> "bind", gen |-> manifest.gen, e |-> c.e, plan |-> c.plan])
          /\ UNCHANGED <<manifest, bindings, tickLock>>
     ELSE /\ manifest' = [gen |-> g, tree |-> c.e.tree, phase |-> c.phase,
                          entry |-> entry, status |-> "open", records |-> {}]
          /\ bindings' = Append(bindings, None)
          /\ Do(p, [at |-> "bind", gen |-> g, e |-> c.e, plan |-> c.plan])
          /\ UNCHANGED tickLock
  /\ UNCHANGED <<scene, mishaps, git, plan, progress, log, approvals>>

(* persistVerificationBinding creates the binding, which nobody replaces;  *)
(* one that exists is only compared.                                       *)
Bind(p) ==
  LET c == cmd[p] IN
  /\ Doing(p, "bind")
  /\ bindings' = IF bindings[c.gen] = None
                 THEN [bindings EXCEPT ![c.gen] =
                         [head |-> c.e.head, tree |-> c.e.tree, plan |-> c.plan]]
                 ELSE bindings
  /\ Return(p)
  /\ UNCHANGED <<scene, mishaps, git, plan, progress, manifest, log, approvals>>

(* verification-record, first the checks ...                               *)
Record(p, s, v) ==
  /\ stage \in {"verify", "finalize"} /\ tickLock = None
  /\ manifest # None /\ manifest.phase = PhaseOf(stage)
  /\ manifest.tree = tree /\ BindingHolds(manifest.gen, Evidence)
  /\ IF v = "fail" THEN Doing(p, "idle") /\ May("fail") /\ Spent
     ELSE Give(p, Usable /\ s \in Unrecorded(manifest.gen))
  /\ Do(p, [at |-> "append", story |-> s, verdict |-> v, gen |-> manifest.gen])
  /\ tickLock' = IF stage = "finalize" THEN p ELSE tickLock
  /\ UNCHANGED <<scene, git, plan, progress, files>>

(* ... then addVerification: one record per story, while the generation is *)
(* open and still the current one.                                         *)
Takes(c) == IsOpen /\ manifest.gen = c.gen /\ c.story \in Unrecorded(c.gen)
AddVerification(p) ==
  LET c == cmd[p] IN
  /\ Doing(p, "append") /\ CanLock(p)
  /\ log' = IF Takes(c) THEN log \cup {[gen |-> c.gen, story |-> c.story,
                                        verdict |-> c.verdict]}
            ELSE log
  /\ Return(p)
  /\ UNCHANGED <<scene, mishaps, git, plan, progress, manifest, bindings, approvals>>

(* sealVerificationGeneration: one record per story, whatever it says.     *)
SealRecords(g) ==
  /\ manifest # None /\ manifest.gen = g /\ Unrecorded(g) = {}
  /\ manifest' = IF manifest.status = "sealed" THEN manifest
                 ELSE [manifest EXCEPT !.status = "sealed", !.records = Records(g)]

(* verification-seal.                                                      *)
SealFinal(p) ==
  /\ stage = "finalize" /\ tickLock = None /\ manifest # None
  /\ Give(p, Usable /\ Bound(manifest.gen) /\ manifest.status = "open"
             /\ Unrecorded(manifest.gen) = {})
  /\ SealRecords(manifest.gen)
  /\ UNCHANGED <<scene, git, plan, progress, log, bindings, approvals, cmd, tickLock>>

(* complete-verification seals under the lock, proves the package complete *)
(* and completes verify.                                                   *)
CompleteVerification(p) ==
  /\ stage = "verify" /\ tickLock = None /\ manifest # None
  /\ Give(p, Usable /\ Bound(manifest.gen) /\ Unrecorded(manifest.gen) = {})
  /\ Fresh(manifest.gen, "review") /\ SealRecords(manifest.gen)
  /\ Do(p, [at |-> "prove", gen |-> manifest.gen]) /\ tickLock' = p
  /\ UNCHANGED <<scene, git, plan, progress, log, bindings, approvals>>
ProvePackage(p) ==
  /\ Doing(p, "prove")
  /\ IF Complete(cmd[p].gen, "review")
     THEN GoTo(p, "verified") /\ UNCHANGED tickLock ELSE Return(p)
  /\ UNCHANGED <<scene, mishaps, git, plan, progress, files>>
Verified(p) ==
  /\ Doing(p, "verified") /\ Return(p)
  /\ stage' = "review" /\ sealedBy' = cmd[p].gen
  /\ UNCHANGED <<scene, mishaps, git, plan, entry, final, files>>

(* approve-review, with results that approve.                              *)
Approve(p) ==
  LET ph == PhaseOf(stage) IN
  /\ stage \in {"review", "finalize"} /\ tickLock = None /\ manifest # None
  /\ Give(p, Usable /\ manifest.status = "sealed" /\ Ready(ph) = {})
  /\ Fresh(manifest.gen, ph)
  /\ ph = "review" => sealedBy = manifest.gen
  /\ Complete(manifest.gen, ph)
  /\ Do(p, [at |-> "approve",
            a |-> [phase |-> ph, gen |-> manifest.gen, head |-> head,
                   index |-> index, tree |-> tree, plan |-> plan]])
  /\ tickLock' = p
  /\ UNCHANGED <<scene, git, plan, progress, files>>
WriteApproval(p) ==
  /\ Doing(p, "approve") /\ approvals' = approvals \cup {cmd[p].a} /\ Return(p)
  /\ UNCHANGED <<scene, mishaps, git, plan, progress, manifest, log, bindings>>

(* complete-review, with the digest of an approval.                        *)
CompleteReview(p, a) ==
  /\ stage = "review" /\ tickLock = None
  /\ Give(p, a \in Ready("review"))
  /\ Valid(a, "review") /\ Current(a)
  /\ Do(p, [at |-> "reviewed"]) /\ tickLock' = p
  /\ UNCHANGED <<scene, git, plan, progress, files>>
Reviewed(p) ==
  /\ Doing(p, "reviewed") /\ Return(p)
  /\ stage' = "finalize" /\ entry' = entry + 1
  /\ UNCHANGED <<scene, mishaps, git, plan, sealedBy, final, files>>

(* reattempt: verify is entered again, with nothing of its last entry.     *)
Reattempt(p) ==
  /\ stage \in {"verify", "review", "finalize"} /\ tickLock = None
  /\ Give(p, stage = "review" /\ ~Usable)
  /\ stage' = "verify" /\ entry' = entry + 1 /\ sealedBy' = 0
  /\ UNCHANGED <<scene, git, plan, final, files, cmd, tickLock>>

----------------------------------------------------------------------------
(* complete-finalize, and finalize, which proves the same again before it  *)
(* closes the run.                                                         *)

CompleteFinalize(p, a) ==
  /\ stage \in {"finalize", "done"} /\ tickLock = None
  /\ Give(p, IF Made THEN Committed(a) ELSE a \in Ready("final-review"))
  /\ stage = "done" => a = final
  /\ Valid(a, "final-review")
  /\ Do(p, [at |-> "materialize", a |-> a]) /\ tickLock' = p
  /\ UNCHANGED <<scene, git, plan, progress, files>>

(* materializeApprovedReviewCommit: the commit that was made already is    *)
(* only looked at ...                                                      *)
Replay(p) ==
  /\ Doing(p, "materialize") /\ Committed(cmd[p].a)
  /\ IF Clean THEN GoTo(p, "confirm") /\ UNCHANGED tickLock ELSE Return(p)
  /\ UNCHANGED <<scene, mishaps, git, plan, progress, files>>
(* ... a new one is made of what the reviewers saw, if that is still there. *)
Prepare(p) ==
  /\ Doing(p, "materialize") /\ ~Committed(cmd[p].a)
  /\ IF Current(cmd[p].a)
     THEN /\ Do(p, [at |-> "commit", a |-> cmd[p].a, index |-> index])
          /\ UNCHANGED tickLock
     ELSE Return(p)
  /\ UNCHANGED <<scene, mishaps, git, plan, progress, files>>

(* git commit, from a temporary index, on top of whatever HEAD is now.     *)
(* Hooks may refuse, rewrite the message, stage something else, or take    *)
(* longer after the commit than the command waits.                         *)
GitCommit(p, hook, t) ==
  LET a == cmd[p].a IN
  /\ Doing(p, "commit")
  /\ IF hook = "none" THEN NoMishap ELSE May("hook") /\ Spent
  /\ t = a.tree <=> hook # "tree"
  /\ head' = CASE hook = "refuse"  -> head
               [] hook = "message" -> Append(head, [tree |-> t, by |-> <<"mutated", a.gen>>])
               [] hook = "tree"    -> Append(head, [tree |-> t, by |-> <<"hook", 0>>])
               [] OTHER            -> Append(head, [tree |-> t, by |-> <<"run", a.gen>>])
  /\ IF hook \in {"refuse", "late"} THEN Return(p)
     ELSE GoTo(p, "resolve") /\ UNCHANGED tickLock
  /\ UNCHANGED <<scene, index, tree, plan, progress, files>>

(* isRollbackSafeAttempt: HEAD is the attempt and nothing else, with more  *)
(* in its message than was approved.                                       *)
Attempt(a) == Append(a.head, [tree |-> a.tree, by |-> <<"mutated", a.gen>>])
Resolve(p) ==
  LET a == cmd[p].a IN
  /\ Doing(p, "resolve")
  /\ CASE Committed(a)      -> GoTo(p, "compare") /\ UNCHANGED tickLock
       [] head = Attempt(a) -> GoTo(p, "rollback") /\ UNCHANGED tickLock
       [] OTHER             -> Return(p)
  /\ UNCHANGED <<scene, mishaps, git, plan, progress, files>>

(* update-ref puts HEAD back, unless it has moved since.                   *)
(* Bug: the old value is not given to update-ref.                          *)
Unmoved_Unasked(a) == TRUE
Unmoved(a) == head = Attempt(a)
Rollback(p) ==
  LET a == cmd[p].a IN
  /\ Doing(p, "rollback") /\ head' = IF Unmoved(a) THEN a.head ELSE head
  /\ Return(p)
  /\ UNCHANGED <<scene, mishaps, index, tree, plan, progress, files>>

(* The index follows the commit, unless somebody has staged meanwhile.     *)
Compare(p) ==
  /\ Doing(p, "compare")
  /\ IF index = cmd[p].index THEN GoTo(p, "install") /\ UNCHANGED tickLock ELSE Return(p)
  /\ UNCHANGED <<scene, mishaps, git, plan, progress, files>>
Install(p) ==
  /\ Doing(p, "install") /\ index' = cmd[p].a.tree /\ GoTo(p, "confirm")
  /\ UNCHANGED <<scene, mishaps, head, tree, plan, progress, files, tickLock>>

Confirm(p) ==
  /\ Doing(p, "confirm")
  /\ IF Committed(cmd[p].a) /\ Clean THEN GoTo(p, "finalized") /\ UNCHANGED tickLock
     ELSE Return(p)
  /\ UNCHANGED <<scene, mishaps, git, plan, progress, files>>
Finalized(p) ==
  /\ Doing(p, "finalized") /\ Return(p)
  /\ stage' = IF stage = "done" THEN "closed" ELSE "done"
  /\ final' = cmd[p].a
  /\ UNCHANGED <<scene, mishaps, git, plan, entry, sealedBy, files>>

----------------------------------------------------------------------------
(* Everybody else.                                                         *)

Edit(t) ==
  /\ May("edit") /\ Spent /\ t # tree /\ tree' = t
  /\ UNCHANGED <<scene, head, index, plan, progress, files, cmd, tickLock>>
Stage ==
  /\ May("stage") /\ Spent /\ index # tree /\ index' = tree
  /\ UNCHANGED <<scene, head, tree, plan, progress, files, cmd, tickLock>>
UserCommit ==
  /\ May("commit") /\ Spent
  /\ head' = Append(head, [tree |-> index, by |-> <<"user", 0>>])
  /\ UNCHANGED <<scene, index, tree, plan, progress, files, cmd, tickLock>>
Replan ==
  /\ May("replan") /\ Spent /\ plan' = plan + 1
  /\ UNCHANGED <<scene, git, progress, files, cmd, tickLock>>
HostDies(p) ==
  /\ May("crash") /\ Spent /\ ~Doing(p, "idle") /\ Return(p)
  /\ UNCHANGED <<scene, git, plan, progress, files>>

Command(p) ==
  \/ \E over \in {0, Len(bindings)} : Start(p, over)
  \/ \E s \in Stories, v \in {"pass", "fail"} : Record(p, s, v)
  \/ SealFinal(p) \/ CompleteVerification(p) \/ Approve(p) \/ Reattempt(p)
  \/ \E a \in approvals : CompleteReview(p, a)
  \/ \E a \in approvals : CompleteFinalize(p, a)
GoOn(p) ==
  \/ Begin(p) \/ Bind(p) \/ AddVerification(p) \/ ProvePackage(p) \/ Verified(p)
  \/ WriteApproval(p) \/ Reviewed(p) \/ Replay(p) \/ Prepare(p)
  \/ \E h \in HookKinds, t \in Trees : GitCommit(p, h, t)
  \/ Resolve(p) \/ Rollback(p) \/ Compare(p) \/ Install(p) \/ Confirm(p)
  \/ Finalized(p)
Others ==
  \/ \E t \in Trees : Edit(t)
  \/ Stage \/ UserCommit \/ Replan
  \/ \E p \in Hosts : HostDies(p)

ReviewNext == Others \/ \E p \in Hosts : Command(p) \/ GoOn(p)
ReviewSpec == ReviewInit /\ [][ReviewNext]_reviewVars

(* A command that was begun goes on, and its host gives the commands the   *)
(* run needs.                                                              *)
Drive    == Command(scene.host)
ReviewFairness == WF_reviewVars(Drive) /\ \A p \in Hosts : WF_reviewVars(GoOn(p))
ReviewFairSpec == ReviewSpec /\ ReviewFairness

----------------------------------------------------------------------------
(* Properties                                                              *)

(* Somebody changed the repository or the plan after finalize was          *)
(* completed, or a verification-start that is as old as verify got through *)
(* only then: the run cannot be closed any more, nor go back.              *)
Overtaken ==
  stage = "done" /\ ~(Valid(final, "final-review") /\ Committed(final) /\ Clean)

(* A run whose host gives the commands it needs is closed in the end,      *)
(* whatever was changed or died on the way.                                *)
ReviewComesToAnEnd == <>[](stage = "closed" \/ Overtaken)

Round == IF manifest = None THEN None
         ELSE [number  |-> manifest.gen, phase |-> manifest.phase,
               subject |-> bindings[manifest.gen]]
RoundBegun == manifest # None /\ manifest.entry = entry
PassedStories ==
  IF manifest = None THEN {}
  ELSE {r.story : r \in {x \in Records(manifest.gen) : x.verdict = "pass"}}
Subject(a) == [head |-> a.head, tree |-> a.tree, plan |-> a.plan]
Approved == {Subject(a) : a \in {x \in approvals : x.gen = manifest.gen}}
Shipped == IF final = None THEN None ELSE Proposal(final)

Promise == INSTANCE ReviewPromise WITH
  history <- head, round <- Round, fresh <- RoundBegun, verified <- PassedStories,
  approved <- Approved, shipped <- Shipped

(* The files, the commands and Git keep the promise, whoever edits, stages,*)
(* commits or dies between two of their steps.                             *)
KeepsReview == Promise!Init /\ [][Promise!Next]_Promise!vars
=============================================================================
