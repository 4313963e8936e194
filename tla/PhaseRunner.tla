---------------------------- MODULE PhaseRunner ----------------------------
(***************************************************************************)
(* One Atlas or Athena run: its phase ledger (phase-runner.mjs), the       *)
(* counters that bound its loops (loop-guard.mjs, registerEscalation), the *)
(* fixed commands that drive it (orchestrator-runtime.mjs) and its verdict *)
(* (run-failure.mjs, finalizeRun of run-artifacts.mjs).                    *)
(*                                                                         *)
(* A command runs under the run's transition lock, so one is in flight at  *)
(* a time, and is cut into its durable writes: op says which write comes   *)
(* next, and a crash between two of them leaves only the files.  Only a    *)
(* policy rewind pays outside the lock, before it takes it: rewinders may  *)
(* be anywhere in their payment while other commands run.  The host        *)
(* decides which command comes next, also after a crash.                   *)
(***************************************************************************)
EXTENDS Naturals, FiniteSets

CONSTANTS Pipelines,   \* descriptors: ATLAS_PHASES, ATHENA_PHASES, policies
                       \* and caps of its loops and of its policy rewind
          Reasons,     \* reasons a reattempt may give
          Codes,       \* terminal failure codes
          Rewinders,   \* policy-rewind commands that may run at once
          MaxMishaps,  \* bound: commands killed, writes of the escalation log
                       \* that fail, rewinders that pay at once, and active
                       \* phases entered again
          Length,      \* for the promise: phases of the longest pipeline,
          Attempts,    \* attempts it may make
          Grants       \* and policy rewinds it may be granted

Loops    == {"review", "final-review", "cycle"}
Bound    == {"review", "final-review"}        \* ATTEMPT_BOUND_LOOP_KEYS
Counters == {"iterations", "quality"} \cup Loops
NoLoop   == "no loop"
NoReason == "no reason"
NoCode   == "no code"
Rewound  == "light_mode_rewind"
Optional == "skip reason"
None     == [kind |-> "none"]
Terminal == {"completed", "skipped"}
Statuses == {"pending", "in_progress", "failed"} \cup Terminal
OtherOps == {"idle", "event", "attempt", "reconcile", "commit", "failed",
              "marker", "verdict", "success", "announce", "release"}

(* Phases are numbered in the order of the sequence.                       *)
ASSUME PipelinesAssumption ==
  \A d \in Pipelines :
    /\ d.last \in Nat \ {0}
    /\ d.plan \in 1 .. d.last /\ d.attempt \in 1 .. d.last
    /\ d.recover \subseteq 1 .. d.last /\ d.skippable \subseteq 1 .. d.last
    /\ d.unfailable \subseteq 1 .. d.last /\ d.passed \subseteq 1 .. d.last
    /\ d.loop \in [1 .. d.last -> Loops \cup {NoLoop}]
    /\ d.reopens \in [Reasons -> SUBSET (1 .. d.last)]
ASSUME BoundsAssumption ==
  /\ MaxMishaps \in Nat
  /\ \A d \in Pipelines : d.cap \in [Counters -> Nat \ {0}] /\ d.rewinds \in Nat
ASSUME ReasonsAssumption ==
  /\ Reasons \cap ({NoReason, Rewound, Optional} \cup OtherOps) = {}
  /\ NoCode \notin Codes
ASSUME RewindersAssumption == IsFiniteSet(Rewinders)
ASSUME PromiseAssumption ==
  /\ Length \in Nat /\ Attempts \in Nat /\ Grants \in Nat
  /\ \A d \in Pipelines : /\ d.last <= Length
                          /\ d.cap["iterations"] <= Attempts
                          /\ d.rewinds <= Grants

VARIABLES pipe,       \* the descriptor of the run's orchestrator
          ledger,     \* pipeline.json
          cnt,        \* loop-guard.json
          rewinds,    \* escalation-log.json: policy rewinds a reader finds
          completed,  \* events.jsonl: completions, as <<phase, entry>>
          failures,   \* events.jsonl: failures, as <<phase, code>>
          closed,     \* events.jsonl ends with run_finalized
          summary,    \* verdict in summary.json, or "running"
          marker,     \* terminal-failure.json, as {} or {<<phase, code>>}
          pointer,    \* ao-active-run names the run
          prd,        \* .ao/prd.json: its version, and whether all stories pass
          snapshot,   \* version kept by execution-prd.snapshot, {} if none
          op,         \* the next write of the command in flight
          subject,    \* the phase that command completes
          rewinder,   \* how far a rewinder is, and what it read
          mishaps,    \* bound
          granted,    \* history: policy rewinds that were allowed
          lapsed,     \* history: one of them may be lost from the log
          undone,     \* history: rewinds of the ledger
          settled,    \* history: undone when a phase last became terminal
          graded      \* history: rewinds that had to pay for quality
files   == <<summary, marker, pointer, closed, snapshot>>
policy  == <<rewinds, rewinder, granted, lapsed>>
history == <<undone, settled, graded>>
vars == <<pipe, ledger, cnt, rewinds, completed, failures, closed, summary,
          marker, pointer, prd, snapshot, op, subject, rewinder, mishaps,
          granted, lapsed, undone, settled, graded>>

Phases == 1 .. pipe.last
Rest   == [at |-> "rest", seen |-> 0]

Init ==
  /\ pipe \in Pipelines
  /\ ledger = [status   |-> [p \in 1 .. pipe.last |-> "pending"],
               attempts |-> [p \in 1 .. pipe.last |-> 0],
               reason   |-> [p \in 1 .. pipe.last |-> NoReason],
               attempt  |-> 0,
               pending  |-> None,
               receipt  |-> None,
               code     |-> NoCode]
  /\ cnt = [c \in Counters |-> 0] /\ rewinds = 0
  /\ completed = {} /\ failures = {} /\ closed = FALSE
  /\ summary = "running" /\ marker = {} /\ pointer = TRUE
  /\ prd = [version |-> 0, passes |-> FALSE] /\ snapshot = {}
  /\ op = "idle" /\ subject = 0 /\ mishaps = 0
  /\ rewinder = [w \in Rewinders |-> Rest]
  /\ granted = 0 /\ lapsed = FALSE
  /\ undone = 0 /\ settled = [p \in 1 .. pipe.last |-> 0] /\ graded = 0

----------------------------------------------------------------------------
(* What the code reads off the ledger.                                     *)

Done(p)      == ledger.status[p] \in Terminal
Current(p)   == p \in Phases /\ ~Done(p) /\ \A q \in 1 .. (p - 1) : Done(q)
Active(p)    == Current(p) /\ ledger.status[p] = "in_progress"
Finished     == \A p \in Phases : Done(p)

(* currentAttemptHasLoopTick of the loop a phase must have ticked.         *)
Ticked(p) ==
  LET k == pipe.loop[p] IN
  k # NoLoop => /\ cnt[k] \in 1 .. pipe.cap[k]
                /\ k \in Bound => cnt[k] = ledger.attempts[p]

Rewindable(p, R) ==
  R # {} /\ \A q \in R : q <= p /\ (Done(q) \/ q = p)

ValidPending ==
  LET i == ledger.pending IN
  i # None => /\ i.base = ledger.attempt /\ i.base >= 1
              /\ i.target <= pipe.cap["iterations"]
              /\ Current(i.at)
              /\ Rewindable(i.at, i.reopen)
              /\ i.reason = "quality_fail" => i.quality < pipe.cap["quality"]

ValidReceipt ==
  LET i == ledger.receipt IN i # None => i.target <= ledger.attempt

(* REWIND_REASONS: the reasons for which a phase may be opened again.      *)
RewindReasons(p) ==
  {r \in Reasons : p \in pipe.reopens[r]}
    \cup (IF p = pipe.plan THEN {Rewound} ELSE {})

Coherent ==
  \A p \in Phases : Current(p) =>
    \/ \A q \in (p + 1) .. pipe.last : ledger.status[q] = "pending"
    \/ ledger.reason[p] \in RewindReasons(p)

(* validatePipelineLedgerIdentity: no command accepts another ledger.      *)
Readable == ValidPending /\ ValidReceipt /\ Coherent

(* An idle run whose commands are not refused from the start.              *)
Exact == op = "idle" /\ summary = "running" /\ pointer /\ Readable
(* Bug: a published failure does not keep the other commands away.         *)
Ready_Unmarked == Exact
Ready == Exact /\ marker = {}

----------------------------------------------------------------------------
(* Phases.                                                                 *)

SetStatus(p, s) == [ledger EXCEPT !.status[p] = s]

(* enterPhase.  Entering an active phase again counts another entry, unless *)
(* the phase recovers in place.                                            *)
EnterPhase(p) ==
  /\ Current(p)
  /\ \/ ledger.status[p] = "pending"
     \/ Active(p) /\ p \notin pipe.recover /\ mishaps < MaxMishaps
  /\ mishaps' = IF Active(p) THEN mishaps + 1 ELSE mishaps
  /\ ledger' = [SetStatus(p, "in_progress") EXCEPT !.attempts[p] = @ + 1]
  /\ UNCHANGED <<pipe, cnt, policy, completed, failures, prd, op, subject,
                 files, history>>

(* completePhase: the ledger first; the event is the next write.           *)
CompletePhase(p) ==
  /\ Active(p) /\ Ticked(p)
  /\ p \in pipe.passed => prd.passes
  /\ ledger' = SetStatus(p, "completed")
  /\ settled' = [settled EXCEPT ![p] = undone]
  /\ op' = "event" /\ subject' = p
  /\ UNCHANGED <<pipe, cnt, policy, completed, failures, prd, mishaps, files,
                 undone, graded>>

(* ensurePhaseCompletedEvent: a completion is appended once, and never     *)
(* behind that of a later phase unless the phase was declared to rewind.   *)
Recorded(p)   == <<p, ledger.attempts[p]>> \in completed
Appendable(p) ==
  \/ \E q \in Phases : ledger.reason[p] \in RewindReasons(q)
  \/ \A e \in completed : e[1] <= p

CompletionEvent ==
  /\ op = "event" /\ op' = "idle" /\ subject' = 0
  /\ completed' = IF Appendable(subject)
                  THEN completed \cup {<<subject, ledger.attempts[subject]>>}
                  ELSE completed
  /\ UNCHANGED <<pipe, ledger, cnt, policy, failures, prd, mishaps, files,
                 history>>

(* initPipeline on resume, complete on a completed phase: the first lost   *)
(* completion is repaired.                                                 *)
Resume(p) ==
  /\ ledger.status[p] = "completed"
  /\ ~Recorded(p) /\ Appendable(p)
  /\ \A q \in 1 .. (p - 1) : ledger.status[q] = "completed" => Recorded(q)
  /\ op' = "event" /\ subject' = p
  /\ UNCHANGED <<pipe, ledger, cnt, policy, completed, failures, prd, mishaps,
                 files, history>>

(* skipPhase asks for the current phase and a declared reason, not for its *)
(* status: a failed phase whose verdict is not published is skipped too.   *)
SkipPhase(p) ==
  /\ Current(p) /\ p \in pipe.skippable
  /\ ledger' = [SetStatus(p, "skipped") EXCEPT !.reason[p] = Optional,
                                               !.code = NoCode]
  /\ settled' = [settled EXCEPT ![p] = undone]
  /\ UNCHANGED <<pipe, cnt, policy, completed, failures, prd, op, subject,
                 mishaps, files, undone, graded>>

(* The work of the attempt phase is accepted, story by story.              *)
PassStories ==
  /\ pipe.passed # {} /\ Active(pipe.attempt)
  /\ ~prd.passes /\ prd' = [prd EXCEPT !.passes = TRUE]
  /\ UNCHANGED <<pipe, ledger, cnt, policy, completed, failures, op, subject,
                 mishaps, files, history>>

(* A new plan replaces the PRD while the plan phase is active.             *)
Plan ==
  /\ pipe.passed # {} /\ Active(pipe.plan)
  /\ prd.version < undone
  /\ prd' = [version |-> prd.version + 1, passes |-> FALSE]
  /\ UNCHANGED <<pipe, ledger, cnt, policy, completed, failures, op, subject,
                 mishaps, files, history>>

----------------------------------------------------------------------------
(* Counters.                                                               *)

(* beginAttempt: the first attempt is charged, then mirrored in the ledger. *)
BeginAttempt ==
  /\ Current(pipe.attempt) /\ ledger.attempt = 0
  /\ cnt["iterations"] < pipe.cap["iterations"]
  /\ cnt' = [cnt EXCEPT !["iterations"] = @ + 1]
  /\ op' = "attempt"
  /\ UNCHANGED <<pipe, ledger, policy, completed, failures, prd, subject,
                 mishaps, files, history>>
MirrorAttempt ==
  /\ op = "attempt" /\ op' = "idle"
  /\ ledger' = [ledger EXCEPT !.attempt = cnt["iterations"]]
  /\ UNCHANGED <<pipe, cnt, policy, completed, failures, prd, subject, mishaps,
                 files, history>>

(* loopTick: a review round belongs to one entry of its phase.             *)
LoopTick(p) ==
  LET k == pipe.loop[p] IN
  /\ Active(p) /\ k # NoLoop /\ cnt[k] < pipe.cap[k]
  /\ k \in Bound => cnt[k] + 1 = ledger.attempts[p]
  /\ cnt' = [cnt EXCEPT ![k] = @ + 1]
  /\ UNCHANGED <<pipe, ledger, policy, completed, failures, prd, op, subject,
                 mishaps, files, history>>

----------------------------------------------------------------------------
(* Reattempts: roll the stories back, write the intent, charge, commit.    *)

MinOf(R) == CHOOSE p \in R : \A q \in R : p <= q

(* The tail from the first reopened phase on starts over.                  *)
Tail(R) == {p \in Phases : \E q \in R : q <= p}
Reset(l, T, why) ==
  [l EXCEPT !.status = [p \in Phases |-> IF p \in T THEN "pending" ELSE @[p]],
            !.reason = [p \in Phases |-> IF p \in T THEN why ELSE @[p]],
            !.code   = NoCode]

(* replayCommittedReattempt: the reattempt that was just committed, asked  *)
(* for again, is answered from its receipt.                                *)
JustCommitted ==
  LET i == ledger.receipt IN
  /\ i # None /\ ledger.attempt = i.target
  /\ Current(MinOf(i.reopen))
  /\ ledger.status[MinOf(i.reopen)] \in {"pending", "in_progress"}
  /\ ledger.reason[MinOf(i.reopen)] = i.reason
Answered(r) ==
  /\ JustCommitted
  /\ \/ ledger.receipt.reason = r
     \/ ledger.status[MinOf(ledger.receipt.reopen)] = "pending"

MayReattempt(r) ==
  /\ ledger.pending = None /\ ~Answered(r) /\ ledger.attempt >= 1
  /\ \E p \in Phases :
       /\ Current(p) /\ Rewindable(p, pipe.reopens[r])
       /\ pipe.loop[p] \in Bound => Ticked(p)
  /\ cnt["iterations"] = ledger.attempt
  /\ cnt["iterations"] < pipe.cap["iterations"]
  /\ r = "quality_fail" => cnt["quality"] < pipe.cap["quality"]

(* _beforeRewind: the stories stop passing before anything is charged.     *)
RollBackStories(r) ==
  /\ MayReattempt(r) /\ op' = r
  /\ prd' = IF pipe.attempt \in pipe.reopens[r]
            THEN [prd EXCEPT !.passes = FALSE] ELSE prd
  /\ UNCHANGED <<pipe, ledger, cnt, policy, completed, failures, subject,
                 mishaps, files, history>>

Intent(r, p) == [reason  |-> r,
                 at      |-> p,
                 reopen  |-> pipe.reopens[r],
                 base    |-> cnt["iterations"],
                 target  |-> cnt["iterations"] + 1,
                 quality |-> cnt["quality"]]
WriteIntent ==
  /\ op \in Reasons /\ op' = "reconcile"
  /\ \E p \in Phases :
       Current(p) /\ ledger' = [ledger EXCEPT !.pending = Intent(op, p)]
  /\ UNCHANGED <<pipe, cnt, policy, completed, failures, prd, subject, mishaps,
                 files, history>>

(* The same request again takes a pending reattempt up where it was left.  *)
ResumeReattempt ==
  /\ ledger.pending # None /\ op' = "reconcile"
  /\ UNCHANGED <<pipe, ledger, cnt, policy, completed, failures, prd, subject,
                 mishaps, files, history>>

(* reconcilePendingCounter charges a counter that still has its base value. *)
IterationDue == cnt["iterations"] = ledger.pending.base
(* Bug: the base value kept in the intent is not compared.                 *)
QualityDue_Uncompared ==
  /\ ledger.pending.reason = "quality_fail"
  /\ cnt["quality"] < pipe.cap["quality"]
QualityDue ==
  /\ ledger.pending.reason = "quality_fail"
  /\ cnt["quality"] = ledger.pending.quality

ChargeQuality ==
  /\ op = "reconcile" /\ QualityDue
  /\ cnt' = [cnt EXCEPT !["quality"] = @ + 1]
  /\ UNCHANGED <<pipe, ledger, policy, completed, failures, prd, op, subject,
                 mishaps, files, history>>
ChargeIteration ==
  /\ op = "reconcile" /\ ~QualityDue /\ IterationDue
  /\ cnt' = [cnt EXCEPT !["iterations"] = @ + 1]
  /\ op' = "commit"
  /\ UNCHANGED <<pipe, ledger, policy, completed, failures, prd, subject,
                 mishaps, files, history>>

(* Bug: only the requested phases start over, the ones after them stay.    *)
Rewind_Requested(l, R, why) == Reset(l, R, why)
Rewind(l, R, why) == Reset(l, Tail(R), why)

CommitRewind ==
  LET i == ledger.pending IN
  /\ \/ op = "commit"
     \/ op = "reconcile" /\ ~QualityDue /\ ~IterationDue
  /\ ledger' = [Rewind(ledger, i.reopen, i.reason) EXCEPT
                  !.attempt = i.target, !.receipt = i, !.pending = None]
  /\ settled' = [p \in Phases |-> IF ledger'.status[p] \in Terminal
                                  THEN settled[p] ELSE 0]
  /\ undone' = undone + 1
  /\ graded' = IF i.reason = "quality_fail" THEN graded + 1 ELSE graded
  /\ op' = "idle"
  /\ UNCHANGED <<pipe, cnt, policy, completed, failures, prd, subject, mishaps,
                 files>>

(* policy-rewind does not take the lock until it reopens the plan.  It     *)
(* first registers an escalation: what it finds in the log, zero when the  *)
(* file is missing or torn, decides; nothing after that refuses.           *)
At(w, places) == rewinder[w].at \in places
Pass(w, next) == rewinder' = [rewinder EXCEPT ![w].at = next]
Paying(w)     == At(w, {"read", "truncated"})

AskRewind(w) ==
  /\ rewinder[w] = Rest
  /\ summary = "running" /\ pointer /\ Readable
  /\ rewinds < pipe.rewinds
  /\ \/ (\A v \in Rewinders : ~Paying(v)) /\ UNCHANGED <<mishaps, lapsed>>
     \/ mishaps < MaxMishaps /\ mishaps' = mishaps + 1 /\ lapsed' = TRUE
  /\ rewinder' = [rewinder EXCEPT ![w] = [at |-> "read", seen |-> rewinds]]
  /\ granted' = granted + 1
  /\ UNCHANGED <<pipe, ledger, cnt, rewinds, completed, failures, prd, op,
                 subject, files, history>>

(* The file is truncated and then written; an error of either is ignored.  *)
TruncateLog(w) ==
  /\ At(w, {"read"}) /\ Pass(w, "truncated")
  /\ rewinds' = 0
  /\ UNCHANGED <<pipe, ledger, cnt, completed, failures, prd, op, subject,
                 mishaps, granted, lapsed, files, history>>
WriteLog(w) ==
  /\ At(w, {"truncated"}) /\ Pass(w, "allowed")
  /\ rewinds' = rewinder[w].seen + 1
  /\ UNCHANGED <<pipe, ledger, cnt, completed, failures, prd, op, subject,
                 mishaps, granted, lapsed, files, history>>
LogFails(w) ==
  /\ Paying(w) /\ Pass(w, "allowed")
  /\ mishaps < MaxMishaps /\ mishaps' = mishaps + 1 /\ lapsed' = TRUE
  /\ UNCHANGED <<pipe, ledger, cnt, rewinds, completed, failures, prd, op,
                 subject, granted, files, history>>

(* reopenPhase takes the lock, or is refused while a command holds it; the *)
(* payment stays when the reopening is refused or lost.                    *)
ReopenPhase(w) ==
  LET q == pipe.plan IN
  /\ At(w, {"allowed"}) /\ rewinder' = [rewinder EXCEPT ![w] = Rest]
  /\ IF Ready /\ (Done(q) \/ Current(q))
     THEN /\ ledger' = Reset(ledger, Tail({q}), Rewound)
          /\ settled' = [p \in Phases |-> IF p >= q THEN 0 ELSE settled[p]]
          /\ undone' = undone + 1
     ELSE UNCHANGED <<ledger, settled, undone>>
  /\ UNCHANGED <<pipe, cnt, rewinds, completed, failures, prd, op, subject,
                 mishaps, granted, lapsed, files, graded>>

RewinderDies(w) ==
  /\ rewinder[w] # Rest /\ mishaps < MaxMishaps
  /\ rewinder' = [rewinder EXCEPT ![w] = Rest] /\ mishaps' = mishaps + 1
  /\ lapsed' = (lapsed \/ Paying(w))
  /\ UNCHANGED <<pipe, ledger, cnt, rewinds, completed, failures, prd, op,
                 subject, granted, files, history>>

----------------------------------------------------------------------------
(* Verdicts.                                                               *)

(* finalizeFailedRun, validatePipelineCut: everything before the failed    *)
(* phase is terminal, nothing after it was touched, and no other failure   *)
(* was published.  A failure is only accepted where it is not recoverable. *)
FailPhase(p, c) ==
  /\ Exact /\ p \notin pipe.unfailable /\ marker \subseteq {<<p, c>>}
  /\ Current(p) /\ \A q \in Phases : q > p => ledger.status[q] = "pending"
  /\ \/ Active(p) /\ marker = {}
     \/ ledger.status[p] = "failed" /\ ledger.code = c
  /\ ledger' = [SetStatus(p, "failed") EXCEPT !.code = c]
  /\ op' = "failed"
  /\ UNCHANGED <<pipe, cnt, policy, completed, failures, prd, subject, mishaps,
                 files, history>>
TheFailure == {<<p, ledger.code>> : p \in {q \in Phases : Current(q)}}
FailureEvent ==
  /\ op = "failed" /\ op' = "marker"
  /\ failures' = failures \cup TheFailure
  /\ UNCHANGED <<pipe, ledger, cnt, policy, completed, prd, subject, mishaps,
                 files, history>>
PublishMarker ==
  /\ op = "marker" /\ op' = "verdict"
  /\ marker' = TheFailure
  /\ UNCHANGED <<pipe, ledger, cnt, policy, completed, failures, summary,
                 pointer, closed, snapshot, prd, subject, mishaps, history>>
FailVerdict ==
  /\ op = "verdict" /\ op' = "announce" /\ summary' = "failure"
  /\ UNCHANGED <<pipe, ledger, cnt, policy, completed, failures, marker,
                 pointer, closed, snapshot, prd, subject, mishaps, history>>

(* isComplete: every phase terminal, every tick that of its last entry.    *)
IsComplete ==
  /\ Finished /\ ledger.attempt >= 1 /\ ledger.pending = None
  /\ cnt["iterations"] = ledger.attempt
  /\ \A p \in Phases : ledger.status[p] = "completed" =>
                         ledger.attempts[p] >= 1 /\ Ticked(p)

(* finalizeCompletedPipeline: the PRD of an Atlas run is kept first, once; *)
(* the evidence of the last phase is that its stories pass.                *)
HasPrd == pipe.passed # {}
KeepPrd ==
  /\ IsComplete /\ HasPrd /\ prd.passes /\ snapshot = {}
  /\ snapshot' = {prd.version} /\ op' = "success"
  /\ UNCHANGED <<pipe, ledger, cnt, policy, completed, failures, summary,
                 marker, pointer, closed, prd, subject, mishaps, history>>
Succeed ==
  /\ \/ op = "success"
     \/ /\ Ready /\ IsComplete
        /\ HasPrd => prd.passes /\ snapshot = {prd.version}
  /\ summary' = "success" /\ op' = "announce"
  /\ UNCHANGED <<pipe, ledger, cnt, policy, completed, failures, marker,
                 pointer, closed, snapshot, prd, subject, mishaps, history>>

(* finalizeRun after the summary: the event, then the active-run pointer.  *)
(* Bug: the pointer is cleared before the event that closes the log.       *)
Announce_Pointer ==
  /\ op = "announce" /\ pointer' = FALSE /\ op' = "release"
  /\ UNCHANGED <<pipe, ledger, cnt, policy, completed, failures, summary,
                 marker, closed, snapshot, prd, subject, mishaps, history>>
Announce ==
  /\ op = "announce" /\ closed' = TRUE /\ op' = "release"
  /\ UNCHANGED <<pipe, ledger, cnt, policy, completed, failures, summary,
                 marker, pointer, snapshot, prd, subject, mishaps, history>>
ReleasePointer ==
  /\ op = "release" /\ pointer' = FALSE /\ op' = "idle"
  /\ UNCHANGED <<pipe, ledger, cnt, policy, completed, failures, summary,
                 marker, closed, snapshot, prd, subject, mishaps, history>>

(* The same command again repairs a verdict whose announcement was lost.   *)
(* Bug: only the lost event is looked for, not the pointer left behind.    *)
Republish_EventOnly ==
  /\ op = "idle" /\ summary # "running" /\ ~closed
  /\ summary = "success" => IsComplete
  /\ op' = "announce"
  /\ UNCHANGED <<pipe, ledger, cnt, policy, completed, failures, prd, subject,
                 mishaps, files, history>>
Republish ==
  /\ op = "idle" /\ summary # "running" /\ (pointer \/ ~closed)
  /\ summary = "success" => IsComplete
  /\ op' = "announce"
  /\ UNCHANGED <<pipe, ledger, cnt, policy, completed, failures, prd, subject,
                 mishaps, files, history>>

----------------------------------------------------------------------------
(* The process of a command may die between any two of its writes.         *)
Crash ==
  /\ op # "idle" /\ mishaps < MaxMishaps
  /\ mishaps' = mishaps + 1 /\ op' = "idle" /\ subject' = 0
  /\ UNCHANGED <<pipe, ledger, cnt, policy, completed, failures, prd, files,
                 history>>

(* The commands that a published failure keeps away all begin with Ready.  *)
Progress ==
  /\ Ready
  /\ \/ \E p \in Phases : EnterPhase(p) \/ CompletePhase(p) \/ SkipPhase(p)
                          \/ Resume(p) \/ LoopTick(p)
     \/ \E r \in Reasons : RollBackStories(r)
     \/ PassStories \/ Plan \/ BeginAttempt \/ ResumeReattempt
     \/ KeepPrd
Command ==
  \/ Progress \/ Succeed \/ Republish
  \/ \E p \in Phases, c \in Codes : FailPhase(p, c)
  \/ \E w \in Rewinders : AskRewind(w)
Write ==
  \/ CompletionEvent \/ MirrorAttempt \/ WriteIntent \/ ChargeQuality
  \/ ChargeIteration \/ CommitRewind \/ FailureEvent \/ PublishMarker
  \/ FailVerdict \/ Announce \/ ReleasePointer
  \/ \E w \in Rewinders : TruncateLog(w) \/ WriteLog(w) \/ ReopenPhase(w)
Mishap ==
  \/ Crash
  \/ \E w \in Rewinders : LogFails(w) \/ RewinderDies(w)

Next == Command \/ Write \/ Mishap
Spec == Init /\ [][Next]_vars
FairSpec == Spec /\ WF_vars(Command \/ Write)

----------------------------------------------------------------------------
(* Properties.                                                             *)

Intents == {None} \cup
  [reason: Reasons, at: Phases, reopen: SUBSET Phases,
   base: Nat, target: Nat, quality: Nat]
Ledgers ==
  [status   : [Phases -> Statuses],
   attempts : [Phases -> Nat],
   reason   : [Phases -> Reasons \cup {NoReason, Rewound, Optional}],
   attempt  : Nat,
   pending  : Intents,
   receipt  : Intents,
   code     : Codes \cup {NoCode}]
Ops == OtherOps \cup Reasons
Rewinding ==
  {Rest} \cup [at : {"read", "truncated", "allowed"}, seen : 0 .. pipe.rewinds - 1]

(* Every file and every history variable has its type.                     *)
TypeOK ==
  /\ pipe \in Pipelines
  /\ ledger \in Ledgers
  /\ cnt \in [Counters -> Nat] /\ \A c \in Counters : cnt[c] <= pipe.cap[c]
  /\ rewinds \in 0 .. pipe.rewinds /\ granted \in Nat /\ lapsed \in BOOLEAN
  /\ rewinder \in [Rewinders -> Rewinding] /\ mishaps \in 0 .. MaxMishaps
  /\ completed \subseteq Phases \X Nat /\ failures \subseteq Phases \X Codes
  /\ marker \subseteq Phases \X Codes /\ snapshot \subseteq Nat
  /\ summary \in {"running", "success", "failure"}
  /\ closed \in BOOLEAN /\ pointer \in BOOLEAN
  /\ prd \in [version: Nat, passes: BOOLEAN]
  /\ op \in Ops /\ subject \in 0 .. pipe.last
  /\ undone \in Nat /\ graded \in Nat /\ settled \in [Phases -> Nat]

(* Nothing that was finished before a rewind survives behind work done     *)
(* after it: of two terminal phases the later one is not the older.  This  *)
(* is what lets a verdict rest on the tail of the ledger alone.            *)
TailIsFresh ==
  \A p, q \in Phases : p < q /\ Done(p) /\ Done(q) => settled[p] <= settled[q]

(* A reattempt that was cut off and asked for again, however often, is     *)
(* charged once: both counters are those of the committed rewinds, plus    *)
(* that of the intent that is still pending.                               *)
ChargedOnce ==
  LET due(c, r) == IF ledger.pending # None /\ ledger.pending.reason \in r
                   THEN {c, c + 1} ELSE {c} IN
  /\ ledger.attempt >= 1
       => cnt["iterations"] \in due(ledger.attempt, Reasons)
  /\ cnt["quality"] \in due(graded, {"quality_fail"})

(* Whatever is published rests on something durable: a failure marker on   *)
(* the ledger and its event, a verdict on its marker or on a complete      *)
(* ledger, the closing event on a verdict, and the free pointer on all.    *)
VerdictIsBacked ==
  /\ \A f \in marker : /\ summary # "success" /\ f \in failures
                       /\ Current(f[1]) /\ ledger.status[f[1]] = "failed"
                       /\ ledger.code = f[2]
  /\ summary = "failure" => marker # {}
  /\ summary = "success" => IsComplete
  /\ closed => summary # "running"
  /\ ~pointer => closed

(* The run keeps the promise of RunPromise.  Its budget of policy rewinds  *)
(* is promised until the log, which is read and written without a lock,    *)
(* may have lost one: two commands paid at once, a write failed, or a      *)
(* command was killed before its write.  Attempts have no such exception.  *)
Remaining == Cardinality({p \in Phases : ~Done(p)})
Verdict   == IF marker # {} THEN "failure"
             ELSE IF summary = "success" THEN "success" ELSE "none"
Promise == INSTANCE RunPromise WITH
  left     <- Remaining,
  attempts <- cnt["iterations"],
  grants   <- granted,
  lapsed   <- lapsed,
  undone   <- undone,
  verdict  <- Verdict
KeepsPromise == Promise!Spec

(* Three ways for a run to stop: its verdict is out; the ledger is refused *)
(* by every command; or every phase is done, the verdict is refused and    *)
(* nothing is left to step back with.                                      *)
Ended == summary # "running" /\ closed /\ ~pointer
Refused == op = "idle" /\ ~Readable
Stranded ==
  /\ Ready /\ Finished /\ rewinds = pipe.rewinds
  /\ \A w \in Rewinders : rewinder[w] = Rest
  /\ ~(IsComplete /\ (HasPrd => prd.passes /\ snapshot \subseteq {prd.version}))

(* A host that keeps issuing commands gets the run to one of them, through *)
(* every crash: no command refuses forever what is half done.              *)
RunEnds == <>(Ended \/ Refused \/ Stranded)

=============================================================================
