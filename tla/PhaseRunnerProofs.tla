------------------------- MODULE PhaseRunnerProofs -------------------------
(***************************************************************************)
(* For every pipeline, any caps, reasons and codes, and any number of      *)
(* commands killed: types are kept, the tail of the ledger is fresh, every *)
(* reattempt is charged once, what is published is backed, and the run     *)
(* keeps its promise.                                                      *)
(***************************************************************************)
EXTENDS PhaseRunner, FiniteSetTheorems, TLAPS

Publishing == {"failed", "marker", "verdict"}
Afterwards == {"announce", "release"}

(* Phases become terminal in order, and at a time that has come.           *)
InOrder ==
  /\ \A p, q \in Phases : p < q /\ Done(q) => Done(p)
  /\ \A p \in Phases : settled[p] <= undone
  /\ TailIsFresh

(* What the next write of a command relies on.                             *)
Underway ==
  /\ op = "event" => subject \in Phases
  /\ op = "attempt" => ledger.attempt = 0 /\ cnt["iterations"] >= 1
  /\ op \in Reasons =>
       /\ ledger.pending = None /\ ledger.attempt >= 1
       /\ cnt["iterations"] < pipe.cap["iterations"]
       /\ op = "quality_fail" => cnt["quality"] < pipe.cap["quality"]
  /\ op \in {"reconcile", "commit"} => ledger.pending # None
  /\ op = "commit" =>
       /\ cnt["iterations"] = ledger.pending.target
       /\ ledger.pending.reason = "quality_fail" =>
            cnt["quality"] = ledger.pending.quality + 1
  /\ op = "success" => IsComplete

(* The counters while no reattempt is pending, and while one is.           *)
Counted ==
  LET i == ledger.pending IN
  /\ i = None =>
       /\ cnt["quality"] = graded
       /\ ledger.attempt >= 1 => cnt["iterations"] = ledger.attempt
  /\ i # None =>
       /\ i.base = ledger.attempt /\ i.base >= 1
       /\ i.target = i.base + 1 /\ i.target <= pipe.cap["iterations"]
       /\ cnt["iterations"] \in {i.base, i.target}
       /\ i.reason # "quality_fail" => cnt["quality"] = graded
       /\ i.reason = "quality_fail" =>
            /\ i.quality = graded /\ i.quality < pipe.cap["quality"]
            /\ cnt["quality"] \in {i.quality, i.quality + 1}

(* Every step back was paid, and those that may still come of a grant too. *)
Owed == {w \in Rewinders : rewinder[w] # Rest}
Paid == undone + Cardinality(Owed) <= ledger.attempt + granted

(* Until the account lapses one rewinder pays at a time, and the log, or   *)
(* what that one read in it, tells how many rewinds were granted.          *)
Account ==
  ~lapsed =>
    /\ \A v, w \in Rewinders : Paying(v) /\ Paying(w) => v = w
    /\ \A w \in Rewinders : Paying(w) => granted = rewinder[w].seen + 1
    /\ (\A w \in Rewinders : ~Paying(w)) => granted = rewinds

(* What a verdict in the making, or one that was published, rests on.      *)
Published ==
  /\ marker # {} \/ summary # "running" =>
       op \in {"idle"} \cup Publishing \cup Afterwards
  /\ op \in Publishing =>
       /\ summary = "running"
       /\ \E p \in Phases :
            /\ Current(p) /\ ledger.status[p] = "failed" /\ ledger.code \in Codes
            /\ marker \subseteq {<<p, ledger.code>>}
            /\ op # "failed" => <<p, ledger.code>> \in failures
            /\ op = "verdict" => marker # {}
  /\ op \in Afterwards => summary # "running"
  /\ op = "release" => closed
  /\ VerdictIsBacked

IInv ==
  TypeOK /\ InOrder /\ Underway /\ Counted /\ Paid /\ Account /\ Published

----------------------------------------------------------------------------

LEMMA PipeFacts ==
  ASSUME pipe \in Pipelines
  PROVE  /\ pipe.last \in Nat \ {0} /\ Phases \subseteq Nat
         /\ pipe.plan \in Phases /\ pipe.attempt \in Phases
         /\ pipe.cap \in [Counters -> Nat \ {0}] /\ pipe.rewinds \in Nat
         /\ pipe.reopens \in [Reasons -> SUBSET Phases]
         /\ pipe.loop \in [Phases -> Loops \cup {NoLoop}]
  BY PipelinesAssumption, BoundsAssumption DEF Phases

LEMMA PipeFixed ==
  ASSUME [Next]_vars
  PROVE  /\ pipe' = pipe /\ Phases' = Phases
         /\ Intents' = Intents /\ Ledgers' = Ledgers
         /\ Rewinding' = Rewinding
<1>1. pipe' = pipe
  BY DEF Next, Command, Progress, Write, Crash, vars, files, history,
     EnterPhase, CompletePhase, SkipPhase, Resume, LoopTick,
     RollBackStories, FailPhase, PassStories, Plan, BeginAttempt, ResumeReattempt,
     AskRewind, TruncateLog, WriteLog, LogFails, RewinderDies, Mishap, KeepPrd,
     Succeed, Republish, CompletionEvent, MirrorAttempt, WriteIntent, ChargeQuality,
     ChargeIteration, CommitRewind, ReopenPhase, FailureEvent, PublishMarker,
     FailVerdict, Announce, ReleasePointer
<1>2. QED
  BY <1>1 DEF Phases, Intents, Ledgers, Rewinding

LEMMA IntentIsSome == \A r, p : Intent(r, p) # None
<1> SUFFICES ASSUME NEW r, NEW p, Intent(r, p) = None PROVE FALSE
  OBVIOUS
<1>1. "reason" \in DOMAIN Intent(r, p)
  BY DEF Intent
<1>2. "reason" \notin DOMAIN None
  BY DEF None
<1>3. QED
  BY <1>1, <1>2

LEMMA Reopened ==
  ASSUME NEW l \in Ledgers, NEW T, NEW why
  PROVE  /\ Reset(l, T, why).attempt = l.attempt
         /\ Reset(l, T, why).pending = l.pending
  BY DEF Reset, Ledgers

LEMMA ResetType ==
  ASSUME NEW l \in Ledgers, NEW T, NEW why \in Reasons \cup {Rewound}
  PROVE  /\ Reset(l, T, why) \in Ledgers
         /\ Reset(l, T, why).status
              = [p \in Phases |-> IF p \in T THEN "pending" ELSE l.status[p]]
<1> DEFINE st == [p \in Phases |-> IF p \in T THEN "pending" ELSE l.status[p]]
           re == [p \in Phases |-> IF p \in T THEN why ELSE l.reason[p]]
<1>1. Reset(l, T, why) = [l EXCEPT !.status = st, !.reason = re, !.code = NoCode]
  BY DEF Reset, Ledgers
<1>2. st \in [Phases -> Statuses]
  BY DEF Ledgers, Statuses
<1>3. re \in [Phases -> Reasons \cup {NoReason, Rewound, Optional}]
  BY DEF Ledgers
<1>4. QED
  BY <1>1, <1>2, <1>3 DEF Ledgers

LEMMA TypeStep == IInv /\ [Next]_vars => TypeOK'
<1> SUFFICES ASSUME IInv, [Next]_vars PROVE TypeOK'
  OBVIOUS
<1>1. /\ pipe' = pipe /\ Phases' = Phases /\ Intents' = Intents
      /\ Ledgers' = Ledgers /\ Rewinding' = Rewinding
  BY PipeFixed
<1>2. /\ pipe.last \in Nat \ {0} /\ Phases \subseteq Nat /\ Phases = 1 .. pipe.last
      /\ pipe.cap \in [Counters -> Nat \ {0}] /\ pipe.rewinds \in Nat
      /\ pipe.reopens \in [Reasons -> SUBSET Phases]
      /\ pipe.loop \in [Phases -> Loops \cup {NoLoop}]
  BY PipeFacts DEF IInv, TypeOK, Phases
<1>3. MaxMishaps \in Nat
  BY BoundsAssumption
<1>4. QED
  <2>1. ASSUME NEW p \in Phases, EnterPhase(p) PROVE TypeOK'
    <3>1. ledger' \in Ledgers
      <4>1. SetStatus(p, "in_progress") \in Ledgers
        BY DEF IInv, TypeOK, Ledgers, SetStatus, Statuses
      <4>2. QED
        BY <2>1, <4>1 DEF EnterPhase, Ledgers
    <3>2. mishaps' \in 0 .. MaxMishaps
      BY <1>3, <2>1 DEF IInv, TypeOK, EnterPhase, Active
    <3>3. QED
      BY <1>1, <2>1, <3>1, <3>2 DEF IInv, TypeOK, EnterPhase, policy, files, history
  <2>2. ASSUME NEW p \in Phases, CompletePhase(p) PROVE TypeOK'
    <3>1. ledger' \in Ledgers
      BY <1>1, <1>2, <2>2 DEF IInv, TypeOK, CompletePhase, Ledgers, SetStatus,
         Statuses, Terminal
    <3>2. QED
      BY <1>1, <1>2, <1>3, <2>2, <3>1, SMTT(30) DEF IInv, TypeOK, CompletePhase, policy,
         files, history, Ops, OtherOps
  <2>3. ASSUME NEW p \in Phases, SkipPhase(p) PROVE TypeOK'
    <3>1. ledger' \in Ledgers
      BY <1>1, <1>2, <2>3 DEF IInv, TypeOK, SkipPhase, Ledgers, SetStatus, Statuses,
         Terminal
    <3>2. QED
      BY <1>1, <1>2, <1>3, <2>3, <3>1 DEF IInv, TypeOK, SkipPhase, policy, files,
         history, Ops, OtherOps
  <2>4. ASSUME NEW p \in Phases, Resume(p) PROVE TypeOK'
    BY <1>1, <1>2, <1>3, <2>4 DEF IInv, TypeOK, Resume, policy, files, history, Ops,
       OtherOps
  <2>5. ASSUME NEW p \in Phases, LoopTick(p) PROVE TypeOK'
    <3>1. cnt' \in [Counters -> Nat] /\ \A k \in Counters : cnt'[k] <= pipe.cap[k]
      <4>1. pipe.loop[p] \in Counters
        BY <1>2, <2>5 DEF LoopTick, Counters
      <4>2. QED
        BY <1>2, <2>5, <4>1, SMTT(30) DEF IInv, TypeOK, LoopTick
    <3>2. QED
      BY <1>1, <1>2, <1>3, <2>5, <3>1 DEF IInv, TypeOK, LoopTick, policy, files,
         history, Ops, OtherOps
  <2>6. ASSUME NEW r \in Reasons, RollBackStories(r) PROVE TypeOK'
    BY <1>1, <1>2, <1>3, <2>6 DEF IInv, TypeOK, RollBackStories, policy, files,
       history, Ops, OtherOps
  <2>7. ASSUME NEW p \in Phases, NEW c \in Codes, FailPhase(p, c) PROVE TypeOK'
    <3>1. ledger' \in Ledgers
      BY <1>1, <1>2, <2>7 DEF IInv, TypeOK, FailPhase, Ledgers, SetStatus, Statuses
    <3>2. QED
      BY <1>1, <1>2, <1>3, <2>7, <3>1 DEF IInv, TypeOK, FailPhase, policy, files,
         history, Ops, OtherOps
  <2>8. ASSUME PassStories PROVE TypeOK'
    BY <1>1, <1>2, <1>3, <2>8 DEF IInv, TypeOK, PassStories, policy, files, history,
       Ops, OtherOps
  <2>9. ASSUME Plan PROVE TypeOK'
    BY <1>1, <1>2, <1>3, <2>9 DEF IInv, TypeOK, Plan, policy, files, history, Ops, OtherOps
  <2>10. ASSUME BeginAttempt PROVE TypeOK'
    <3>1. cnt' \in [Counters -> Nat] /\ \A k \in Counters : cnt'[k] <= pipe.cap[k]
      <4>1. /\ cnt \in [Counters -> Nat] /\ \A k \in Counters : cnt[k] <= pipe.cap[k]
            /\ "iterations" \in Counters
        BY DEF IInv, TypeOK, Counters
      <4>2. QED
        BY <1>2, <2>10, <4>1 DEF BeginAttempt
    <3>2. QED
      BY <1>1, <1>2, <1>3, <2>10, <3>1 DEF IInv, TypeOK, BeginAttempt, policy,
         files, history, Ops, OtherOps
  <2>11. ASSUME ResumeReattempt PROVE TypeOK'
    BY <1>1, <1>2, <1>3, <2>11 DEF IInv, TypeOK, ResumeReattempt, policy, files,
       history, Ops, OtherOps
  <2>12. ASSUME NEW w \in Rewinders, AskRewind(w) PROVE TypeOK'
    <3>1. rewinder' \in [Rewinders -> Rewinding]
      BY <1>2, <2>12 DEF IInv, TypeOK, AskRewind, Rewinding
    <3>2. mishaps' \in 0 .. MaxMishaps /\ granted' \in Nat /\ lapsed' \in BOOLEAN
      <4>1. mishaps \in 0 .. MaxMishaps /\ granted \in Nat /\ lapsed \in BOOLEAN
        BY DEF IInv, TypeOK
      <4>2. granted' = granted + 1 /\ lapsed' \in {lapsed, TRUE}
        BY <2>12 DEF AskRewind
      <4>3. mishaps' \in 0 .. MaxMishaps
        BY <1>3, <2>12, <4>1 DEF AskRewind
      <4>4. lapsed' \in BOOLEAN
        BY <4>1, <4>2
      <4>5. QED
        BY <4>1, <4>2, <4>3, <4>4
    <3>3. QED
      BY <1>1, <2>12, <3>1, <3>2 DEF IInv, TypeOK, AskRewind, files, history, Rewinding
  <2>13. ASSUME KeepPrd PROVE TypeOK'
    BY <1>1, <1>2, <1>3, <2>13 DEF IInv, TypeOK, KeepPrd, policy, files, history,
       Ops, OtherOps
  <2>14. ASSUME Succeed PROVE TypeOK'
    BY <1>1, <1>2, <1>3, <2>14 DEF IInv, TypeOK, Succeed, policy, files, history,
       Ops, OtherOps
  <2>15. ASSUME Republish PROVE TypeOK'
    BY <1>1, <1>2, <1>3, <2>15 DEF IInv, TypeOK, Republish, policy, files, history,
       Ops, OtherOps
  <2>16. ASSUME CompletionEvent PROVE TypeOK'
    <3>1. completed' \subseteq Phases \X Nat
      BY <2>16 DEF IInv, TypeOK, CompletionEvent, Underway, Ledgers
    <3>2. QED
      BY <1>1, <1>2, <2>16, <3>1 DEF IInv, TypeOK, CompletionEvent, policy, files,
         history, Ops, OtherOps
  <2>17. ASSUME MirrorAttempt PROVE TypeOK'
    <3>1. ledger' \in Ledgers
      BY <1>1, <1>2, <2>17 DEF IInv, TypeOK, MirrorAttempt, Ledgers, Counters
    <3>2. QED
      BY <1>1, <1>2, <1>3, <2>17, <3>1 DEF IInv, TypeOK, MirrorAttempt, policy,
         files, history, Ops, OtherOps
  <2>18. ASSUME WriteIntent PROVE TypeOK'
    <3>0. ASSUME NEW p \in Phases PROVE Intent(op, p) \in Intents
      BY <1>2, <2>18, <3>0, SMTT(30) DEF IInv, TypeOK, WriteIntent, Intent, Intents, Counters
    <3>1. ledger' \in Ledgers
      BY <1>1, <1>2, <3>0, <2>18 DEF IInv, TypeOK, WriteIntent, Ledgers
    <3>2. QED
      BY <1>1, <1>2, <1>3, <2>18, <3>1 DEF IInv, TypeOK, WriteIntent, policy, files,
         history, Ops, OtherOps
  <2>19. ASSUME ChargeQuality PROVE TypeOK'
    <3>1. cnt' \in [Counters -> Nat] /\ \A k \in Counters : cnt'[k] <= pipe.cap[k]
      <4>1. "quality" \in Counters /\ cnt["quality"] < pipe.cap["quality"]
        BY <2>19 DEF IInv, ChargeQuality, QualityDue, Underway, Counted, Counters
      <4>2. QED
        BY <1>2, <2>19, <4>1 DEF IInv, TypeOK, ChargeQuality
    <3>2. QED
      BY <1>1, <1>2, <1>3, <2>19, <3>1 DEF IInv, TypeOK, ChargeQuality, policy,
         files, history, Ops, OtherOps
  <2>20. ASSUME ChargeIteration PROVE TypeOK'
    <3>1. cnt' \in [Counters -> Nat] /\ \A k \in Counters : cnt'[k] <= pipe.cap[k]
      BY <1>2, <2>20, SMTT(30) DEF IInv, TypeOK, ChargeIteration, IterationDue, Counted,
         Underway, Counters
    <3>2. QED
      BY <1>1, <1>2, <1>3, <2>20, <3>1 DEF IInv, TypeOK, ChargeIteration, policy,
         files, history, Ops, OtherOps
  <2>21. ASSUME CommitRewind PROVE TypeOK'
    <3> DEFINE i == ledger.pending
               l == Rewind(ledger, i.reopen, i.reason)
    <3>1. i \in Intents /\ i.reason \in Reasons /\ i.target \in Nat /\ None \in Intents
      BY <2>21 DEF IInv, TypeOK, Underway, CommitRewind, Ledgers, Intents
    <3>2. l \in Ledgers
      BY <3>1, ResetType DEF IInv, TypeOK, Rewind
    <3>3. ledger' = [l EXCEPT !.attempt = i.target, !.receipt = i, !.pending = None]
      BY <2>21 DEF CommitRewind
    <3>4. ledger' \in Ledgers
      BY <3>1, <3>2, <3>3 DEF Ledgers
    <3>5. settled' \in [Phases -> Nat] /\ undone' \in Nat /\ graded' \in Nat
      BY <1>1, <2>21 DEF IInv, TypeOK, CommitRewind
    <3>6. QED
      BY <1>1, <2>21, <3>4, <3>5 DEF IInv, TypeOK, CommitRewind, policy, files, Ops,
         OtherOps
  <2>22. ASSUME NEW w \in Rewinders, ReopenPhase(w) PROVE TypeOK'
    <3>0. rewinder' \in [Rewinders -> Rewinding]
      BY <2>22 DEF IInv, TypeOK, ReopenPhase, Rewinding
    <3>1. Reset(ledger, Tail({pipe.plan}), Rewound) \in Ledgers
      BY ResetType DEF IInv, TypeOK
    <3>2. ledger' \in Ledgers /\ settled' \in [Phases -> Nat] /\ undone' \in Nat
      BY <1>1, <2>22, <3>1 DEF IInv, TypeOK, ReopenPhase
    <3>3. QED
      BY <1>1, <2>22, <3>0, <3>2 DEF IInv, TypeOK, ReopenPhase, files, Rewinding
  <2>23. ASSUME FailureEvent PROVE TypeOK'
    <3>1. TheFailure \subseteq Phases \X Codes
      BY <2>23 DEF IInv, FailureEvent, Published, Publishing, TheFailure
    <3>2. QED
      BY <1>1, <2>23, <3>1 DEF IInv, TypeOK, FailureEvent, policy, files, history,
         Ops, OtherOps
  <2>24. ASSUME PublishMarker PROVE TypeOK'
    <3>1. TheFailure \subseteq Phases \X Codes
      <4>1. ledger.code \in Codes
        BY <2>24 DEF IInv, PublishMarker, Published, Publishing
      <4>2. QED
        BY <4>1 DEF TheFailure
    <3>2. QED
      BY <1>1, <2>24, <3>1 DEF IInv, TypeOK, PublishMarker, policy, history, Ops, OtherOps
  <2>25. ASSUME FailVerdict PROVE TypeOK'
    BY <1>1, <1>2, <1>3, <2>25 DEF IInv, TypeOK, FailVerdict, policy, files,
       history, Ops, OtherOps
  <2>26. ASSUME Announce PROVE TypeOK'
    BY <1>1, <1>2, <1>3, <2>26 DEF IInv, TypeOK, Announce, policy, files, history,
       Ops, OtherOps
  <2>27. ASSUME ReleasePointer PROVE TypeOK'
    BY <1>1, <1>2, <1>3, <2>27 DEF IInv, TypeOK, ReleasePointer, policy, files,
       history, Ops, OtherOps
  <2>28. ASSUME Crash PROVE TypeOK'
    BY <1>1, <1>2, <1>3, <2>28 DEF IInv, TypeOK, Crash, policy, files, history, Ops,
       OtherOps
  <2>29. ASSUME UNCHANGED vars PROVE TypeOK'
    BY <1>1, <1>2, <1>3, <2>29 DEF IInv, vars, policy, files, history, TypeOK
  <2>30. ASSUME NEW w \in Rewinders, TruncateLog(w) PROVE TypeOK'
    <3>1. rewinder[w] \in Rewinding /\ rewinder[w].at = "read" /\ Rest.at = "rest"
      BY <2>30 DEF IInv, TypeOK, TruncateLog, At, Rest
    <3>2. [rewinder[w] EXCEPT !.at = "truncated"] \in Rewinding
      BY <3>1 DEF Rewinding
    <3>3. rewinder' \in [Rewinders -> Rewinding]
      BY <2>30, <3>2 DEF IInv, TypeOK, TruncateLog, Pass
    <3>4. rewinds' \in 0 .. pipe.rewinds
      BY <1>2, <2>30 DEF TruncateLog
    <3>5. QED
      BY <1>1, <2>30, <3>3, <3>4 DEF IInv, TypeOK, TruncateLog, files, history, Rewinding
  <2>31. ASSUME NEW w \in Rewinders, WriteLog(w) PROVE TypeOK'
    <3>1. rewinder[w] \in Rewinding /\ rewinder[w].at = "truncated" /\ Rest.at = "rest"
      BY <2>31 DEF IInv, TypeOK, WriteLog, At, Rest
    <3>2. /\ [rewinder[w] EXCEPT !.at = "allowed"] \in Rewinding
          /\ rewinder[w].seen \in 0 .. pipe.rewinds - 1
      BY <3>1 DEF Rewinding
    <3>3. rewinder' \in [Rewinders -> Rewinding]
      BY <2>31, <3>2 DEF IInv, TypeOK, WriteLog, Pass
    <3>4. rewinds' \in 0 .. pipe.rewinds
      BY <1>2, <2>31, <3>2 DEF WriteLog
    <3>5. QED
      BY <1>1, <2>31, <3>3, <3>4 DEF IInv, TypeOK, WriteLog, files, history, Rewinding
  <2>32. ASSUME NEW w \in Rewinders, LogFails(w) PROVE TypeOK'
    <3>1. rewinder' \in [Rewinders -> Rewinding] /\ mishaps' \in 0 .. MaxMishaps
      BY <1>3, <2>32 DEF IInv, TypeOK, LogFails, Paying, Pass, At, Rewinding, Rest
    <3>2. QED
      BY <1>1, <2>32, <3>1 DEF IInv, TypeOK, LogFails, files, history, Rewinding
  <2>33. ASSUME NEW w \in Rewinders, RewinderDies(w) PROVE TypeOK'
    <3>1. rewinder' \in [Rewinders -> Rewinding] /\ mishaps' \in 0 .. MaxMishaps
      BY <1>3, <2>33 DEF IInv, TypeOK, RewinderDies, Rewinding
    <3>2. lapsed' \in BOOLEAN
      BY <2>33 DEF RewinderDies, IInv, TypeOK
    <3>3. QED
      BY <1>1, <2>33, <3>1, <3>2 DEF IInv, TypeOK, RewinderDies, files, history, Rewinding
  <2>34. QED
    BY <2>1, <2>2, <2>3, <2>4, <2>5, <2>6, <2>7, <2>8, <2>9, <2>10, <2>11, <2>12,
       <2>13, <2>14, <2>15, <2>16, <2>17, <2>18, <2>19, <2>20, <2>21, <2>22, <2>23,
       <2>24, <2>25, <2>26, <2>27, <2>28, <2>29, <2>30, <2>31, <2>32, <2>33 DEF
       Next, Command, Progress, Write, Mishap

----------------------------------------------------------------------------
(* The order of the phases.                                                *)

(* Three things can happen to the phases that are done.                    *)
Stay ==
  /\ \A q \in Phases : Done(q)' <=> Done(q)
  /\ UNCHANGED <<settled, undone>>
Finish(p) ==
  /\ ~Done(p) /\ \A q \in Phases : q < p => Done(q)
  /\ \A q \in Phases : Done(q)' <=> q = p \/ Done(q)
  /\ settled' = [settled EXCEPT ![p] = undone] /\ undone' = undone
StepBack(T) ==
  /\ \A p, q \in Phases : p < q /\ p \in T => q \in T
  /\ \A q \in Phases : Done(q)' <=> Done(q) /\ q \notin T
  /\ \A q \in Phases : Done(q)' => settled'[q] = settled[q]
  /\ \A q \in Phases : settled'[q] \in {0, settled[q]}
  /\ undone' = undone + 1

LEMMA Typed ==
  ASSUME IInv
  PROVE  /\ settled \in [Phases -> Nat] /\ undone \in Nat /\ ledger \in Ledgers
         /\ ledger.status \in [Phases -> Statuses]
         /\ Phases \subseteq Nat /\ Phases = 1 .. pipe.last
         /\ pipe.last \in Nat /\ pipe.plan \in Phases
  BY PipeFacts DEF IInv, TypeOK, Ledgers, Phases

LEMMA Finishes ==
  ASSUME IInv, NEW p \in Phases, CompletePhase(p) \/ SkipPhase(p)
  PROVE  Finish(p)
<1>1. ledger'.status \in {[ledger.status EXCEPT ![p] = t] : t \in Terminal}
  BY Typed DEF CompletePhase, SkipPhase, SetStatus, Ledgers, Terminal
<1>2. settled' = [settled EXCEPT ![p] = undone] /\ undone' = undone
  BY DEF CompletePhase, SkipPhase
<1>3. \A q \in Phases : Done(q)' <=> q = p \/ Done(q)
  BY <1>1, Typed DEF Done
<1>4. ~Done(p) /\ \A q \in Phases : q < p => Done(q)
  BY Typed DEF CompletePhase, SkipPhase, Active, Current
<1>5. QED
  BY <1>2, <1>3, <1>4 DEF Finish

LEMMA Restates ==
  ASSUME IInv, NEW p \in Phases, EnterPhase(p) \/ \E c \in Codes : FailPhase(p, c)
  PROVE  Stay
<1>1. ledger'.status \in {[ledger.status EXCEPT ![p] = t] :
                           t \in {"in_progress", "failed"}}
  BY Typed DEF EnterPhase, FailPhase, SetStatus, Ledgers
<1>2. ~Done(p) /\ UNCHANGED <<settled, undone>>
  BY DEF EnterPhase, FailPhase, Current, history
<1>3. QED
  BY <1>1, <1>2, Typed DEF Stay, Done, Terminal

LEMMA Notes ==
  ASSUME IInv, MirrorAttempt \/ WriteIntent
  PROVE  Stay
<1>1. ledger'.status = ledger.status /\ UNCHANGED <<settled, undone>>
  BY Typed DEF MirrorAttempt, WriteIntent, Ledgers, history
<1>2. QED
  BY <1>1 DEF Stay, Done

LEMMA Commits ==
  ASSUME IInv, [Next]_vars, CommitRewind
  PROVE  \E T \in SUBSET Phases : StepBack(T)
<1> DEFINE i == ledger.pending
           T == Tail(i.reopen)
<1>1. Phases' = Phases
  BY PipeFixed
<1>2. i.reason \in Reasons /\ i.reopen \subseteq Phases
  BY Typed DEF IInv, Underway, CommitRewind, Ledgers, Intents
<1>3. /\ Reset(ledger, T, i.reason) \in Ledgers
      /\ Reset(ledger, T, i.reason).status
           = [p \in Phases |-> IF p \in T THEN "pending" ELSE ledger.status[p]]
  BY <1>2, ResetType, Typed
<1>4. ledger'.status = Reset(ledger, T, i.reason).status
  BY <1>3 DEF CommitRewind, Rewind, Ledgers
<1>5. \A p \in Phases : Done(p)' <=> Done(p) /\ p \notin T
  BY <1>3, <1>4 DEF Done, Terminal
<1>6. \A p, q \in Phases : p < q /\ p \in T => q \in T
  BY <1>2, Typed DEF Tail
<1>7. /\ \A p \in Phases : settled'[p] = IF Done(p)' THEN settled[p] ELSE 0
      /\ undone' = undone + 1
  BY <1>1 DEF CommitRewind, Done
<1>8. StepBack(T)
  BY <1>5, <1>6, <1>7 DEF StepBack
<1>9. QED
  BY <1>8 DEF Tail

LEMMA Reopens ==
  ASSUME IInv, NEW w \in Rewinders, ReopenPhase(w)
  PROVE  Stay \/ \E T \in SUBSET Phases : StepBack(T)
<1> DEFINE T == Tail({pipe.plan})
<1>1. CASE Ready /\ (Done(pipe.plan) \/ Current(pipe.plan))
  <2>1. ledger'.status
          = [p \in Phases |-> IF p \in T THEN "pending" ELSE ledger.status[p]]
    <3>1. ledger' = Reset(ledger, T, Rewound)
      BY <1>1 DEF ReopenPhase
    <3>2. QED
      BY <3>1, Typed DEF Reset, Ledgers
  <2>2. \A p \in Phases : Done(p)' <=> Done(p) /\ p \notin T
    BY <2>1 DEF Done, Terminal
  <2>3. \A p, q \in Phases : p < q /\ p \in T => q \in T
    BY Typed DEF Tail
  <2>4. /\ \A p \in Phases : settled'[p] = IF p \in T THEN 0 ELSE settled[p]
        /\ undone' = undone + 1
    BY <1>1 DEF ReopenPhase, Tail
  <2>5. StepBack(T)
    BY <2>2, <2>3, <2>4 DEF StepBack
  <2>6. QED
    BY <2>5 DEF Tail
<1>2. CASE ~(Ready /\ (Done(pipe.plan) \/ Current(pipe.plan)))
  BY <1>2 DEF ReopenPhase, Stay, Done
<1>3. QED
  BY <1>1, <1>2

LEMMA Kinds ==
  ASSUME IInv, [Next]_vars
  PROVE  \/ Stay
         \/ \E p \in Phases : Finish(p)
         \/ \E T \in SUBSET Phases : StepBack(T)
<1>1. CASE UNCHANGED <<ledger, settled, undone>>
  BY <1>1 DEF Stay, Done
<1>2. QED
  BY <1>1, Finishes, Restates, Notes, Commits, Reopens
  DEF Next, Command, Progress, Write, vars, history,
    Resume, LoopTick, RollBackStories, PassStories, Plan, BeginAttempt,
    ResumeReattempt, KeepPrd, Succeed, Republish, CompletionEvent,
    ChargeQuality, ChargeIteration, FailureEvent, PublishMarker, FailVerdict,
    Announce, ReleasePointer, Mishap, Crash, AskRewind, TruncateLog, WriteLog,
    LogFails, RewinderDies

LEMMA InOrderStep == IInv /\ [Next]_vars => InOrder'
<1> SUFFICES ASSUME IInv, [Next]_vars PROVE InOrder'
  OBVIOUS
<1>1. Phases' = Phases
  BY PipeFixed
<1>2. CASE Stay
  BY <1>1, <1>2 DEF IInv, InOrder, TailIsFresh, Stay
<1>3. ASSUME NEW p \in Phases, Finish(p) PROVE InOrder'
  <2>1. \A q \in Phases : p < q => ~Done(q)
    BY <1>3 DEF IInv, InOrder, Finish
  <2>2. TailIsFresh'
    BY <1>1, <1>3, <2>1, Typed DEF IInv, InOrder, TailIsFresh, Finish
  <2>3. QED
    BY <1>1, <1>3, <2>1, <2>2, Typed DEF IInv, InOrder, Finish
<1>4. ASSUME NEW T \in SUBSET Phases, StepBack(T) PROVE InOrder'
  <2>1. \A p, q \in Phases : p < q /\ Done(q)' => Done(p)'
    BY <1>4 DEF IInv, InOrder, StepBack
  <2>2. \A p \in Phases : settled'[p] <= undone'
    BY <1>4, Typed DEF IInv, InOrder, StepBack
  <2>3. TailIsFresh'
    BY <1>1, <1>4 DEF IInv, InOrder, TailIsFresh, StepBack
  <2>4. QED
    BY <1>1, <2>1, <2>2, <2>3 DEF InOrder
<1>5. QED
  BY <1>2, <1>3, <1>4, Kinds

----------------------------------------------------------------------------
(* What a command in flight relies on.                                     *)

LEMMA Same ==
  ASSUME UNCHANGED <<pipe, ledger, cnt>>
  PROVE  /\ IsComplete' <=> IsComplete
         /\ \A p : Current(p)' <=> Current(p)
  BY DEF IsComplete, Finished, Done, Phases, Ticked, Current

LEMMA UnderwayStep == IInv /\ [Next]_vars => Underway'
<1> SUFFICES ASSUME IInv, [Next]_vars PROVE Underway'
  OBVIOUS
<1>1. pipe' = pipe /\ Phases' = Phases
  BY PipeFixed
<1>2. /\ ledger \in Ledgers /\ cnt \in [Counters -> Nat]
      /\ pipe.cap \in [Counters -> Nat \ {0}]
      /\ {"iterations", "quality"} \subseteq Counters
  BY PipeFacts DEF IInv, TypeOK, Counters
<1>3. \A o \in Reasons : o \notin OtherOps
  BY ReasonsAssumption
<1>4. CASE op' \in {"idle", "announce", "release"} \cup Publishing
  BY <1>3, <1>4 DEF Underway, Publishing, OtherOps
<1>5. ASSUME NEW p \in Phases, CompletePhase(p) \/ Resume(p)
      PROVE  Underway'
  BY <1>1, <1>3, <1>5 DEF CompletePhase, Resume, Underway, OtherOps
<1>6. CASE BeginAttempt
  <2>1. op' = "attempt" /\ ledger'.attempt = 0 /\ cnt'["iterations"] >= 1
    BY <1>2, <1>6 DEF BeginAttempt
  <2>2. QED
    BY <1>3, <2>1 DEF Underway, OtherOps
<1>7. ASSUME NEW r \in Reasons, RollBackStories(r) PROVE Underway'
  <2>1. r \notin OtherOps /\ op' = r
    BY <1>3, <1>7 DEF RollBackStories
  <2>2. /\ ledger'.pending = None /\ ledger'.attempt >= 1
        /\ cnt'["iterations"] < pipe'.cap["iterations"]
        /\ r = "quality_fail" => cnt'["quality"] < pipe'.cap["quality"]
    BY <1>7 DEF RollBackStories, MayReattempt
  <2>3. QED
    BY <2>1, <2>2 DEF Underway, OtherOps
<1>8. CASE WriteIntent
  <2>1. op' = "reconcile" /\ ledger'.pending # None
    BY <1>2, <1>8, IntentIsSome DEF WriteIntent, Ledgers
  <2>2. QED
    BY <1>3, <2>1 DEF Underway, OtherOps
<1>9. CASE ResumeReattempt \/ ChargeQuality
  <2>1. op' = "reconcile" /\ ledger'.pending # None
    BY <1>9 DEF IInv, Underway, ResumeReattempt, ChargeQuality
  <2>2. QED
    BY <1>3, <2>1 DEF Underway, OtherOps
<1>10. CASE ChargeIteration
  <2>1. op' = "commit" /\ ledger' = ledger /\ ledger.pending # None
    BY <1>10 DEF IInv, Underway, ChargeIteration
  <2>2. cnt'["iterations"] = ledger.pending.target
    BY <1>2, <1>10, <2>1 DEF IInv, Counted, ChargeIteration, IterationDue
  <2>3. ledger.pending.reason = "quality_fail" =>
          cnt'["quality"] = ledger.pending.quality + 1
    BY <1>2, <1>10, <2>1 DEF IInv, Counted, ChargeIteration, QualityDue
  <2>4. QED
    BY <1>3, <2>1, <2>2, <2>3 DEF Underway, OtherOps
<1>11. CASE KeepPrd
  <2>1. op' = "success" /\ IsComplete'
    BY <1>11, Same DEF KeepPrd
  <2>2. QED
    BY <1>3, <2>1 DEF Underway, OtherOps
<1>12. CASE UNCHANGED vars
  <2>1. IsComplete' <=> IsComplete
    BY <1>12, Same DEF vars
  <2>2. QED
    BY <1>1, <1>12, <2>1 DEF IInv, Underway, vars
<1>13. CASE UNCHANGED <<pipe, ledger, cnt, op, subject>>
  <2>1. IsComplete' <=> IsComplete
    BY <1>13, Same
  <2>2. QED
    BY <1>1, <1>13, <2>1 DEF IInv, Underway
<1>14. ASSUME NEW w \in Rewinders, ReopenPhase(w) PROVE Underway'
  <2>1. CASE op = "idle"
    BY <1>4, <1>14, <2>1 DEF ReopenPhase
  <2>2. CASE op # "idle"
    BY <1>13, <1>14, <2>2 DEF ReopenPhase, Ready, Exact
  <2>3. QED
    BY <2>1, <2>2
<1>15. ASSUME NEW w \in Rewinders, \/ AskRewind(w) \/ TruncateLog(w) \/ WriteLog(w)
                                 \/ LogFails(w) \/ RewinderDies(w)
       PROVE  Underway'
  BY <1>13, <1>15 DEF AskRewind, TruncateLog, WriteLog, LogFails, RewinderDies
<1>16. QED
  BY <1>4, <1>5, <1>6, <1>7, <1>8, <1>9, <1>10, <1>11, <1>12, <1>14, <1>15
  DEF Next, Command, Progress, Write, Mishap, Ready, Exact, Publishing,
    EnterPhase, SkipPhase, LoopTick, FailPhase, PassStories, Plan, Succeed, Republish, CompletionEvent, MirrorAttempt,
    CommitRewind, FailureEvent, PublishMarker, FailVerdict, Announce,
    ReleasePointer, Crash

----------------------------------------------------------------------------
(* The counters.                                                           *)

LEMMA CountedStep == IInv /\ [Next]_vars => Counted'
<1> SUFFICES ASSUME IInv, [Next]_vars PROVE Counted'
  OBVIOUS
<1>1. pipe' = pipe
  BY PipeFixed
<1>2. /\ ledger \in Ledgers /\ cnt \in [Counters -> Nat] /\ graded \in Nat
      /\ pipe.cap \in [Counters -> Nat \ {0}]
      /\ {"iterations", "quality"} \subseteq Counters
  BY PipeFacts DEF IInv, TypeOK, Counters
<1>3. ASSUME ledger'.pending = ledger.pending, ledger'.attempt = ledger.attempt,
             cnt'["iterations"] = cnt["iterations"],
             cnt'["quality"] = cnt["quality"], graded' = graded
      PROVE  Counted'
  BY <1>1, <1>3 DEF IInv, Counted
<1>4. CASE BeginAttempt
  <2>1. ledger.pending = None
    BY <1>4 DEF IInv, Counted, BeginAttempt
  <2>2. cnt'["quality"] = cnt["quality"]
    BY <1>2, <1>4 DEF BeginAttempt
  <2>3. QED
    BY <1>4, <2>1, <2>2 DEF IInv, Counted, BeginAttempt, history
<1>5. CASE MirrorAttempt
  <2>1. ledger.pending = None
    BY <1>5 DEF IInv, Counted, Underway, MirrorAttempt
  <2>2. ledger'.pending = None /\ ledger'.attempt = cnt["iterations"]
    BY <1>2, <1>5, <2>1 DEF MirrorAttempt, Ledgers
  <2>3. QED
    BY <1>5, <2>1, <2>2 DEF IInv, Counted, MirrorAttempt, history
<1>6. CASE WriteIntent
  <2>1. PICK p \in Phases : ledger' = [ledger EXCEPT !.pending = Intent(op, p)]
    BY <1>6 DEF WriteIntent
  <2> DEFINE i == Intent(op, p)
  <2>2. ledger'.pending = i /\ ledger'.attempt = ledger.attempt /\ i # None
    BY <1>2, <2>1, IntentIsSome DEF Ledgers
  <2>3. /\ i.reason = op /\ i.base = cnt["iterations"]
        /\ i.target = cnt["iterations"] + 1 /\ i.quality = cnt["quality"]
    BY DEF Intent
  <2>4. /\ cnt["iterations"] = ledger.attempt /\ ledger.attempt >= 1
        /\ cnt["iterations"] < pipe.cap["iterations"]
        /\ op = "quality_fail" => cnt["quality"] < pipe.cap["quality"]
        /\ cnt["quality"] = graded
    BY <1>6 DEF IInv, Underway, Counted, WriteIntent
  <2>5. UNCHANGED <<cnt, graded>>
    BY <1>6 DEF WriteIntent, history
  <2>6. QED
    BY <1>1, <1>2, <2>2, <2>3, <2>4, <2>5 DEF Counted
<1>7. CASE ChargeQuality
  <2>1. /\ ledger' = ledger /\ graded' = graded
        /\ cnt'["iterations"] = cnt["iterations"]
        /\ cnt'["quality"] = cnt["quality"] + 1
    BY <1>2, <1>7 DEF ChargeQuality, history
  <2>2. /\ ledger.pending # None /\ ledger.pending.reason = "quality_fail"
        /\ cnt["quality"] = ledger.pending.quality
    BY <1>7 DEF IInv, Underway, ChargeQuality, QualityDue
  <2>3. QED
    BY <1>1, <2>1, <2>2 DEF IInv, Counted
<1>8. CASE ChargeIteration
  <2>1. /\ ledger' = ledger /\ graded' = graded
        /\ cnt'["iterations"] = cnt["iterations"] + 1
        /\ cnt'["quality"] = cnt["quality"]
    BY <1>2, <1>8 DEF ChargeIteration, history
  <2>2. ledger.pending # None /\ cnt["iterations"] = ledger.pending.base
    BY <1>8 DEF IInv, Underway, ChargeIteration, IterationDue
  <2>3. QED
    BY <1>1, <2>1, <2>2 DEF IInv, Counted
<1>9. CASE CommitRewind
  <2> DEFINE i == ledger.pending
  <2>1. i # None /\ i.reason \in Reasons
    BY <1>2, <1>9 DEF IInv, Underway, CommitRewind, Ledgers, Intents
  <2>2. Rewind(ledger, i.reopen, i.reason) \in Ledgers
    BY <1>2, <2>1, ResetType DEF Rewind
  <2>3. ledger'.pending = None /\ ledger'.attempt = i.target
    BY <1>9, <2>2 DEF CommitRewind, Ledgers
  <2>4. cnt["iterations"] = i.target
    BY <1>2, <1>9, <2>1 DEF IInv, Underway, Counted, CommitRewind, IterationDue
  <2>5. cnt["quality"]
          = IF i.reason = "quality_fail" THEN graded + 1 ELSE graded
    BY <1>2, <1>9, <2>1 DEF IInv, Underway, Counted, CommitRewind, QualityDue
  <2>6. QED
    BY <1>9, <2>3, <2>4, <2>5 DEF Counted, CommitRewind
<1>10. ASSUME NEW p \in Phases, LoopTick(p) PROVE Counted'
  <2>1. pipe.loop[p] \in Loops
    BY <1>10, PipeFacts DEF IInv, TypeOK, LoopTick
  <2>2. /\ cnt'["iterations"] = cnt["iterations"]
        /\ cnt'["quality"] = cnt["quality"]
    BY <1>2, <1>10, <2>1 DEF LoopTick, Loops
  <2>3. QED
    BY <1>3, <1>10, <2>2 DEF LoopTick, history
<1>11. ASSUME NEW p \in Phases,
              \/ EnterPhase(p) \/ CompletePhase(p) \/ SkipPhase(p)
              \/ \E c \in Codes : FailPhase(p, c)
       PROVE  Counted'
  <2>1. ledger'.pending = ledger.pending /\ ledger'.attempt = ledger.attempt
    BY <1>2, <1>11 DEF EnterPhase, CompletePhase, SkipPhase, FailPhase, SetStatus,
       Ledgers
  <2>2. UNCHANGED <<cnt, graded>>
    BY <1>11 DEF EnterPhase, CompletePhase, SkipPhase, FailPhase, history
  <2>3. QED
    BY <1>3, <2>1, <2>2
<1>12. ASSUME NEW w \in Rewinders, ReopenPhase(w) PROVE Counted'
  <2>1. ledger'.pending = ledger.pending /\ ledger'.attempt = ledger.attempt
    BY <1>2, <1>12, Reopened DEF ReopenPhase
  <2>2. QED
    BY <1>3, <1>12, <2>1 DEF ReopenPhase
<1>13. CASE UNCHANGED <<ledger, cnt, graded>>
  BY <1>3, <1>13
<1>14. QED
  BY <1>4, <1>5, <1>6, <1>7, <1>8, <1>9, <1>10, <1>11, <1>12, <1>13
  DEF Next, Command, Progress, Write, vars, history,
    Resume, RollBackStories, PassStories, Plan, ResumeReattempt, KeepPrd,
    Succeed, Republish, CompletionEvent, FailureEvent, PublishMarker,
    FailVerdict, Announce, ReleasePointer, Mishap, Crash, AskRewind,
    TruncateLog, WriteLog, LogFails, RewinderDies

----------------------------------------------------------------------------
(* The budget.                                                             *)

LEMMA PayerType ==
  ASSUME IInv
  PROVE  /\ rewinder \in [Rewinders -> Rewinding] /\ Rest.at = "rest"
         /\ rewinds \in Nat /\ granted \in Nat /\ pipe.rewinds \in Nat
         /\ rewinds <= pipe.rewinds /\ lapsed \in BOOLEAN
         /\ \A w \in Rewinders :
              /\ rewinder[w].at \in {"rest", "read", "truncated", "allowed"}
              /\ rewinder[w].seen \in Nat
              /\ Paying(w) => rewinder[w].seen + 1 <= pipe.rewinds
  BY PipeFacts DEF IInv, TypeOK, Rewinding, Rest, Paying, At

(* Who asks owes one step back more, who is done or dies one less.         *)
LEMMA OwedSteps ==
  ASSUME IInv
  PROVE  /\ IsFiniteSet(Owed) /\ Cardinality(Owed) \in Nat
         /\ UNCHANGED rewinder => Cardinality(Owed)' = Cardinality(Owed)
         /\ \A w \in Rewinders :
              /\ AskRewind(w) => Cardinality(Owed)' = Cardinality(Owed) + 1
              /\ TruncateLog(w) \/ WriteLog(w) \/ LogFails(w)
                   => Cardinality(Owed)' = Cardinality(Owed)
              /\ ReopenPhase(w) \/ RewinderDies(w)
                   => Cardinality(Owed)' = Cardinality(Owed) - 1
<1>1. IsFiniteSet(Owed) /\ Cardinality(Owed) \in Nat
  BY RewindersAssumption, FS_Subset, FS_CardinalityType DEF Owed
<1>2. UNCHANGED rewinder => Owed' = Owed
  BY DEF Owed
<1>3. ASSUME NEW w \in Rewinders, AskRewind(w)
      PROVE  Cardinality(Owed)' = Cardinality(Owed) + 1
  <2>1. [at |-> "read", seen |-> rewinds] # Rest
    <3>1. [at |-> "read", seen |-> rewinds].at # Rest.at
      BY DEF Rest
    <3>2. QED
      BY <3>1
  <2>2. Owed' = Owed \cup {w} /\ w \notin Owed
    BY <1>3, <2>1, PayerType DEF AskRewind, Owed
  <2>3. QED
    BY <1>1, <2>2, FS_AddElement
<1>4. ASSUME NEW w \in Rewinders, TruncateLog(w) \/ WriteLog(w) \/ LogFails(w)
      PROVE  Cardinality(Owed)' = Cardinality(Owed)
  <2>1. /\ rewinder[w].at # "rest"
        /\ \E a \in {"truncated", "allowed"} : rewinder' = [rewinder EXCEPT ![w].at = a]
    BY <1>4 DEF TruncateLog, WriteLog, LogFails, Paying, Pass, At
  <2>2. rewinder[w] # Rest /\ rewinder'[w].at # "rest"
    BY <2>1, PayerType DEF Rewinding, Rest
  <2>3. rewinder'[w] # Rest
    BY <2>2 DEF Rest
  <2>4. Owed' = Owed
    BY <2>1, <2>2, <2>3, PayerType DEF Owed
  <2>5. QED
    BY <2>4
<1>5. ASSUME NEW w \in Rewinders, ReopenPhase(w) \/ RewinderDies(w)
      PROVE  Cardinality(Owed)' = Cardinality(Owed) - 1
  <2>1. rewinder' = [rewinder EXCEPT ![w] = Rest] /\ rewinder[w] # Rest
    BY <1>5 DEF ReopenPhase, RewinderDies, At, Rest
  <2>2. Owed' = Owed \ {w} /\ w \in Owed
    BY <2>1, PayerType DEF Owed
  <2>3. QED
    BY <1>1, <2>2, FS_RemoveElement
<1>6. QED
  BY <1>1, <1>2, <1>3, <1>4, <1>5

LEMMA PaidStep == IInv /\ [Next]_vars => Paid'
<1> SUFFICES ASSUME IInv, [Next]_vars PROVE Paid'
  OBVIOUS
<1> DEFINE owed == Cardinality(Owed)
<1>1. /\ ledger \in Ledgers /\ ledger.attempt \in Nat /\ undone \in Nat
      /\ granted \in Nat /\ cnt \in [Counters -> Nat] /\ owed \in Nat
      /\ undone + owed <= ledger.attempt + granted
  BY PipeFacts, OwedSteps DEF IInv, TypeOK, Ledgers, Paid
<1>2. ASSUME ledger'.attempt = ledger.attempt, undone' = undone,
             granted' = granted, owed' = owed
      PROVE  Paid'
  BY <1>1, <1>2 DEF Paid
<1>3. CASE MirrorAttempt
  <2>1. ledger'.attempt \in Nat /\ ledger.attempt = 0
    BY <1>1, <1>3 DEF IInv, Underway, MirrorAttempt, Ledgers, Counters
  <2>2. undone' = undone /\ granted' = granted /\ owed' = owed
    BY <1>3, OwedSteps DEF MirrorAttempt, policy, history
  <2>3. QED
    BY <1>1, <2>1, <2>2 DEF Paid
<1>4. CASE CommitRewind
  <2> DEFINE i == ledger.pending
  <2>1. i.reason \in Reasons /\ i.target = ledger.attempt + 1
    BY <1>1, <1>4 DEF IInv, Underway, Counted, CommitRewind, Ledgers, Intents
  <2>2. Rewind(ledger, i.reopen, i.reason) \in Ledgers
    BY <1>1, <2>1, ResetType DEF Rewind
  <2>3. ledger'.attempt = ledger.attempt + 1
    BY <1>4, <2>1, <2>2 DEF CommitRewind, Ledgers
  <2>4. undone' = undone + 1 /\ granted' = granted /\ owed' = owed
    BY <1>4, OwedSteps DEF CommitRewind, policy
  <2>5. QED
    BY <1>1, <2>3, <2>4 DEF Paid
<1>5. ASSUME NEW w \in Rewinders, AskRewind(w) PROVE Paid'
  <2>1. /\ owed' = owed + 1 /\ granted' = granted + 1
        /\ UNCHANGED <<ledger, undone>>
    BY <1>5, OwedSteps DEF AskRewind, history
  <2>2. QED
    BY <1>1, <2>1 DEF Paid
<1>6. ASSUME NEW w \in Rewinders, ReopenPhase(w) PROVE Paid'
  <2>1. Reset(ledger, Tail({pipe.plan}), Rewound).attempt = ledger.attempt
    BY <1>1, Reopened
  <2>2. /\ ledger' \in {Reset(ledger, Tail({pipe.plan}), Rewound), ledger}
        /\ undone' \in {undone, undone + 1} /\ granted' = granted
    BY <1>6 DEF ReopenPhase
  <2>3. ledger'.attempt = ledger.attempt /\ owed' = owed - 1
    BY <1>6, <2>1, <2>2, OwedSteps
  <2>4. QED
    BY <1>1, <2>2, <2>3 DEF Paid
<1>7. ASSUME NEW p \in Phases,
             \/ EnterPhase(p) \/ CompletePhase(p) \/ SkipPhase(p)
             \/ \E c \in Codes : FailPhase(p, c)
      PROVE  Paid'
  <2>1. ledger'.attempt = ledger.attempt
    BY <1>1, <1>7 DEF EnterPhase, CompletePhase, SkipPhase, FailPhase, SetStatus,
       Ledgers
  <2>2. UNCHANGED <<undone, granted, rewinder>>
    BY <1>7 DEF EnterPhase, CompletePhase, SkipPhase, FailPhase, policy, history
  <2>3. QED
    BY <1>2, <2>1, <2>2, OwedSteps
<1>8. CASE WriteIntent
  <2>1. ledger'.attempt = ledger.attempt
    BY <1>1, <1>8 DEF WriteIntent, Ledgers
  <2>2. QED
    BY <1>2, <1>8, <2>1, OwedSteps DEF WriteIntent, policy, history
<1>9. ASSUME NEW w \in Rewinders, \/ TruncateLog(w) \/ WriteLog(w) \/ LogFails(w)
                                \/ RewinderDies(w)
      PROVE  Paid'
  <2>1. UNCHANGED <<ledger, undone, granted>>
    BY <1>9 DEF TruncateLog, WriteLog, LogFails, RewinderDies, history
  <2>2. owed' <= owed /\ owed' \in Int
    BY <1>1, <1>9, OwedSteps
  <2>3. QED
    BY <1>1, <2>1, <2>2 DEF Paid
<1>10. CASE UNCHANGED <<ledger, undone, granted, rewinder>>
  BY <1>2, <1>10, OwedSteps
<1>11. QED
  BY <1>3, <1>4, <1>5, <1>6, <1>7, <1>8, <1>9, <1>10
  DEF Next, Command, Progress, Write, Mishap, vars, policy, history,
    Resume, LoopTick, RollBackStories, PassStories, Plan, BeginAttempt,
    ResumeReattempt, KeepPrd, Succeed, Republish, CompletionEvent,
    ChargeQuality, ChargeIteration, FailureEvent, PublishMarker, FailVerdict,
    Announce, ReleasePointer, Crash

LEMMA AccountStep == IInv /\ [Next]_vars => Account'
<1> SUFFICES ASSUME IInv, [Next]_vars PROVE Account'
  OBVIOUS
<1>1. Account
  BY DEF IInv
<1>2. ASSUME NEW w \in Rewinders, AskRewind(w) PROVE Account'
  <2>1. rewinder' = [rewinder EXCEPT ![w] = [at |-> "read", seen |-> rewinds]]
        /\ granted' = granted + 1
    BY <1>2 DEF AskRewind
  <2>2. CASE \A v \in Rewinders : ~Paying(v)
    BY <1>1, <1>2, <2>1, <2>2, PayerType DEF Account, AskRewind, Paying, At
  <2>3. CASE ~(\A v \in Rewinders : ~Paying(v))
    BY <1>2, <2>3 DEF Account, AskRewind
  <2>4. QED
    BY <2>2, <2>3
<1>3. ASSUME NEW w \in Rewinders, TruncateLog(w) PROVE Account'
  <2>1. /\ \A v \in Rewinders : Paying(v)' <=> Paying(v)
        /\ \A v \in Rewinders : rewinder'[v].seen = rewinder[v].seen
        /\ Paying(w) /\ UNCHANGED <<granted, lapsed>>
    BY <1>3, PayerType DEF TruncateLog, Pass, Paying, At, Rewinding, Rest
  <2>2. QED
    BY <1>1, <2>1 DEF Account
<1>4. ASSUME NEW w \in Rewinders, WriteLog(w) PROVE Account'
  <2>1. /\ \A v \in Rewinders : Paying(v)' <=> Paying(v) /\ v # w
        /\ \A v \in Rewinders : rewinder'[v].seen = rewinder[v].seen
        /\ Paying(w) /\ UNCHANGED <<granted, lapsed>>
        /\ rewinds' = rewinder[w].seen + 1
    BY <1>4, PayerType DEF WriteLog, Pass, Paying, At, Rewinding, Rest
  <2>2. QED
    BY <1>1, <2>1 DEF Account
<1>5. ASSUME NEW w \in Rewinders, LogFails(w) PROVE Account'
  BY <1>5 DEF Account, LogFails
<1>6. ASSUME NEW w \in Rewinders, ReopenPhase(w) \/ RewinderDies(w) PROVE Account'
  <2>1. CASE lapsed'
    BY <2>1 DEF Account
  <2>2. CASE ~lapsed'
    <3>1. ~Paying(w) /\ UNCHANGED <<granted, rewinds>> /\ ~lapsed
          /\ rewinder' = [rewinder EXCEPT ![w] = Rest]
      <4>1. CASE ReopenPhase(w)
        BY <2>2, <4>1 DEF ReopenPhase, Paying, At
      <4>2. CASE RewinderDies(w)
        BY <2>2, <4>2 DEF RewinderDies
      <4>3. QED
        BY <1>6, <4>1, <4>2
    <3>2. /\ \A v \in Rewinders : Paying(v)' <=> Paying(v)
          /\ \A v \in Rewinders : Paying(v) => rewinder'[v] = rewinder[v]
      BY <3>1, PayerType DEF Paying, At
    <3>3. QED
      BY <1>1, <3>1, <3>2 DEF Account
  <2>3. QED
    BY <2>1, <2>2
<1>7. CASE UNCHANGED policy
  BY <1>1, <1>7 DEF Account, Paying, At, policy
<1>8. QED
  BY <1>2, <1>3, <1>4, <1>5, <1>6, <1>7
  DEF Next, Command, Progress, Write, Mishap, vars, policy,
    EnterPhase, CompletePhase, SkipPhase, Resume, LoopTick, RollBackStories,
    FailPhase, PassStories, Plan, BeginAttempt, ResumeReattempt, KeepPrd,
    Succeed, Republish, CompletionEvent, MirrorAttempt, WriteIntent,
    ChargeQuality, ChargeIteration, CommitRewind, FailureEvent, PublishMarker,
    FailVerdict, Announce, ReleasePointer, Crash

----------------------------------------------------------------------------
(* Verdicts.                                                               *)

LEMMA OneCurrent ==
  ASSUME pipe \in Pipelines, NEW p, Current(p), NEW q, Current(q)
  PROVE  p = q
  BY PipeFacts DEF Current, Phases

LEMMA FailureOf ==
  ASSUME pipe \in Pipelines, NEW p \in Phases, Current(p)
  PROVE  TheFailure = {<<p, ledger.code>>}
  BY OneCurrent DEF TheFailure

LEMMA PublishedStep == IInv /\ [Next]_vars => Published'
<1> SUFFICES ASSUME IInv, [Next]_vars PROVE Published'
  OBVIOUS
<1>1. pipe' = pipe /\ Phases' = Phases /\ pipe \in Pipelines
  BY PipeFixed DEF IInv, TypeOK
<1>2. /\ ledger \in Ledgers /\ Phases = 1 .. pipe.last /\ pipe.last \in Nat
      /\ \A o \in Reasons : o \notin OtherOps
  BY PipeFacts, ReasonsAssumption DEF IInv, TypeOK, Phases
<1>3. ASSUME marker = {}, summary = "running",
             op' \notin Publishing \cup Afterwards,
             UNCHANGED <<marker, summary, closed, pointer>>
      PROVE  Published'
  BY <1>3 DEF IInv, Published, VerdictIsBacked, Publishing, Afterwards
<1>4. ASSUME NEW p \in Phases, NEW c \in Codes, FailPhase(p, c)
      PROVE  Published'
  <2>1. /\ Current(p) /\ marker \subseteq {<<p, c>>} /\ op = "idle"
        /\ summary = "running" /\ op' = "failed"
        /\ UNCHANGED <<cnt, failures, files>>
        /\ ledger' = [SetStatus(p, "failed") EXCEPT !.code = c]
    BY <1>4 DEF FailPhase, Exact
  <2>2. ledger'.status = [ledger.status EXCEPT ![p] = "failed"] /\ ledger'.code = c
    BY <1>2, <2>1 DEF SetStatus, Ledgers
  <2>3. ledger.status \in [Phases -> Statuses]
    BY <1>2 DEF Ledgers
  <2>4. ledger'.status[p] = "failed" /\ \A q \in Phases \ {p} : ledger'.status[q] = ledger.status[q]
    BY <2>2, <2>3
  <2>5. Current(p)'
    BY <1>1, <1>2, <2>1, <2>4 DEF Current, Done, Terminal
  <2>6. VerdictIsBacked'
    BY <2>1, <2>2, <2>4, <2>5 DEF IInv, Published, VerdictIsBacked, files
  <2>7. QED
    BY <1>1, <2>1, <2>2, <2>4, <2>5, <2>6 DEF Published, Publishing, Afterwards, files
<1>5. CASE FailureEvent
  <2>1. PICK p \in Phases :
          /\ Current(p) /\ ledger.status[p] = "failed" /\ ledger.code \in Codes
          /\ marker \subseteq {<<p, ledger.code>>} /\ summary = "running"
    BY <1>5 DEF IInv, Published, Publishing, FailureEvent
  <2>2. /\ failures' = failures \cup {<<p, ledger.code>>} /\ op' = "marker"
        /\ UNCHANGED <<ledger, cnt, files>>
    BY <1>1, <1>5, <2>1, FailureOf DEF FailureEvent
  <2>3. Current(p)'
    BY <1>1, <2>1, <2>2, Same
  <2>4. VerdictIsBacked'
    BY <1>1, <2>1, <2>2, Same DEF IInv, Published, VerdictIsBacked, files
  <2>5. QED
    BY <1>1, <2>1, <2>2, <2>3, <2>4 DEF Published, Publishing, Afterwards, files
<1>6. CASE PublishMarker
  <2>1. PICK p \in Phases :
          /\ Current(p) /\ ledger.status[p] = "failed" /\ ledger.code \in Codes
          /\ <<p, ledger.code>> \in failures /\ summary = "running"
    BY <1>6 DEF IInv, Published, Publishing, PublishMarker
  <2>2. /\ marker' = {<<p, ledger.code>>} /\ op' = "verdict"
        /\ UNCHANGED <<ledger, cnt, failures, summary, closed, pointer>>
    BY <1>1, <1>6, <2>1, FailureOf DEF PublishMarker
  <2>3. Current(p)'
    BY <1>1, <2>1, <2>2, Same
  <2>4. VerdictIsBacked'
    BY <2>1, <2>2, <2>3 DEF IInv, Published, VerdictIsBacked
  <2>5. QED
    BY <1>1, <2>1, <2>2, <2>3, <2>4 DEF Published, Publishing, Afterwards
<1>7. CASE FailVerdict
  <2>1. marker # {} /\ op' = "announce" /\ summary' = "failure"
    BY <1>7 DEF IInv, Published, Publishing, FailVerdict
  <2>2. UNCHANGED <<ledger, cnt, failures, marker, closed, pointer>>
    BY <1>7 DEF FailVerdict
  <2>3. VerdictIsBacked'
    BY <1>1, <2>1, <2>2, Same DEF IInv, Published, VerdictIsBacked
  <2>4. QED
    BY <2>1, <2>3 DEF Published, Publishing, Afterwards
<1>8. CASE Succeed
  <2>1. IsComplete /\ marker = {} /\ summary = "running"
    BY <1>8 DEF IInv, Underway, Published, Publishing, Afterwards, Succeed, Ready,
       Exact
  <2>2. /\ op' = "announce" /\ summary' = "success"
        /\ UNCHANGED <<ledger, cnt, failures, marker, closed, pointer>>
    BY <1>8 DEF Succeed
  <2>3. VerdictIsBacked'
    BY <1>1, <2>1, <2>2, Same DEF IInv, Published, VerdictIsBacked
  <2>4. QED
    BY <2>2, <2>3 DEF Published, Publishing, Afterwards
<1>9. ASSUME UNCHANGED <<ledger, cnt, failures, marker, summary>>,
             op \in {"idle"} \cup Afterwards, op' \in {"idle"} \cup Afterwards,
             op' \in Afterwards => summary # "running",
             closed' => summary # "running", op' = "release" => closed',
             ~pointer' => closed'
      PROVE  Published'
  <2>1. VerdictIsBacked'
    BY <1>1, <1>9, Same DEF IInv, Published, VerdictIsBacked
  <2>2. QED
    BY <1>9, <2>1 DEF Published, Publishing, Afterwards
<1>10. CASE Republish
  <2>1. summary # "running" /\ op = "idle" /\ op' = "announce"
    BY <1>10 DEF Republish
  <2>2. QED
    BY <1>9, <1>10, <2>1 DEF IInv, Published, VerdictIsBacked, Republish, files, Afterwards
<1>11. CASE Announce \/ ReleasePointer
  <2>1. op \in Afterwards /\ summary # "running"
    BY <1>11 DEF IInv, Published, Announce, ReleasePointer, Afterwards
  <2>2. QED
    BY <1>9, <1>11, <2>1 DEF IInv, Published, VerdictIsBacked, Announce,
       ReleasePointer, Afterwards
<1>12. CASE Crash \/ UNCHANGED vars
  <2>1. UNCHANGED <<ledger, cnt, failures, files>> /\ op' \in {op, "idle"}
    BY <1>12 DEF Crash, vars, files
  <2>2. VerdictIsBacked' /\ \A p : Current(p)' <=> Current(p)
    BY <1>1, <2>1, Same DEF IInv, Published, VerdictIsBacked, files
  <2>3. QED
    BY <1>1, <2>1, <2>2 DEF IInv, Published, Publishing, Afterwards, files
<1>13. ASSUME NEW r \in Reasons, Ready, RollBackStories(r) PROVE Published'
  <2>1. op' \notin Publishing \cup Afterwards
    BY <1>2, <1>13 DEF RollBackStories, Publishing, Afterwards, OtherOps
  <2>2. QED
    BY <1>3, <1>13, <2>1 DEF RollBackStories, Ready, Exact, files
<1>14. ASSUME NEW p \in Phases, Ready,
              \/ EnterPhase(p) \/ CompletePhase(p) \/ SkipPhase(p)
              \/ Resume(p) \/ LoopTick(p)
       PROVE  Published'
  BY <1>3, <1>14 DEF EnterPhase, CompletePhase, SkipPhase, Resume, LoopTick, Ready,
     Exact, files, Publishing, Afterwards
<1>15. ASSUME Ready, \/ PassStories \/ Plan \/ BeginAttempt \/ ResumeReattempt
                    \/ KeepPrd
       PROVE  Published'
  BY <1>3, <1>15 DEF PassStories, Plan, BeginAttempt, ResumeReattempt, KeepPrd,
     Ready, Exact, files, Publishing, Afterwards
<1>16. ASSUME \/ CompletionEvent \/ MirrorAttempt \/ WriteIntent \/ ChargeQuality
              \/ ChargeIteration \/ CommitRewind
       PROVE  Published'
  <2>1. /\ op \in {"event", "attempt", "reconcile", "commit"} \cup Reasons
        /\ op' \in {"idle", "reconcile", "commit"}
        /\ UNCHANGED <<marker, summary, closed, pointer>>
    BY <1>16 DEF CompletionEvent, MirrorAttempt, WriteIntent, ChargeQuality,
       ChargeIteration, CommitRewind, files
  <2>2. op \notin {"idle"} \cup Publishing \cup Afterwards
    BY <1>2, <2>1 DEF OtherOps, Publishing, Afterwards
  <2>3. marker = {} /\ summary = "running"
    BY <2>2 DEF IInv, Published
  <2>4. QED
    BY <1>3, <2>1, <2>3 DEF Publishing, Afterwards
<1>17. ASSUME UNCHANGED <<ledger, cnt, failures, files, op>> PROVE Published'
  <2>1. VerdictIsBacked' /\ \A p : Current(p)' <=> Current(p)
    BY <1>1, <1>17, Same DEF IInv, Published, VerdictIsBacked, files
  <2>2. QED
    BY <1>1, <1>17, <2>1 DEF IInv, Published, files
<1>18. ASSUME NEW w \in Rewinders, ReopenPhase(w) PROVE Published'
  <2>1. CASE Ready
    BY <1>3, <1>18, <2>1 DEF ReopenPhase, Ready, Exact, files, Publishing, Afterwards
  <2>2. CASE ~Ready
    BY <1>17, <1>18, <2>2 DEF ReopenPhase
  <2>3. QED
    BY <2>1, <2>2
<1>19. ASSUME NEW w \in Rewinders, \/ AskRewind(w) \/ TruncateLog(w) \/ WriteLog(w)
                                 \/ LogFails(w) \/ RewinderDies(w)
       PROVE  Published'
  BY <1>17, <1>19 DEF AskRewind, TruncateLog, WriteLog, LogFails, RewinderDies
<1>20. QED
  BY <1>4, <1>5, <1>6, <1>7, <1>8, <1>10, <1>11, <1>12, <1>13, <1>14, <1>15, <1>16,
     <1>18, <1>19
  DEF Next, Command, Progress, Write, Mishap

----------------------------------------------------------------------------
(* The invariant, and what follows from it.                                *)

LEMMA InitInv == Init => IInv
<1> SUFFICES ASSUME Init PROVE IInv
  OBVIOUS
<1>1. /\ pipe \in Pipelines /\ Phases = 1 .. pipe.last
      /\ pipe.last \in Nat \ {0} /\ pipe.rewinds \in Nat
      /\ pipe.cap \in [Counters -> Nat \ {0}] /\ MaxMishaps \in Nat
      /\ "iterations" \in Counters /\ "quality" \in Counters
  BY PipeFacts, BoundsAssumption DEF Init, Phases, Counters
<1>2. /\ ledger.status = [p \in Phases |-> "pending"] /\ ledger.attempt = 0
      /\ ledger.pending = None
  BY <1>1 DEF Init
<1>3. ledger \in Ledgers
  BY <1>1 DEF Init, Ledgers, Statuses, Intents
<1>4. TypeOK
  <2>1. cnt \in [Counters -> Nat] /\ \A k \in Counters : cnt[k] <= pipe.cap[k]
    BY <1>1 DEF Init
  <2>2. prd \in [version : Nat, passes : BOOLEAN] /\ settled \in [Phases -> Nat]
    BY <1>1 DEF Init
  <2>3. op \in Ops /\ rewinds \in 0 .. pipe.rewinds /\ mishaps \in 0 .. MaxMishaps
    BY <1>1 DEF Init, Ops, OtherOps
  <2>4. /\ completed \subseteq Phases \X Nat /\ failures \subseteq Phases \X Codes
        /\ marker \subseteq Phases \X Codes /\ snapshot \subseteq Nat
        /\ summary \in {"running", "success", "failure"}
        /\ closed \in BOOLEAN /\ pointer \in BOOLEAN
    BY DEF Init
  <2>5. subject \in 0 .. pipe.last /\ undone \in Nat /\ graded \in Nat
    BY <1>1 DEF Init
  <2>6. /\ granted \in Nat /\ lapsed \in BOOLEAN
        /\ rewinder \in [Rewinders -> Rewinding]
    BY DEF Init, Rewinding
  <2>7. QED
    BY <1>1, <1>3, <2>1, <2>2, <2>3, <2>4, <2>5, <2>6 DEF TypeOK
<1>5. \A p \in Phases : ~Done(p)
  BY <1>2 DEF Done, Terminal
<1>6. InOrder
  BY <1>1, <1>5 DEF InOrder, TailIsFresh, Init
<1>7. \A o \in Reasons : o \notin OtherOps
  BY ReasonsAssumption
<1>8. Underway
  BY <1>7 DEF Underway, Init, OtherOps
<1>9. Counted
  BY <1>1, <1>2 DEF Counted, Init
<1>10. Paid /\ Account
  <2>1. Owed = {} /\ \A w \in Rewinders : ~Paying(w)
    BY DEF Owed, Init, Paying, At, Rest
  <2>2. QED
    BY <1>2, <2>1, FS_EmptySet DEF Paid, Account, Init
<1>11. Published
  BY DEF Published, Publishing, Afterwards, VerdictIsBacked, Init
<1>12. QED
  BY <1>4, <1>6, <1>8, <1>9, <1>10, <1>11 DEF IInv

(* The files, the counters and the next write fit together at all times.   *)
THEOREM PhaseInvariant == Spec => []IInv
<1>1. IInv /\ [Next]_vars => IInv'
  BY TypeStep, InOrderStep, UnderwayStep, CountedStep, PaidStep, AccountStep,
     PublishedStep
  DEF IInv
<1>2. QED
  BY InitInv, <1>1, PTL DEF Spec

(* Every file, counter and history variable keeps its type, and no counter *)
(* passes its cap.                                                         *)
THEOREM PhaseTypeCorrect == Spec => []TypeOK
<1>1. IInv => TypeOK
  BY DEF IInv
<1>2. QED
  BY PhaseInvariant, <1>1, PTL

(* No phase that was finished before a rewind survives behind work done    *)
(* after it.                                                               *)
THEOREM PhaseTailIsFresh == Spec => []TailIsFresh
<1>1. IInv => TailIsFresh
  BY DEF IInv, InOrder
<1>2. QED
  BY PhaseInvariant, <1>1, PTL

(* A reattempt is charged once, however often it is cut off and repeated.  *)
THEOREM PhaseChargedOnce == Spec => []ChargedOnce
<1>1. IInv => ChargedOnce
  <2> SUFFICES ASSUME IInv PROVE ChargedOnce
    OBVIOUS
  <2>1. ledger.pending # None => ledger.pending.reason \in Reasons
    BY DEF IInv, TypeOK, Ledgers, Intents
  <2>2. QED
    BY <2>1 DEF ChargedOnce, IInv, Counted
<1>2. QED
  BY PhaseInvariant, <1>1, PTL

(* What is published rests on a durable failure or on a complete ledger.   *)
THEOREM PhaseVerdictIsBacked == Spec => []VerdictIsBacked
<1>1. IInv => VerdictIsBacked
  BY DEF IInv, Published
<1>2. QED
  BY PhaseInvariant, <1>1, PTL

----------------------------------------------------------------------------
(* The promise.  Its steps are those of the abstract run; every other step *)
(* of the detailed one leaves what is promised unchanged.                  *)

Spent == <<cnt["iterations"], granted, lapsed>>
Todo  == {p \in Phases : ~Done(p)}

LEMMA TodoFacts ==
  ASSUME IInv
  PROVE  /\ IsFiniteSet(Phases) /\ Cardinality(Phases) = pipe.last
         /\ \A S \in SUBSET Phases :
              IsFiniteSet(S) /\ Cardinality(S) \in 0 .. pipe.last
         /\ Remaining = Cardinality(Todo) /\ pipe.last <= Length
<1>1. IsFiniteSet(Phases) /\ Cardinality(Phases) = pipe.last
  <2>1. 1 \in Int /\ pipe.last \in Int /\ pipe.last \in Nat
    BY Typed
  <2>2. /\ IsFiniteSet(1 .. pipe.last)
        /\ Cardinality(1 .. pipe.last)
             = IF 1 > pipe.last THEN 0 ELSE pipe.last - 1 + 1
    BY <2>1, FS_Interval
  <2>3. QED
    BY <2>1, <2>2 DEF Phases
<1>2. \A S \in SUBSET Phases : IsFiniteSet(S) /\ Cardinality(S) \in 0 .. pipe.last
  BY <1>1, FS_Subset, FS_CardinalityType
<1>3. QED
  BY <1>1, <1>2, PromiseAssumption DEF Remaining, Todo, IInv, TypeOK

LEMMA SpentFacts ==
  ASSUME IInv
  PROVE  /\ cnt \in [Counters -> Nat] /\ "iterations" \in Counters
         /\ "quality" \in Counters /\ granted \in Nat
         /\ cnt["iterations"] <= pipe.cap["iterations"]
         /\ pipe.cap["iterations"] \in Nat /\ Attempts \in Nat
         /\ pipe.cap["iterations"] <= Attempts
         /\ pipe.rewinds \in Nat /\ Grants \in Nat /\ pipe.rewinds <= Grants
  BY PipeFacts, PromiseAssumption DEF IInv, TypeOK, Counters

(* Verdict is none as long as commands may change anything.                *)
LEMMA Undecided ==
  ASSUME IInv, op \notin {"idle"} \cup Publishing \cup Afterwards \/ Ready
  PROVE  marker = {} /\ summary = "running" /\ Verdict = "none"
  BY DEF IInv, Published, Ready, Exact, Verdict

LEMMA Stutters ==
  ASSUME Remaining' = Remaining, Spent' = Spent, undone' = undone,
         Verdict' = Verdict
  PROVE  UNCHANGED Promise!vars
  BY DEF Promise!vars, Spent

LEMMA StayKeepsTodo ==
  ASSUME [Next]_vars, Stay
  PROVE  Remaining' = Remaining /\ undone' = undone
<1>1. Phases' = Phases
  BY PipeFixed
<1>2. {p \in Phases : ~Done(p)}' = {p \in Phases : ~Done(p)}
  BY <1>1 DEF Stay
<1>3. QED
  BY <1>2 DEF Remaining, Stay

LEMMA PromiseAdvance ==
  ASSUME IInv, [Next]_vars, NEW p \in Phases, Finish(p), Verdict = "none",
         Spent' = Spent, Verdict' = Verdict
  PROVE  Promise!Advance
<1>1. Phases' = Phases
  BY PipeFixed
<1>2. Todo' = Todo \ {p} /\ p \in Todo /\ Todo \subseteq Phases
  BY <1>1 DEF Todo, Finish
<1>3. IsFiniteSet(Todo) /\ Remaining = Cardinality(Todo)
  BY <1>2, TodoFacts
<1>4. Remaining' = Cardinality(Todo')
  BY DEF Remaining, Todo
<1>5. /\ Cardinality(Todo \ {p}) = Cardinality(Todo) - 1
      /\ Cardinality(Todo) \in Nat /\ Cardinality(Todo \ {p}) \in Nat
  BY <1>2, <1>3, FS_RemoveElement, FS_CardinalityType
<1>6. Remaining > 0 /\ Remaining' = Remaining - 1
  BY <1>2, <1>3, <1>4, <1>5
<1>7. QED
  BY <1>6 DEF Promise!Advance, Finish, Spent

LEMMA PromiseStepBack ==
  ASSUME IInv, [Next]_vars, NEW T \in SUBSET Phases, StepBack(T),
         Verdict = "none", undone < cnt["iterations"] + granted,
         Spent' = Spent, Verdict' = Verdict
  PROVE  Promise!StepBack
<1>1. Phases' = Phases /\ pipe' = pipe
  BY PipeFixed
<1>2. Todo \subseteq Todo' /\ Todo' \subseteq Phases
  BY <1>1 DEF Todo, StepBack
<1>3. IsFiniteSet(Todo') /\ Remaining = Cardinality(Todo)
  BY <1>2, TodoFacts
<1>4. Remaining' = Cardinality(Todo')
  BY DEF Remaining, Todo
<1>5. /\ Cardinality(Todo) \in Nat /\ Cardinality(Todo') \in Nat
      /\ Cardinality(Todo) <= Cardinality(Todo')
  BY <1>2, <1>3, FS_Subset, FS_CardinalityType
<1>6. Cardinality(Todo') <= Length /\ Length \in Nat
  BY <1>2, <1>5, TodoFacts, Typed, PromiseAssumption
<1>7. Remaining' \in Remaining .. Length
  BY <1>3, <1>4, <1>5, <1>6
<1>8. QED
  BY <1>7 DEF Promise!StepBack, StepBack, Spent

LEMMA PromiseInit == Init => Promise!Init
<1> SUFFICES ASSUME Init PROVE Promise!Init
  OBVIOUS
<1>1. IInv
  BY InitInv
<1>2. Todo = Phases
  BY DEF Todo, Done, Terminal, Phases, Init
<1>3. Remaining = pipe.last /\ pipe.last \in 1 .. Length
  BY <1>1, <1>2, TodoFacts, PipeFacts, PromiseAssumption DEF Init
<1>4. Verdict = "none" /\ Spent = <<0, 0, FALSE>>
  BY DEF Verdict, Init, Spent, Counters
<1>5. QED
  BY <1>3, <1>4 DEF Promise!Init, Init, Spent

LEMMA PromiseStep == IInv /\ [Next]_vars => [Promise!Next]_(Promise!vars)
<1> SUFFICES ASSUME IInv, [Next]_vars PROVE [Promise!Next]_(Promise!vars)
  OBVIOUS
<1>1. pipe' = pipe /\ Phases' = Phases
  BY PipeFixed
<1>2. \A o \in Reasons : o \notin OtherOps
  BY ReasonsAssumption
<1>3. ASSUME Stay, Spent' = Spent, Verdict' = Verdict
      PROVE  UNCHANGED Promise!vars
  BY <1>3, StayKeepsTodo, Stutters
<1>4. ASSUME NEW p \in Phases, Ready, CompletePhase(p) \/ SkipPhase(p)
      PROVE  Promise!Advance
  <2>1. Spent' = Spent /\ Verdict' = Verdict
    BY <1>4 DEF CompletePhase, SkipPhase, Spent, Verdict, policy, files
  <2>2. QED
    BY <1>4, <2>1, Finishes, Undecided, PromiseAdvance
<1>5. ASSUME NEW p \in Phases,
             \/ EnterPhase(p) \/ Resume(p) \/ LoopTick(p)
             \/ \E c \in Codes : FailPhase(p, c)
      PROVE  UNCHANGED Promise!vars
  <2>1. Stay
    BY <1>5, Restates DEF Resume, LoopTick, Stay, Done, history
  <2>2. Verdict' = Verdict
    BY <1>5 DEF EnterPhase, Resume, LoopTick, FailPhase, Verdict, files
  <2>3. Spent' = Spent
    <3>1. CASE LoopTick(p)
      <4>1. pipe.loop[p] \in Loops
        BY <3>1, PipeFacts DEF IInv, TypeOK, LoopTick
      <4>2. QED
        BY <3>1, <4>1, SpentFacts DEF LoopTick, Spent, policy, Loops
    <3>2. CASE ~LoopTick(p)
      BY <1>5, <3>2 DEF EnterPhase, Resume, FailPhase, Spent, policy
    <3>3. QED
      BY <3>1, <3>2
  <2>4. QED
    BY <1>3, <2>1, <2>2, <2>3
<1>6. CASE MirrorAttempt \/ WriteIntent
  <2>1. Spent' = Spent /\ Verdict' = Verdict
    BY <1>6 DEF MirrorAttempt, WriteIntent, Spent, Verdict, policy, files
  <2>2. QED
    BY <1>3, <1>6, <2>1, Notes
<1>7. ASSUME Stay, Verdict = "none", Verdict' = "none",
             cnt["iterations"] < pipe.cap["iterations"],
             cnt'["iterations"] = cnt["iterations"] + 1,
             UNCHANGED <<granted, lapsed>>
      PROVE  Promise!Attempt
  BY <1>7, SpentFacts, StayKeepsTodo DEF Promise!Attempt
<1>8. CASE BeginAttempt /\ Ready
  <2>1. Verdict = "none" /\ Verdict' = Verdict
    BY <1>8, Undecided DEF BeginAttempt, Verdict, files
  <2>2. cnt'["iterations"] = cnt["iterations"] + 1
    BY <1>8, SpentFacts DEF BeginAttempt
  <2>3. Stay
    BY <1>8 DEF BeginAttempt, Stay, Done, history
  <2>4. QED
    BY <1>7, <1>8, <2>1, <2>2, <2>3 DEF BeginAttempt, policy, Promise!Next
<1>9. CASE ChargeIteration
  <2>1. op \notin {"idle"} \cup Publishing \cup Afterwards
    BY <1>9 DEF ChargeIteration, Publishing, Afterwards
  <2>2. Verdict = "none" /\ Verdict' = Verdict
    BY <1>9, <2>1, Undecided DEF ChargeIteration, Verdict, files
  <2>3. cnt["iterations"] < pipe.cap["iterations"]
    BY <1>9, SpentFacts DEF IInv, Underway, Counted, ChargeIteration, IterationDue
  <2>4. cnt'["iterations"] = cnt["iterations"] + 1
    BY <1>9, SpentFacts DEF ChargeIteration
  <2>5. Stay
    BY <1>9 DEF ChargeIteration, Stay, Done, history
  <2>6. QED
    BY <1>7, <1>9, <2>2, <2>3, <2>4, <2>5 DEF ChargeIteration, policy, Promise!Next
<1>10. ASSUME NEW w \in Rewinders, AskRewind(w) PROVE Promise!Grant
  <2>1. /\ Stay /\ Verdict' = Verdict /\ granted' = granted + 1
        /\ cnt'["iterations"] = cnt["iterations"]
    BY <1>10 DEF AskRewind, Verdict, files, Stay, Done, history
  <2>2. lapsed' \in {lapsed, TRUE}
    BY <1>10 DEF AskRewind
  <2>3. granted < Grants \/ lapsed'
    <3>1. CASE lapsed'
      BY <3>1
    <3>2. CASE ~lapsed'
      <4>1. ~lapsed /\ (\A v \in Rewinders : ~Paying(v)) /\ rewinds < pipe.rewinds
        BY <1>10, <3>2 DEF AskRewind
      <4>2. granted = rewinds
        BY <4>1 DEF IInv, Account
      <4>3. QED
        BY <4>1, <4>2, SpentFacts
    <3>3. QED
      BY <3>1, <3>2
  <2>4. QED
    BY <2>1, <2>2, <2>3, StayKeepsTodo DEF Promise!Grant
<1>11. CASE CommitRewind
  <2>1. op \notin {"idle"} \cup Publishing \cup Afterwards
    BY <1>11 DEF CommitRewind, Publishing, Afterwards
  <2>2. Verdict = "none" /\ Verdict' = Verdict /\ Spent' = Spent
    BY <1>11, <2>1, Undecided DEF CommitRewind, Verdict, Spent, policy, files
  <2>3. cnt["iterations"] = ledger.attempt + 1 /\ ledger.attempt \in Nat
    BY <1>11, SpentFacts, Typed
    DEF IInv, Underway, Counted, CommitRewind, IterationDue, Ledgers
  <2>4. undone < cnt["iterations"] + granted
    <3>1. /\ Cardinality(Owed) \in Nat /\ granted \in Nat /\ undone \in Nat
          /\ undone + Cardinality(Owed) <= ledger.attempt + granted
      BY SpentFacts, OwedSteps, Typed DEF IInv, Paid
    <3>2. QED
      BY <2>3, <3>1
  <2>5. QED
    BY <1>11, <2>2, <2>4, Commits, PromiseStepBack DEF Promise!Next
<1>12. ASSUME NEW w \in Rewinders, ReopenPhase(w)
       PROVE  Promise!Next \/ UNCHANGED Promise!vars
  <2>1. Verdict' = Verdict /\ Spent' = Spent
    BY <1>12 DEF ReopenPhase, Verdict, Spent, files
  <2>2. CASE ~Ready
    BY <1>3, <1>12, <2>1, <2>2 DEF ReopenPhase, Stay, Done
  <2>3. CASE Ready
    <3>1. Verdict = "none"
      BY <2>3, Undecided
    <3>2. ledger.attempt <= cnt["iterations"] /\ ledger.attempt \in Nat
      BY SpentFacts, Typed, SMTT(30) DEF IInv, Counted, Ledgers
    <3>3. Cardinality(Owed) # 0
      <4>1. w \in Owed
        BY <1>12 DEF Owed, ReopenPhase, At, Rest
      <4>2. QED
        BY <4>1, OwedSteps, FS_EmptySet
    <3>4. undone < cnt["iterations"] + granted
      BY <3>2, <3>3, SpentFacts, OwedSteps, Typed, SMTT(30) DEF IInv, Paid
    <3>5. QED
      BY <1>3, <1>12, <2>1, <3>1, <3>4, Reopens, PromiseStepBack DEF Promise!Next
  <2>4. QED
    BY <2>2, <2>3
<1>13. CASE PublishMarker
  <2>1. PICK p \in Phases : Current(p) /\ summary = "running"
                            /\ marker \subseteq {<<p, ledger.code>>}
    BY <1>13 DEF IInv, Published, Publishing, PublishMarker
  <2>2. marker' = {<<p, ledger.code>>}
    BY <1>13, <2>1, FailureOf DEF IInv, TypeOK, PublishMarker
  <2>3. Verdict' = "failure" /\ Spent' = Spent /\ Stay
    BY <1>13, <2>2 DEF PublishMarker, Verdict, Spent, policy, Stay, Done, history
  <2>4. CASE marker # {}
    BY <1>3, <2>3, <2>4 DEF Verdict
  <2>5. CASE marker = {}
    <3>1. Verdict = "none"
      BY <2>1, <2>5 DEF Verdict
    <3>2. p \in Todo /\ Todo \subseteq Phases
      BY <2>1 DEF Todo, Current
    <3>3. Remaining > 0
      BY <3>2, TodoFacts, FS_EmptySet, Typed
    <3>4. Promise!Fail
      BY <2>3, <3>1, <3>3, StayKeepsTodo DEF Promise!Fail, Spent
    <3>5. QED
      BY <3>4 DEF Promise!Next
  <2>6. QED
    BY <2>4, <2>5
<1>14. CASE FailVerdict
  <2>1. marker # {}
    BY <1>14 DEF IInv, Published, Publishing, FailVerdict
  <2>2. Verdict' = Verdict /\ Spent' = Spent /\ Stay
    BY <1>14, <2>1 DEF FailVerdict, Verdict, Spent, policy, Stay, Done, history
  <2>3. QED
    BY <1>3, <2>2
<1>15. CASE Succeed
  <2>1. IsComplete /\ marker = {} /\ summary = "running"
    BY <1>15 DEF IInv, Underway, Published, Publishing, Afterwards, Succeed, Ready,
       Exact
  <2>2. Verdict = "none" /\ Verdict' = "success" /\ Spent' = Spent /\ Stay
    BY <1>15, <2>1 DEF Succeed, Verdict, Spent, policy, Stay, Done, history
  <2>3. Todo = {}
    BY <2>1 DEF Todo, IsComplete, Finished
  <2>4. Remaining = 0
    BY <2>3, TodoFacts, FS_EmptySet
  <2>5. Promise!Succeed
    BY <2>2, <2>4, StayKeepsTodo DEF Promise!Succeed, Spent
  <2>6. QED
    BY <2>5 DEF Promise!Next
<1>16. CASE ChargeQuality
  <2>1. Spent' = Spent
    BY <1>16, SpentFacts DEF ChargeQuality, Spent, policy
  <2>2. Verdict' = Verdict /\ Stay
    BY <1>16 DEF ChargeQuality, Verdict, files, history, Stay, Done
  <2>3. QED
    BY <1>3, <2>1, <2>2
<1>17. CASE UNCHANGED <<ledger, cnt, granted, lapsed, undone, settled, marker,
                        summary>>
  BY <1>3, <1>17 DEF Stay, Done, Spent, Verdict
<1>18. ASSUME NEW w \in Rewinders, LogFails(w) \/ RewinderDies(w)
       PROVE  Promise!Lapse \/ UNCHANGED Promise!vars
  <2>1. /\ Stay /\ Verdict' = Verdict /\ granted' = granted
        /\ cnt'["iterations"] = cnt["iterations"]
    BY <1>18 DEF LogFails, RewinderDies, Verdict, files, Stay, Done, history
  <2>2. lapsed' \in {lapsed, TRUE}
    BY <1>18, PayerType DEF LogFails, RewinderDies, Paying, At
  <2>3. CASE lapsed' = lapsed
    BY <1>3, <2>1, <2>3 DEF Spent
  <2>4. CASE lapsed' = TRUE
    BY <2>1, <2>4, StayKeepsTodo DEF Promise!Lapse
  <2>5. QED
    BY <2>2, <2>3, <2>4
<1>19. QED
  BY <1>4, <1>5, <1>6, <1>8, <1>9, <1>10, <1>11, <1>12, <1>13, <1>14, <1>15,
     <1>16, <1>17, <1>18
  DEF Next, Command, Progress, Write, Mishap, vars, policy, history, files, Promise!Next,
    RollBackStories, PassStories, Plan, ResumeReattempt, KeepPrd, Republish,
    CompletionEvent, FailureEvent, Announce, ReleasePointer, Crash, TruncateLog, WriteLog

(* Whatever is interrupted, repeated or interleaved, phases are finished   *)
(* one at a time, a step back is paid for before it is taken, and one      *)
(* verdict is given, success only with nothing left to do.                 *)
THEOREM PhaseKeepsPromise == Spec => KeepsPromise
<1>1. IInv /\ [Next]_vars => [Promise!Next]_(Promise!vars)
  BY PromiseStep
<1>2. QED
  BY PromiseInit, PhaseInvariant, <1>1, PTL DEF Spec, KeepsPromise, Promise!Spec

=============================================================================
