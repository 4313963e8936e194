------------------------ MODULE AthenaSchedulerProofs ------------------------
(***************************************************************************)
(* Proofs about AthenaScheduler, for any number of stories, dependencies   *)
(* and assignments, and any number of crashes and commits of others.       *)
(***************************************************************************)
EXTENDS AthenaScheduler, TLAPS

(* The process has saved all that it knows, except the failure of a worker *)
(* it is about to report.                                                  *)
Sync ==
  /\ pc # "fail" => mem = file
  /\ pc = "fail" =>
       \/ mem = file
       \/ \E s \in Stories : /\ file.task[s] = "running"
                             /\ mem = [file EXCEPT !.task[s] = "failed"]

Collecting == {"collect", "merge", "record"}
Stopping   == {"stop", "shutdown", "stopped"}
Working    == Collecting \cup {"verify", "conclude", "plan", "launch", "spawn",
                               "confirm", "fail"}

(* A tick that works has found a run that has not ended, and the wave in   *)
(* the state that belongs to the place where it is.                        *)
Placed ==
  /\ pc \in Working => cmd = "tick" /\ file.status \notin Ended
  /\ pc \in Collecting => file.launch = "launched" /\ todo \subseteq file.members \ file.merged
  /\ pc \in {"merge", "record"} => \A s \in Stories : First(s) => s \in file.merging
  /\ pc = "verify" => file.launch = "launched" /\ file.members \subseteq file.merged
  /\ pc = "conclude" => file.halt = "completed"
  /\ pc = "plan" => file.launch = "none"
  /\ pc = "launch" => file.launch = "prepared" /\ file.halt = "no"
  /\ pc \in {"spawn", "confirm"} => file.launch = "started" /\ file.halt = "no"
  /\ pc = "spawn" => todo \subseteq file.members
  /\ pc \in {"shutdown", "stopped"} => file.launch # "none" /\ file.halt = "pending"
  /\ pc = "cancel" => cmd = "cancel" /\ Stopped(file)
  /\ pc \in Stopping /\ cmd = "tick" => file.status \notin {"completed", "cancelled"}

(* A stop without a failure or a cancel follows a verification.            *)
PassedFirst ==
  \/ pc \in Stopping /\ cmd = "tick" /\ file.status \notin Ended
  \/ pc = "conclude"
  => /\ file.launch = "launched" /\ file.members \subseteq file.merged
     /\ file.head \in passed

(* The status of a story follows from its place in the wave.               *)
TaskStates ==
  file.status \notin Ended =>
    \A s \in Stories :
      /\ s \notin file.members => file.task[s] \in {"pending", "integrated"}
      /\ s \in file.members /\ file.launch # "launched" => file.task[s] = "launching"
      /\ s \in file.members \ file.merged /\ file.launch = "launched" => file.task[s] = "running"
      /\ s \in file.merged => file.task[s] = "merged"

Said(m) == {s \in Stories : m.task[s] \in {"merged", "integrated", "merged_unverified"}}

(* HEAD, what the state expects of it and what it says of the stories.     *)
HeadKnown ==
  /\ file.head.stories = Said(file)
  /\ file.head.stories \subseteq head.stories
  /\ head.stories \subseteq file.head.stories \cup file.merging
  /\ pc \in Working \ {"record", "fail"} => head.stories = file.head.stories
  /\ pc = "record" =>
       \A s \in Stories : First(s) => head.stories = file.head.stories \cup {s}

Inputs(s) == DependsOn[s] \cup {t \in 1 .. (s - 1) : WorkerOf[t] = WorkerOf[s]}

(* A story that was not announced was not launched; one that was has       *)
(* verified inputs.                                                        *)
LaunchesKnown ==
  /\ Integrated(file) \subseteq Verified
  /\ \A s \in Stories :
       /\ launches[s] <= 1
       /\ file.task[s] = "pending" => launches[s] = 0
       /\ file.task[s] # "pending" => Inputs(s) \subseteq Verified
       /\ file.launch \in {"none", "prepared"} /\ s \in file.members => launches[s] = 0
       /\ pc = "launch" /\ s \in todo =>
            file.task[s] = "pending" /\ Inputs(s) \subseteq Integrated(file)
       /\ pc = "spawn" /\ s \in todo => launches[s] = 0

(* Without a wave the expected HEAD is the verified one.                   *)
RestVerified ==
  /\ file.launch = "none" /\ Integrated(file) # {} => file.head \in passed
  /\ file.status = "completed" =>
       file.launch = "none" /\ file.head \in passed /\ file.head.stories = Stories

(* Workers live in a wave that is not stopped.                             *)
LiveInWave ==
  /\ \A s \in Stories : worker[s] = "live" =>
       s \in file.members /\ file.halt # "completed" /\ pc # "stopped"
  /\ file.status \in {"completed", "cancelled"} => Stopped(file)

IInv ==
  /\ TypeOK /\ Sync /\ Placed /\ PassedFirst /\ TaskStates /\ HeadKnown
  /\ LaunchesKnown /\ RestVerified /\ LiveInWave

USE DEF vars, procVars, workerVars, Outside, Here, Save, Goto,
        IInv, Sync, Ended, Collecting, Stopping, Working, Stopped, AfterStop, AfterError, Unseen

(* The run created has no wave, no worker and an empty history.            *)
LEMMA InitInv == Init => IInv
<1>1. Init => TypeOK
  <2>1. Init => Created \in States /\ WaveShape(Created) /\ head \in Heads
    BY BoundAssumption DEF Init, Created, States, WaveShape, Heads
  <2>2. Init => /\ pc \in Unlocked <=> lock # "held"
                /\ pc \in Places /\ lock = "free" /\ cmd = "tick"
    BY DEF Init, Unlocked, Places
  <2>3. Init => /\ todo \in SUBSET Stories /\ passed \in SUBSET Heads
                /\ seen \in [failed : SUBSET Stories, ended : SUBSET Stories]
    BY SMT DEF Init
  <2>4. Init => /\ worker \in [Stories -> {"none", "live", "ended", "dead"}]
                /\ result \in [Stories -> {"none", "completed", "failed"}]
                /\ launches \in [Stories -> Nat] /\ crashes \in 0 .. MaxCrashes
    BY BoundAssumption DEF Init
  <2>5. Init => file = Created /\ mem = Created
    BY DEF Init
  <2>6. Init => team \in BOOLEAN
    BY DEF Init
  <2> QED
    BY <2>1, <2>2, <2>3, <2>4, <2>5, <2>6 DEF TypeOK
<1>2. Init => Sync
  BY DEF Init, Created, TypeOK, States
<1>3. Init => Placed
  BY DEF Init, Created, Placed, First, TypeOK, WaveShape, States
<1>4. Init => PassedFirst
  BY DEF Init, Created, PassedFirst, Placed
<1>5. Init => TaskStates
  BY DEF Init, Created, TaskStates, Placed, TypeOK, WaveShape, States
<1>6. Init => HeadKnown
  BY DEF Init, Created, HeadKnown, First, Said, Placed, TypeOK, States, Heads
<1>7. Init => LaunchesKnown
  BY DEF Init, Created, LaunchesKnown, Integrated, Verified, Placed, TypeOK, WaveShape,
         States, TaskStates
<1>8. Init => RestVerified
  BY DEF Init, Created, RestVerified, Integrated, Placed, TypeOK, WaveShape, States
<1>9. Init => LiveInWave
  BY DEF Init, Created, LiveInWave, Placed, TypeOK, WaveShape, States
<1> QED
  BY <1>1, <1>2, <1>3, <1>4, <1>5, <1>6, <1>7, <1>8, <1>9

-----------------------------------------------------------------------------
(* One lemma per action, one step per part of IInv; parts that the solver   *)
(* takes together share a step.  First, the tick lock and the process.      *)

LEMMA BeginInv == ASSUME NEW c \in {"tick", "cancel"}, IInv, Begin(c) PROVE IInv'
<1>1. TypeOK' BY DEF Begin, TypeOK, WaveShape, Unlocked, States, Places
<1>2. Sync' /\ Placed' /\ PassedFirst' /\ TaskStates'
  BY DEF Begin, TypeOK, States, Placed, First, WaveShape, PassedFirst, TaskStates
<1>3. HeadKnown'
  BY DEF Begin, HeadKnown, First, Said, Placed, TypeOK, States, Heads
<1>4. LaunchesKnown' /\ RestVerified' /\ LiveInWave'
  BY DEF Begin, LaunchesKnown, Integrated, Verified, Placed, TypeOK, WaveShape, States,
         TaskStates, RestVerified, LiveInWave
<1> QED BY <1>1, <1>2, <1>3, <1>4

LEMMA WriteOwnerInv == ASSUME IInv, WriteOwner PROVE IInv'
<1>1. TypeOK' BY DEF WriteOwner, TypeOK, WaveShape, Unlocked, States, Places
<1>2. Sync' /\ Placed' /\ PassedFirst' /\ TaskStates'
  BY DEF WriteOwner, TypeOK, States, Placed, First, WaveShape, PassedFirst, TaskStates
<1>3. HeadKnown'
  BY DEF WriteOwner, HeadKnown, First, Said, Placed, TypeOK, States, Heads
<1>4. LaunchesKnown' /\ RestVerified' /\ LiveInWave'
  BY DEF WriteOwner, LaunchesKnown, Integrated, Verified, Placed, TypeOK, WaveShape,
         States, TaskStates, RestVerified, LiveInWave
<1> QED BY <1>1, <1>2, <1>3, <1>4

LEMMA UnlockInv == ASSUME IInv, Unlock PROVE IInv'
<1>1. TypeOK'
  BY DEF Unlock, TypeOK, WaveShape, Unlocked, States, Places
<1>2. Sync' /\ Placed' /\ PassedFirst' /\ TaskStates'
  BY DEF Unlock, TypeOK, States, Placed, First, WaveShape, PassedFirst, TaskStates
<1>3. HeadKnown'
  BY DEF Unlock, HeadKnown, First, Said, Placed, TypeOK, States, Heads
<1>4. LaunchesKnown' /\ RestVerified' /\ LiveInWave'
  BY DEF Unlock, LaunchesKnown, Integrated, Verified, Placed, TypeOK, WaveShape, States,
         TaskStates, RestVerified, LiveInWave
<1> QED BY <1>1, <1>2, <1>3, <1>4

LEMMA CrashInv == ASSUME IInv, Crash PROVE IInv'
<1>1. TypeOK'
  BY BoundAssumption DEF Crash, TypeOK, Unlocked, Places
<1>2. Sync' /\ Placed' /\ PassedFirst' /\ TaskStates'
  BY DEF Crash, TypeOK, States, Placed, First, WaveShape, PassedFirst, TaskStates
<1>3. HeadKnown'
  BY DEF Crash, HeadKnown, First, Said, Placed, TypeOK, States, Heads
<1>4. LaunchesKnown' /\ RestVerified' /\ LiveInWave'
  BY DEF Crash, LaunchesKnown, Integrated, Verified, Placed, TypeOK, WaveShape, States,
         TaskStates, RestVerified, LiveInWave
<1> QED BY <1>1, <1>2, <1>3, <1>4

-----------------------------------------------------------------------------
(* Reading the state, collecting and verifying a wave.                     *)

LEMMA ReadRuntimeInv == ASSUME IInv, ReadRuntime PROVE IInv'
<1>1. TypeOK'
  BY DEF ReadRuntime, AfterRead, Ambiguous, Polls, TypeOK, WaveShape, Unlocked, States,
         Places
<1>2. Sync' /\ Placed' /\ PassedFirst' /\ TaskStates'
  BY DEF ReadRuntime, AfterRead, Ambiguous, Polls, TypeOK, States, Placed, First,
         WaveShape, PassedFirst, TaskStates
<1>3. HeadKnown'
  BY DEF ReadRuntime, AfterRead, Ambiguous, Polls, HeadKnown, First, Said, Placed,
         TypeOK, States, Heads
<1>4. LaunchesKnown' /\ RestVerified' /\ LiveInWave'
  BY DEF ReadRuntime, AfterRead, Ambiguous, Polls, LaunchesKnown, Integrated, Verified,
         Placed, TypeOK, WaveShape, States, TaskStates, RestVerified, LiveInWave
<1> QED BY <1>1, <1>2, <1>3, <1>4

LEMMA SeeFailureInv == ASSUME NEW s \in Stories, IInv, SeeFailure(s) PROVE IInv'
<1>1. TypeOK'
  BY DEF SeeFailure, First, TypeOK, WaveShape, Unlocked, States, Places
<1>2. Sync'
  <2>1. file.task[s] = "running" /\ mem = file
    BY DEF SeeFailure, First, Placed, TaskStates
  <2> QED
    BY <2>1 DEF SeeFailure
<1>3. Placed' /\ PassedFirst' /\ TaskStates'
  BY DEF SeeFailure, First, Placed, TypeOK, WaveShape, States, PassedFirst, TaskStates
<1>4. HeadKnown'
  BY DEF SeeFailure, First, HeadKnown, Said, Placed, TypeOK, States, Heads
<1>5. LaunchesKnown' /\ RestVerified' /\ LiveInWave'
  BY DEF SeeFailure, First, LaunchesKnown, Integrated, Verified, Placed, TypeOK,
         WaveShape, States, TaskStates, RestVerified, LiveInWave
<1> QED BY <1>1, <1>2, <1>3, <1>4, <1>5

LEMMA SkipWorkerInv == ASSUME NEW s \in Stories, IInv, SkipWorker(s) PROVE IInv'
<1>1. TypeOK'
  BY DEF SkipWorker, First, TypeOK, WaveShape, Unlocked, States, Places
<1>2. Sync' /\ Placed' /\ PassedFirst' /\ TaskStates'
  BY DEF SkipWorker, First, TypeOK, States, Placed, WaveShape, PassedFirst, TaskStates
<1>3. HeadKnown'
  <2>1. Said(file') = Said(file)
    BY DEF SkipWorker, Said, First, TypeOK, States
  <2> QED
    BY <2>1 DEF SkipWorker, HeadKnown, First
<1>4. LaunchesKnown' /\ RestVerified' /\ LiveInWave'
  BY DEF SkipWorker, First, LaunchesKnown, Integrated, Verified, Placed, TypeOK,
         WaveShape, States, TaskStates, RestVerified, LiveInWave
<1> QED BY <1>1, <1>2, <1>3, <1>4

LEMMA AskShutdownInv == ASSUME NEW s \in Stories, IInv, AskShutdown(s) PROVE IInv'
<1>1. TypeOK'
  <2>1. mem' \in States
    BY DEF AskShutdown, First, TypeOK, States
  <2>2. WaveShape(mem')
    BY DEF AskShutdown, First, TypeOK, WaveShape, States, Placed
  <2> QED
    BY <2>1, <2>2 DEF AskShutdown, TypeOK, Unlocked, Places, First
<1>2. Sync' /\ Placed' /\ PassedFirst' /\ TaskStates'
  BY DEF AskShutdown, First, TypeOK, States, Placed, WaveShape, PassedFirst, TaskStates
<1>3. HeadKnown'
  <2>1. Said(file') = Said(file)
    BY DEF AskShutdown, Said, First, TypeOK, States
  <2> QED
    BY <2>1 DEF AskShutdown, HeadKnown, First
<1>4. LaunchesKnown' /\ RestVerified' /\ LiveInWave'
  BY DEF AskShutdown, First, LaunchesKnown, Integrated, Verified, Placed, TypeOK,
         WaveShape, States, TaskStates, RestVerified, LiveInWave
<1> QED BY <1>1, <1>2, <1>3, <1>4

LEMMA IntendMergeInv == ASSUME NEW s \in Stories, IInv, IntendMerge(s) PROVE IInv'
<1>1. TypeOK'
  BY DEF IntendMerge, First, TypeOK, WaveShape, Unlocked, States, Places
<1>2. Sync' BY DEF IntendMerge, First, TypeOK, States
<1>3. Placed'
  <2>1. \A t \in Stories : First(t)' => t = s
    BY DEF IntendMerge, First, Stories
  <2> QED
    BY <2>1 DEF IntendMerge, Placed, TypeOK, States
<1>4. PassedFirst' /\ TaskStates'
  BY DEF IntendMerge, First, PassedFirst, Placed, TaskStates, TypeOK, WaveShape, States
<1>5. HeadKnown'
  <2>1. Said(file') = Said(file)
    BY DEF IntendMerge, Said, First, TypeOK, States
  <2> QED
    BY <2>1 DEF IntendMerge, HeadKnown, First
<1>6. LaunchesKnown' /\ RestVerified' /\ LiveInWave'
  BY DEF IntendMerge, First, LaunchesKnown, Integrated, Verified, Placed, TypeOK,
         WaveShape, States, TaskStates, RestVerified, LiveInWave
<1> QED BY <1>1, <1>2, <1>3, <1>4, <1>5, <1>6

LEMMA MergeInv == ASSUME NEW s \in Stories, IInv, Merge(s) PROVE IInv'
<1>1. TypeOK'
  BY DEF Merge, First, Heads, TypeOK, WaveShape, Unlocked, States, Places
<1>2. Sync' /\ Placed' /\ PassedFirst' /\ TaskStates'
  BY DEF Merge, First, Heads, TypeOK, States, Placed, WaveShape, PassedFirst, TaskStates
<1>3. HeadKnown'
  <2>1. head'.stories = head.stories \cup {s}
    BY DEF Merge, TypeOK, Heads
  <2>2. \A t \in Stories : First(t)' => t = s
    BY DEF Merge, First, Stories
  <2>3. s \in file.merging
    BY DEF Merge, Placed
  <2> QED
    BY <2>1, <2>2, <2>3 DEF Merge, HeadKnown, Said
<1>4. LaunchesKnown' /\ RestVerified' /\ LiveInWave'
  BY DEF Merge, First, Heads, LaunchesKnown, Integrated, Verified, Placed, TypeOK,
         WaveShape, States, TaskStates, RestVerified, LiveInWave
<1> QED BY <1>1, <1>2, <1>3, <1>4

LEMMA RecordMergeInv == ASSUME NEW s \in Stories, IInv, RecordMerge(s) PROVE IInv'
<1>1. TypeOK'
  <2>1. mem' \in States
    BY ZenonT(40) DEF RecordMerge, First, Heads, TypeOK, States
  <2>2. WaveShape(mem')
    BY DEF RecordMerge, First, Heads, TypeOK, WaveShape, States, Placed
  <2> QED
    BY <2>1, <2>2 DEF RecordMerge, TypeOK, Unlocked, Places, First
<1>2. Sync' /\ Placed' /\ PassedFirst' /\ TaskStates'
  BY DEF RecordMerge, First, Heads, TypeOK, States, Placed, WaveShape, PassedFirst,
         TaskStates
<1>3. HeadKnown'
  BY DEF RecordMerge, First, Heads, HeadKnown, Said, Placed, TypeOK, States
<1>4. LaunchesKnown' /\ RestVerified' /\ LiveInWave'
  BY DEF RecordMerge, First, Heads, LaunchesKnown, Integrated, Verified, Placed, TypeOK,
         WaveShape, States, TaskStates, RestVerified, LiveInWave
<1> QED BY <1>1, <1>2, <1>3, <1>4

LEMMA CollectedInv == ASSUME IInv, Collected PROVE IInv'
<1>1. TypeOK' BY DEF Collected, TypeOK, WaveShape, Unlocked, States, Places
<1>2. Sync' /\ Placed' /\ PassedFirst' /\ TaskStates'
  BY DEF Collected, TypeOK, States, Placed, First, WaveShape, PassedFirst, TaskStates
<1>3. HeadKnown'
  BY DEF Collected, HeadKnown, First, Said
<1>4. LaunchesKnown' /\ RestVerified' /\ LiveInWave'
  BY DEF Collected, LaunchesKnown, Integrated, Verified, Placed, TypeOK, WaveShape,
         States, TaskStates, RestVerified, LiveInWave
<1> QED BY <1>1, <1>2, <1>3, <1>4

LEMMA VerifyInv == ASSUME IInv, Verify PROVE IInv'
<1>1. TypeOK' BY DEF Verify, TypeOK, WaveShape, Unlocked, States, Places
<1>2. Sync' /\ Placed' /\ PassedFirst' /\ TaskStates'
  BY DEF Verify, TypeOK, States, Placed, First, WaveShape, PassedFirst, TaskStates
<1>3. HeadKnown'
  BY DEF Verify, HeadKnown, First, Said, Placed, TypeOK, States, Heads
<1>4. LaunchesKnown' /\ RestVerified' /\ LiveInWave'
  BY DEF Verify, LaunchesKnown, Integrated, Verified, Placed, TypeOK, WaveShape, States,
         TaskStates, RestVerified, LiveInWave
<1> QED BY <1>1, <1>2, <1>3, <1>4

LEMMA ConcludeInv == ASSUME IInv, Conclude PROVE IInv'
<1>1. TypeOK'
  <2>1. mem' \in States
    BY DEF Conclude, NoWave, TypeOK, States
  <2>2. WaveShape(mem')
    BY DEF Conclude, NoWave, TypeOK, WaveShape, States, TaskStates, Placed
  <2> QED
    BY <2>1, <2>2 DEF Conclude, TypeOK, Unlocked, Places
<1>2. Sync' /\ Placed' /\ PassedFirst' /\ TaskStates'
  BY DEF Conclude, NoWave, TypeOK, States, Placed, First, WaveShape, PassedFirst,
         TaskStates
<1>3. HeadKnown'
  <2>1. Said(file') = Said(file)
    BY DEF Conclude, Said, NoWave, PassedFirst, TaskStates, Placed, TypeOK, States
  <2>2. file.merging \subseteq file.merged
    BY DEF Conclude, PassedFirst, TypeOK, WaveShape
  <2>3. file.merging \subseteq Said(file)
    BY <2>2 DEF Conclude, Placed, TaskStates, Said, TypeOK, WaveShape, States
  <2>4. head.stories = file.head.stories
    BY <2>3 DEF HeadKnown
  <2>5. file'.head = file.head /\ head' = head /\ pc' = "plan"
    BY DEF Conclude, NoWave, TypeOK, States
  <2> QED
    BY <2>1, <2>4, <2>5 DEF HeadKnown
<1>4. LaunchesKnown'
  <2>1. Integrated(file') = Integrated(file) \cup file.members
    BY DEF Conclude, NoWave, Integrated, TypeOK, States
  <2>2. \A s \in file.members : file.task[s] = "merged"
    BY DEF Conclude, PassedFirst, Placed, TaskStates, TypeOK, States
  <2>3. file.members \subseteq file.head.stories /\ file.head \in passed
    BY <2>2 DEF Conclude, PassedFirst, HeadKnown, Said, TypeOK, States
  <2>4. file.members \subseteq Verified
    BY <2>3 DEF Verified
  <2>5. \A s \in Stories : file'.task[s] = "pending" <=> file.task[s] = "pending"
    BY <2>2 DEF Conclude, NoWave, TypeOK, States
  <2>6. file'.members = {} /\ pc' = "plan" /\ UNCHANGED <<launches, passed>>
    BY DEF Conclude, NoWave, TypeOK, States
  <2> QED
    BY <2>1, <2>4, <2>5, <2>6 DEF LaunchesKnown, Verified
<1>5. RestVerified'
  BY DEF Conclude, NoWave, RestVerified, PassedFirst, Placed, TypeOK, States
<1>6. LiveInWave'
  BY DEF Conclude, NoWave, LiveInWave, Placed, TypeOK, WaveShape, States
<1> QED BY <1>1, <1>2, <1>3, <1>4, <1>5, <1>6

-----------------------------------------------------------------------------
(* The next wave.                                                          *)

LEMMA PlanNothingInv == ASSUME IInv, PlanNothing PROVE IInv'
<1>1. TypeOK'
  <2>1. mem' \in States
    BY DEF PlanNothing, ReadyTasks, TypeOK, States
  <2>2. WaveShape(mem')
    BY DEF PlanNothing, ReadyTasks, TypeOK, WaveShape, States
  <2> QED
    BY <2>1, <2>2 DEF PlanNothing, TypeOK, Unlocked, Places
<1>2. Sync' /\ Placed' /\ PassedFirst' /\ TaskStates'
  BY DEF PlanNothing, ReadyTasks, TypeOK, States, Placed, First, WaveShape, PassedFirst,
         TaskStates
<1>3. HeadKnown'
  BY DEF PlanNothing, ReadyTasks, HeadKnown, First, Said, Placed, TypeOK, States, Heads
<1>4. LaunchesKnown'
  BY DEF PlanNothing, ReadyTasks, LaunchesKnown, Integrated, Verified, Placed, TypeOK,
         WaveShape, States, TaskStates
<1>5. RestVerified'
  <2>1. Integrated(file') = Integrated(file)
    BY DEF PlanNothing, Integrated, TypeOK, States
  <2>2. Stories # {}
    BY StoryAssumption DEF Stories
  <2>3. Integrated(file) = Stories => file.head.stories = Stories
    BY DEF Integrated, HeadKnown, Said
  <2> QED
    BY <2>1, <2>2, <2>3 DEF PlanNothing, RestVerified, Placed, TypeOK, States
<1>6. LiveInWave'
  BY DEF PlanNothing, ReadyTasks, LiveInWave, Placed, TypeOK, WaveShape, States
<1> QED BY <1>1, <1>2, <1>3, <1>4, <1>5, <1>6

LEMMA PlanWaveInv == ASSUME IInv, PlanWave PROVE IInv'
<1>1. TypeOK'
  BY DEF PlanWave, ReadyTasks, TypeOK, WaveShape, Unlocked, States, Places
<1>2. Sync' /\ Placed' /\ PassedFirst' /\ TaskStates'
  BY DEF PlanWave, ReadyTasks, TypeOK, States, Placed, First, WaveShape, PassedFirst,
         TaskStates
<1>3. HeadKnown'
  <2>1. Said(file') = Said(file)
    BY DEF PlanWave, Said, First, TypeOK, States
  <2> QED
    BY <2>1 DEF PlanWave, HeadKnown, First
<1>4. LaunchesKnown'
  <2>1. Integrated(file') = Integrated(file)
    BY DEF PlanWave, Integrated, TypeOK, States
  <2>2. \A s \in todo' : file.task[s] = "pending" /\ Inputs(s) \subseteq Integrated(file)
    BY DEF PlanWave, ReadyTasks, Inputs, Integrated, Stories
  <2> QED
    BY <2>1, <2>2 DEF PlanWave, LaunchesKnown, Verified, TypeOK, WaveShape, States, Placed
<1>5. RestVerified' /\ LiveInWave'
  BY DEF PlanWave, ReadyTasks, RestVerified, Integrated, Placed, TypeOK, WaveShape,
         States, LiveInWave
<1> QED BY <1>1, <1>2, <1>3, <1>4, <1>5

LEMMA LaunchStoryInv == ASSUME NEW s \in Stories, IInv, LaunchStory(s) PROVE IInv'
<1>1. TypeOK'
  <2>1. mem' \in States
    BY ZenonT(40) DEF LaunchStory, First, TypeOK, States
  <2>2. WaveShape(mem')
    BY DEF LaunchStory, First, TypeOK, WaveShape, States, Placed
  <2> QED
    BY <2>1, <2>2 DEF LaunchStory, TypeOK, Unlocked, Places, First
<1>2. Sync' /\ Placed' /\ PassedFirst' /\ TaskStates'
  BY DEF LaunchStory, First, TypeOK, States, Placed, WaveShape, PassedFirst, TaskStates
<1>3. HeadKnown'
  <2>1. Said(file') = Said(file)
    BY DEF LaunchStory, Said, LaunchesKnown, First, TypeOK, States
  <2> QED
    BY <2>1 DEF LaunchStory, HeadKnown, First
<1>4. LaunchesKnown' /\ RestVerified' /\ LiveInWave'
  BY DEF LaunchStory, First, LaunchesKnown, Integrated, Verified, Placed, TypeOK,
         WaveShape, States, TaskStates, RestVerified, LiveInWave
<1> QED BY <1>1, <1>2, <1>3, <1>4

LEMMA StartWaveInv == ASSUME IInv, StartWave PROVE IInv'
<1>1. TypeOK' BY DEF StartWave, TypeOK, WaveShape, Unlocked, States, Places
<1>2. Sync' /\ Placed' /\ PassedFirst' /\ TaskStates'
  BY DEF StartWave, TypeOK, States, Placed, First, WaveShape, PassedFirst, TaskStates
<1>3. HeadKnown'
  BY DEF StartWave, HeadKnown, First, Said, Placed, TypeOK, States, Heads
<1>4. LaunchesKnown' /\ RestVerified' /\ LiveInWave'
  BY DEF StartWave, LaunchesKnown, Integrated, Verified, Placed, TypeOK, WaveShape,
         States, TaskStates, RestVerified, LiveInWave
<1> QED BY <1>1, <1>2, <1>3, <1>4

LEMMA SpawnWorkerInv == ASSUME NEW s \in Stories, IInv, SpawnWorker(s) PROVE IInv'
<1>1. TypeOK'
  BY DEF SpawnWorker, First, TypeOK, WaveShape, Unlocked, States, Places
<1>2. Sync' /\ Placed' /\ PassedFirst' /\ TaskStates'
  BY DEF SpawnWorker, First, TypeOK, States, Placed, WaveShape, PassedFirst, TaskStates
<1>3. HeadKnown'
  BY DEF SpawnWorker, HeadKnown, Said
<1>4. LaunchesKnown' /\ RestVerified' /\ LiveInWave'
  BY DEF SpawnWorker, First, LaunchesKnown, Integrated, Verified, Placed, TypeOK,
         WaveShape, States, TaskStates, RestVerified, LiveInWave
<1> QED BY <1>1, <1>2, <1>3, <1>4

LEMMA SaveTeamInv == ASSUME IInv, SaveTeam PROVE IInv'
<1>1. TypeOK' BY DEF SaveTeam, TypeOK, WaveShape, Unlocked, States, Places
<1>2. Sync' /\ Placed' /\ PassedFirst' /\ TaskStates'
  BY DEF SaveTeam, TypeOK, States, Placed, First, WaveShape, PassedFirst, TaskStates
<1>3. HeadKnown'
  BY DEF SaveTeam, HeadKnown, First, Said
<1>4. LaunchesKnown' /\ RestVerified' /\ LiveInWave'
  BY DEF SaveTeam, LaunchesKnown, Integrated, Verified, Placed, TypeOK, WaveShape,
         States, TaskStates, RestVerified, LiveInWave
<1> QED BY <1>1, <1>2, <1>3, <1>4

LEMMA SpawnThrowsInv == ASSUME IInv, SpawnThrows PROVE IInv'
<1>1. TypeOK'
  BY DEF SpawnThrows, TypeOK, WaveShape, Unlocked, States, Places
<1>2. Sync' /\ Placed' /\ PassedFirst' /\ TaskStates'
  BY DEF SpawnThrows, TypeOK, States, Placed, First, WaveShape, PassedFirst, TaskStates
<1>3. HeadKnown'
  BY DEF SpawnThrows, HeadKnown, First, Said
<1>4. LaunchesKnown' /\ RestVerified' /\ LiveInWave'
  BY DEF SpawnThrows, LaunchesKnown, Integrated, Verified, Placed, TypeOK, WaveShape,
         States, TaskStates, RestVerified, LiveInWave
<1> QED BY <1>1, <1>2, <1>3, <1>4

LEMMA ConfirmWaveInv == ASSUME IInv, ConfirmWave PROVE IInv'
<1>1. TypeOK'
  <2>1. mem' \in States
    BY DEF ConfirmWave, First, TypeOK, States
  <2>2. WaveShape(mem')
    BY DEF ConfirmWave, First, TypeOK, WaveShape, States, TaskStates, Placed
  <2> QED
    BY <2>1, <2>2 DEF ConfirmWave, TypeOK, Unlocked, Places
<1>2. Sync' /\ Placed' /\ PassedFirst' /\ TaskStates'
  BY DEF ConfirmWave, TypeOK, States, Placed, First, WaveShape, PassedFirst, TaskStates
<1>3. HeadKnown'
  <2>1. Said(file') = Said(file)
    BY DEF ConfirmWave, Said, TaskStates, Placed, TypeOK, States
  <2> QED
    BY <2>1 DEF ConfirmWave, HeadKnown, First
<1>4. LaunchesKnown' /\ RestVerified' /\ LiveInWave'
  BY DEF ConfirmWave, LaunchesKnown, Integrated, Verified, Placed, TypeOK, WaveShape,
         States, TaskStates, RestVerified, LiveInWave
<1> QED BY <1>1, <1>2, <1>3, <1>4

LEMMA ThrowsInv == ASSUME IInv, Throws PROVE IInv'
<1>1. TypeOK' BY DEF Throws, TypeOK, WaveShape, Unlocked, States, Places
<1>2. Sync' /\ Placed' /\ PassedFirst' /\ TaskStates'
  BY DEF Throws, TypeOK, States, Placed, First, WaveShape, PassedFirst, TaskStates
<1>3. HeadKnown'
  BY DEF Throws, HeadKnown, First, Said, Placed, TypeOK, States, Heads
<1>4. LaunchesKnown' /\ RestVerified' /\ LiveInWave'
  BY DEF Throws, LaunchesKnown, Integrated, Verified, Placed, TypeOK, WaveShape, States,
         TaskStates, RestVerified, LiveInWave
<1> QED BY <1>1, <1>2, <1>3, <1>4

-----------------------------------------------------------------------------
(* Failing, stopping and cancelling.                                       *)

LEMMA FailRuntimeInv == ASSUME IInv, FailRuntime PROVE IInv'
<1>1. TypeOK'
  <2>1. mem' \in States
    BY DEF FailRuntime, Failed, TypeOK, States
  <2>2. WaveShape(mem')
    BY DEF FailRuntime, Failed, TypeOK, WaveShape, States
  <2> QED
    BY <2>1, <2>2 DEF FailRuntime, TypeOK, Unlocked, Places
<1>2. Sync' /\ Placed' /\ PassedFirst' /\ TaskStates'
  BY DEF FailRuntime, Failed, TypeOK, States, Placed, First, WaveShape, PassedFirst,
         TaskStates
<1>3. HeadKnown'
  BY DEF FailRuntime, Failed, HeadKnown, First, Said, Placed, TypeOK, States, Heads
<1>4. LaunchesKnown'
  BY DEF FailRuntime, Failed, LaunchesKnown, Integrated, Verified, Placed, TypeOK,
         WaveShape, States, TaskStates
<1>5. RestVerified'
  <2>1. Integrated(file') = Integrated(file)
    BY DEF FailRuntime, Failed, Integrated, TypeOK, States
  <2> QED
    BY <2>1 DEF FailRuntime, RestVerified, TypeOK, States
<1>6. LiveInWave'
  BY DEF FailRuntime, Failed, LiveInWave, Placed, TypeOK, WaveShape, States
<1> QED BY <1>1, <1>2, <1>3, <1>4, <1>5, <1>6

LEMMA StopWaveInv == ASSUME IInv, StopWave PROVE IInv'
<1>1. TypeOK'
  BY DEF StopWave, TypeOK, WaveShape, Unlocked, States, Places
<1>2. Sync' BY DEF StopWave, TypeOK, States
<1>3. Placed'
  <2>1. cmd = "tick" /\ file.status \notin Ended =>
          /\ file.launch = "launched" /\ file.members \subseteq file.merged
          /\ file.head \in passed
    BY DEF StopWave, PassedFirst
  <2>2. pc' = "conclude" => /\ cmd = "tick" /\ file.status \notin Ended
                            /\ Stopped(file) /\ file' = file
    BY DEF StopWave, Placed, TypeOK
  <2>3. pc' \in {"shutdown", "cancel", "unlock", "fail", "conclude"} /\ cmd' = cmd
    BY DEF StopWave
  <2>4. pc' = "fail" => cmd = "tick" /\ file.status \notin Ended /\ file' = file
    BY DEF StopWave, Placed, TypeOK
  <2>5. pc' = "shutdown" => /\ file'.launch # "none" /\ file'.halt = "pending"
                            /\ file'.status = file.status
    BY DEF StopWave, TypeOK, States
  <2>6. pc' = "cancel" => cmd = "cancel" /\ Stopped(file) /\ file' = file
    BY DEF StopWave
  <2> QED
    BY <2>1, <2>2, <2>3, <2>4, <2>5, <2>6 DEF StopWave, Placed
<1>4. PassedFirst'
  <2>1. cmd = "tick" /\ file.status \notin Ended =>
          /\ file.launch = "launched" /\ file.members \subseteq file.merged
          /\ file.head \in passed
    BY DEF StopWave, PassedFirst
  <2>2. pc' = "conclude" => /\ cmd = "tick" /\ file.status \notin Ended
                            /\ file' = file
    BY DEF StopWave, Placed, TypeOK
  <2>3. file' = file \/ file' = [file EXCEPT !.halt = "pending"]
    BY DEF StopWave
  <2> QED
    BY <2>1, <2>2, <2>3 DEF StopWave, PassedFirst, TypeOK, States
<1>5. TaskStates'
  BY DEF StopWave, TaskStates, Placed, TypeOK, WaveShape, States
<1>6. HeadKnown'
  <2>1. Said(file') = Said(file)
    BY DEF StopWave, Said, TypeOK, States
  <2>2. /\ file'.head = file.head /\ file'.merging = file.merging /\ head' = head
        /\ pc' \notin (Working \ {"fail", "conclude"}) /\ pc' # "record"
    BY DEF StopWave, TypeOK, States
  <2>3. pc' = "conclude" => cmd = "tick" /\ file.status \notin Ended
    BY DEF StopWave, Placed, TypeOK, States
  <2>4. pc' = "conclude" => file.merging \subseteq file.merged
    BY <2>3 DEF StopWave, PassedFirst, TypeOK, WaveShape
  <2>5. pc' = "conclude" => file.merging \subseteq Said(file)
    BY <2>3, <2>4 DEF TaskStates, Said, TypeOK, WaveShape, States
  <2>6. pc' = "conclude" => head.stories = file.head.stories
    BY <2>5 DEF HeadKnown
  <2> QED
    BY <2>1, <2>2, <2>6 DEF HeadKnown
<1>7. LaunchesKnown' /\ RestVerified' /\ LiveInWave'
  BY DEF StopWave, LaunchesKnown, Integrated, Verified, Placed, TypeOK, WaveShape,
         States, TaskStates, RestVerified, LiveInWave
<1> QED BY <1>1, <1>2, <1>3, <1>4, <1>5, <1>6, <1>7

LEMMA ShutWorkerInv == ASSUME NEW s \in Stories, IInv, ShutWorker(s) PROVE IInv'
<1>1. TypeOK'
  BY DEF ShutWorker, LiveMembers, TypeOK, WaveShape, Unlocked, States, Places
<1>2. Sync' /\ Placed' /\ PassedFirst' /\ TaskStates'
  BY DEF ShutWorker, LiveMembers, TypeOK, States, Placed, First, WaveShape, PassedFirst,
         TaskStates
<1>3. HeadKnown'
  BY DEF ShutWorker, HeadKnown, First, Said
<1>4. LaunchesKnown' /\ RestVerified' /\ LiveInWave'
  BY DEF ShutWorker, LiveMembers, LaunchesKnown, Integrated, Verified, Placed, TypeOK,
         WaveShape, States, TaskStates, RestVerified, LiveInWave
<1> QED BY <1>1, <1>2, <1>3, <1>4

LEMMA ShutTeamInv == ASSUME IInv, ShutTeam PROVE IInv'
<1>1. TypeOK'
  BY DEF ShutTeam, TypeOK, Unlocked, Places
<1>2. Sync' /\ Placed' /\ PassedFirst' /\ TaskStates'
  BY DEF ShutTeam, LiveMembers, TypeOK, States, Placed, First, WaveShape, PassedFirst,
         TaskStates
<1>3. HeadKnown'
  BY DEF ShutTeam, LiveMembers, HeadKnown, First, Said, Placed, TypeOK, States, Heads
<1>4. LaunchesKnown' /\ RestVerified' /\ LiveInWave'
  BY DEF ShutTeam, LiveMembers, LaunchesKnown, Integrated, Verified, Placed, TypeOK,
         WaveShape, States, TaskStates, RestVerified, LiveInWave
<1> QED BY <1>1, <1>2, <1>3, <1>4

LEMMA ShutThrowsInv == ASSUME IInv, ShutThrows PROVE IInv'
<1>1. TypeOK'
  BY DEF ShutThrows, TypeOK, WaveShape, Unlocked, States, Places
<1>2. Sync' /\ Placed' /\ PassedFirst' /\ TaskStates'
  BY DEF ShutThrows, TypeOK, States, Placed, First, WaveShape, PassedFirst, TaskStates
<1>3. HeadKnown'
  BY DEF ShutThrows, HeadKnown, First, Said, Placed, TypeOK, States, Heads
<1>4. LaunchesKnown' /\ RestVerified' /\ LiveInWave'
  BY DEF ShutThrows, LaunchesKnown, Integrated, Verified, Placed, TypeOK, WaveShape,
         States, TaskStates, RestVerified, LiveInWave
<1> QED BY <1>1, <1>2, <1>3, <1>4

LEMMA SaveStoppedInv == ASSUME IInv, SaveStopped PROVE IInv'
<1>1. TypeOK'
  <2>1. mem' \in States
    BY DEF SaveStopped, TypeOK, States
  <2>2. WaveShape(mem')
    BY DEF SaveStopped, TypeOK, WaveShape, States, Placed
  <2> QED
    BY <2>1, <2>2 DEF SaveStopped, TypeOK, Unlocked, Places
<1>2. Sync' /\ Placed'
  BY DEF SaveStopped, TypeOK, States, Placed, First, WaveShape
<1>3. PassedFirst'
  <2>1. pc' = "conclude" => cmd = "tick" /\ file.status \notin Ended
    BY DEF SaveStopped, Placed, TypeOK, States
  <2> QED
    BY <2>1 DEF SaveStopped, PassedFirst, TypeOK, States
<1>4. TaskStates'
  BY DEF SaveStopped, TaskStates, Placed, TypeOK, WaveShape, States
<1>5. HeadKnown'
  <2>1. Said(file') = Said(file)
    BY DEF SaveStopped, Said, TypeOK, States
  <2>2. /\ file'.head = file.head /\ file'.merging = file.merging /\ head' = head
        /\ pc' \notin (Working \ {"fail", "conclude"}) /\ pc' # "record"
    BY DEF SaveStopped, TypeOK, States
  <2>3. pc' = "conclude" => cmd = "tick" /\ file.status \notin Ended
    BY DEF SaveStopped, Placed, TypeOK, States
  <2>4. pc' = "conclude" => file.merging \subseteq file.merged
    BY <2>3 DEF SaveStopped, PassedFirst, TypeOK, WaveShape
  <2>5. pc' = "conclude" => file.merging \subseteq Said(file)
    BY <2>3, <2>4 DEF TaskStates, Said, TypeOK, WaveShape, States
  <2>6. pc' = "conclude" => head.stories = file.head.stories
    BY <2>5 DEF HeadKnown
  <2> QED
    BY <2>1, <2>2, <2>6 DEF HeadKnown
<1>6. LaunchesKnown' /\ RestVerified' /\ LiveInWave'
  BY DEF SaveStopped, LaunchesKnown, Integrated, Verified, Placed, TypeOK, WaveShape,
         States, TaskStates, RestVerified, LiveInWave
<1> QED BY <1>1, <1>2, <1>3, <1>4, <1>5, <1>6

LEMMA CancelRuntimeInv == ASSUME IInv, CancelRuntime PROVE IInv'
<1>1. TypeOK'
  <2>1. mem' \in States
    BY DEF CancelRuntime, First, TypeOK, States
  <2>2. WaveShape(mem')
    BY DEF CancelRuntime, First, TypeOK, WaveShape, States
  <2> QED
    BY <2>1, <2>2 DEF CancelRuntime, TypeOK, Unlocked, Places
<1>2. Sync' /\ Placed' /\ PassedFirst' /\ TaskStates'
  BY DEF CancelRuntime, TypeOK, States, Placed, First, WaveShape, PassedFirst, TaskStates
<1>3. HeadKnown'
  BY DEF CancelRuntime, HeadKnown, First, Said, Placed, TypeOK, States, Heads
<1>4. LaunchesKnown' /\ RestVerified' /\ LiveInWave'
  BY DEF CancelRuntime, LaunchesKnown, Integrated, Verified, Placed, TypeOK, WaveShape,
         States, TaskStates, RestVerified, LiveInWave
<1> QED BY <1>1, <1>2, <1>3, <1>4

-----------------------------------------------------------------------------
(* Workers and others.                                                     *)

LEMMA WorkerAnswersInv == ASSUME NEW s \in Stories, IInv, WorkerAnswers(s) PROVE IInv'
<1>1. TypeOK'
  BY DEF WorkerAnswers, TypeOK, WaveShape, Unlocked, States, Places
<1>2. Sync' /\ Placed' /\ PassedFirst' /\ TaskStates'
  BY DEF WorkerAnswers, TypeOK, States, Placed, First, WaveShape, PassedFirst, TaskStates
<1>3. HeadKnown'
  BY DEF WorkerAnswers, HeadKnown, First, Said
<1>4. LaunchesKnown' /\ RestVerified' /\ LiveInWave'
  BY DEF WorkerAnswers, LaunchesKnown, Integrated, Verified, Placed, TypeOK, WaveShape,
         States, TaskStates, RestVerified, LiveInWave
<1> QED BY <1>1, <1>2, <1>3, <1>4

LEMMA WorkerEndsInv == ASSUME NEW s \in Stories, IInv, WorkerEnds(s) PROVE IInv'
<1>1. TypeOK' BY DEF WorkerEnds, TypeOK, WaveShape, Unlocked, States, Places
<1>2. Sync' /\ Placed' /\ PassedFirst' /\ TaskStates'
  BY DEF WorkerEnds, TypeOK, States, Placed, First, WaveShape, PassedFirst, TaskStates
<1>3. HeadKnown'
  BY DEF WorkerEnds, HeadKnown, First, Said
<1>4. LaunchesKnown' /\ RestVerified' /\ LiveInWave'
  BY DEF WorkerEnds, LaunchesKnown, Integrated, Verified, Placed, TypeOK, WaveShape,
         States, TaskStates, RestVerified, LiveInWave
<1> QED BY <1>1, <1>2, <1>3, <1>4

LEMMA WorkerDiesInv == ASSUME NEW s \in Stories, IInv, WorkerDies(s) PROVE IInv'
<1>1. TypeOK' BY DEF WorkerDies, TypeOK, WaveShape, Unlocked, States, Places
<1>2. Sync' /\ Placed' /\ PassedFirst' /\ TaskStates'
  BY DEF WorkerDies, TypeOK, States, Placed, First, WaveShape, PassedFirst, TaskStates
<1>3. HeadKnown'
  BY DEF WorkerDies, HeadKnown, First, Said
<1>4. LaunchesKnown' /\ RestVerified' /\ LiveInWave'
  BY DEF WorkerDies, LaunchesKnown, Integrated, Verified, Placed, TypeOK, WaveShape,
         States, TaskStates, RestVerified, LiveInWave
<1> QED BY <1>1, <1>2, <1>3, <1>4

LEMMA ForeignCommitInv == ASSUME IInv, ForeignCommit PROVE IInv'
<1>1. TypeOK'
  <2>1. head' \in Heads
    BY BoundAssumption DEF ForeignCommit, TypeOK, Heads
  <2> QED
    BY <2>1 DEF ForeignCommit, TypeOK, Unlocked, Places
<1>2. Sync' /\ Placed' /\ PassedFirst' /\ TaskStates'
  BY DEF ForeignCommit, Heads, TypeOK, States, Placed, First, WaveShape, PassedFirst,
         TaskStates
<1>3. HeadKnown'
  <2>1. head'.stories = head.stories
    BY DEF ForeignCommit, TypeOK, Heads
  <2> QED
    BY <2>1 DEF ForeignCommit, HeadKnown, First, Said
<1>4. LaunchesKnown' /\ RestVerified' /\ LiveInWave'
  BY DEF ForeignCommit, Heads, LaunchesKnown, Integrated, Verified, Placed, TypeOK,
         WaveShape, States, TaskStates, RestVerified, LiveInWave
<1> QED BY <1>1, <1>2, <1>3, <1>4

-----------------------------------------------------------------------------
LEMMA StutterInv == ASSUME IInv, UNCHANGED vars PROVE IInv'
<1>1. TypeOK' BY DEF TypeOK, WaveShape, Unlocked
<1>2. Sync' /\ Placed' /\ PassedFirst' /\ TaskStates'
  BY DEF Placed, First, PassedFirst, TaskStates
<1>3. HeadKnown' BY DEF HeadKnown, First, Said
<1>4. LaunchesKnown' /\ RestVerified' /\ LiveInWave'
  BY DEF LaunchesKnown, Inputs, Integrated, Verified, RestVerified, LiveInWave
<1> QED BY <1>1, <1>2, <1>3, <1>4

LEMMA StepInv == ASSUME IInv, Step PROVE IInv'
<1>1. CASE \E s \in Stories :
             \/ SeeFailure(s) \/ SkipWorker(s) \/ AskShutdown(s)
             \/ IntendMerge(s) \/ Merge(s) \/ RecordMerge(s)
             \/ LaunchStory(s) \/ SpawnWorker(s) \/ ShutWorker(s)
  BY <1>1, SeeFailureInv, SkipWorkerInv, AskShutdownInv, IntendMergeInv, MergeInv, RecordMergeInv, LaunchStoryInv, SpawnWorkerInv, ShutWorkerInv
<1>2. CASE ~\E s \in Stories :
             \/ SeeFailure(s) \/ SkipWorker(s) \/ AskShutdown(s)
             \/ IntendMerge(s) \/ Merge(s) \/ RecordMerge(s)
             \/ LaunchStory(s) \/ SpawnWorker(s) \/ ShutWorker(s)
  BY <1>2, WriteOwnerInv, ReadRuntimeInv, UnlockInv, CollectedInv, VerifyInv,
         ConcludeInv, PlanNothingInv, PlanWaveInv, StartWaveInv, SaveTeamInv,
         ConfirmWaveInv, ThrowsInv, FailRuntimeInv, SpawnThrowsInv, StopWaveInv,
         ShutTeamInv, ShutThrowsInv, SaveStoppedInv, CancelRuntimeInv DEF Step
<1> QED
  BY <1>1, <1>2

(* IInv is inductive.                                                      *)
LEMMA NextInv == ASSUME IInv, [Next]_vars PROVE IInv'
<1>1. CASE Begin("tick") \/ Begin("cancel")
  BY <1>1, BeginInv
<1>2. CASE Step
  BY <1>2, StepInv
<1>3. CASE Crash \/ ForeignCommit \/ UNCHANGED vars
  BY <1>3, CrashInv, ForeignCommitInv, StutterInv
<1>4. CASE \E s \in Stories : Worker(s) \/ WorkerDies(s)
  BY <1>4, WorkerAnswersInv, WorkerEndsInv, WorkerDiesInv DEF Worker
<1> QED
  BY <1>1, <1>2, <1>3, <1>4 DEF Next

(* What the durable state says of the run at every instant.                *)
THEOREM SchedulerInvariant == Spec => []IInv
  BY InitInv, NextInv, PTL DEF Spec

(* The states are well typed, the sets of a wave contain one another and   *)
(* the lock belongs to the process that works (TypeOK).                    *)
THEOREM SchedulerTypeCorrect == Spec => []TypeOK
<1>1. IInv => TypeOK
  OBVIOUS
<1> QED
  BY <1>1, SchedulerInvariant, PTL

(* A story gets one worker at most, whatever is killed where and however   *)
(* often: spawnTeam runs only for stories whose launch is on record.       *)
THEOREM OneLaunch == Spec => []LaunchedOnce
<1>1. IInv => LaunchedOnce
  BY DEF LaunchesKnown, LaunchedOnce
<1> QED
  BY <1>1, SchedulerInvariant, PTL

(* readyRuntimeTasks: when a worker starts, what it builds on has been     *)
(* integrated and verified.                                                *)
THEOREM LaunchNeedsInputs == Spec => []InputsVerified
<1>1. IInv => InputsVerified
  <2> SUFFICES ASSUME IInv, NEW s \in Stories, launches[s] > 0
               PROVE  Inputs(s) \subseteq Verified
    BY DEF InputsVerified, Inputs
  <2>1. file.task[s] # "pending"
    BY DEF LaunchesKnown
  <2> QED
    BY <2>1 DEF LaunchesKnown
<1> QED
  BY <1>1, SchedulerInvariant, PTL

(* HEAD and the runtime file explain one another wherever a tick dies.     *)
THEOREM MergesAreRecorded == Spec => []MergesOnRecord
<1>1. IInv => MergesOnRecord
  BY DEF HeadKnown, Said, MergesOnRecord
<1> QED
  BY <1>1, SchedulerInvariant, PTL

(* No story is merged into a HEAD that has it.                             *)
THEOREM MergedOnce == Spec => []NoRepeatedMerge
<1>1. IInv => NoRepeatedMerge
  <2> SUFFICES ASSUME IInv, pc = "merge", NEW s \in todo, First(s)
               PROVE  s \notin head.stories
    BY DEF NoRepeatedMerge
  <2>1. s \in file.members \ file.merged /\ file.launch = "launched" /\ file.status \notin Ended
    BY DEF Placed
  <2>2. s \in Stories /\ file.task[s] = "running"
    BY <2>1 DEF TaskStates, TypeOK, States
  <2>3. head.stories = Said(file)
    BY DEF HeadKnown
  <2> QED
    BY <2>2, <2>3 DEF Said
<1> QED
  BY <1>1, SchedulerInvariant, PTL

(* A run that completed or was cancelled has no worker left.               *)
THEOREM NoWorkerAfterTheEnd == Spec => []EndedIsQuiet
<1>1. IInv => EndedIsQuiet
  BY DEF LiveInWave, EndedIsQuiet, TypeOK, WaveShape
<1> QED
  BY <1>1, SchedulerInvariant, PTL

(* A completed run has all its stories in one tree that verification has   *)
(* accepted.                                                               *)
THEOREM CompletionIsVerified == Spec => []CompletedIsVerified
<1>1. IInv => CompletedIsVerified
  BY DEF RestVerified, CompletedIsVerified
<1> QED
  BY <1>1, SchedulerInvariant, PTL

(* A run that ended launches, verifies and merges nothing any more: every  *)
(* place that does is one that a tick reaches only in a run at work.       *)
THEOREM TheEndIsFinal == Spec => EndIsFinal
<1> DEFINE Final == file.status \in Ended =>
                      /\ file'.status \in {file.status, "cancelled"}
                      /\ UNCHANGED <<launches, passed, head.stories>>
<1>1. ASSUME IInv, [Next]_vars PROVE Final
  <2> SUFFICES ASSUME IInv, [Next]_vars, file.status \in Ended PROVE Final
    BY <1>1
  <2>1. pc \notin Working
    BY DEF Placed
  <2>2. CASE Step
    <3>0. mem = file /\ file \in States
      BY <2>1 DEF TypeOK
    <3>1. CASE StopWave \/ SaveStopped
      BY <3>0, <3>1 DEF StopWave, SaveStopped, States
    <3>2. CASE CancelRuntime
      BY <3>0, <3>2 DEF CancelRuntime, States
    <3>3. CASE ~(StopWave \/ SaveStopped \/ CancelRuntime)
      BY <2>1, <2>2, <3>3 DEF Step, WriteOwner, ReadRuntime, Unlock, Collected, Verify,
             Conclude, PlanNothing, PlanWave, StartWave, SaveTeam, ConfirmWave, Throws,
             FailRuntime, SpawnThrows, ShutTeam, ShutThrows, SeeFailure, SkipWorker,
             AskShutdown, IntendMerge, Merge, RecordMerge, LaunchStory, SpawnWorker,
             ShutWorker
    <3> QED
      BY <3>1, <3>2, <3>3
  <2>3. CASE ForeignCommit
    BY <2>3 DEF ForeignCommit, TypeOK, Heads
  <2>4. CASE Begin("tick") \/ Begin("cancel") \/ Crash \/ UNCHANGED vars
    BY <2>4 DEF Begin, Crash
  <2>5. CASE \E s \in Stories : Worker(s) \/ WorkerDies(s)
    BY <2>5 DEF Worker, WorkerAnswers, WorkerEnds, WorkerDies
  <2> QED
    BY <2>2, <2>3, <2>4, <2>5 DEF Next
<1>2. IInv /\ [Next]_vars => [Final]_vars
  BY <1>1
<1> QED
  BY <1>2, SchedulerInvariant, PTL DEF Spec, EndIsFinal
=============================================================================
