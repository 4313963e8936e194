--------------------------- MODULE AskJobsProofs ---------------------------
(***************************************************************************)
(* For any number of commands and of processes killed from outside: types  *)
(* are kept, a job has one verdict, what it reports as a failure is one,   *)
(* an answer that arrived survives, and an adapter that outlives its host  *)
(* can be reached.                                                         *)
(***************************************************************************)
EXTENDS AskJobs, TLAPS

Early  == {"unborn", "wait", "prompt", "spawn"}    \* before there is a child
Ending == {"sentinel", "verdict", "md"}            \* finalize, after shutdown

(* The launcher, and the metadata it makes.                                *)
Launching ==
  /\ launcher \in {"prompt", "spawn"} => host = "unborn"
  /\ launcher = "record" => host \in {"wait", "exited", "killed"}
  /\ launcher # "done" <=> mode = "async" /\ meta.status = "none"
  /\ mode = "sync" =>
       meta.status = "none" /\ host \in {"spawn", "collect", "shutdown", "exited", "killed"}
  /\ meta.status = "none" => ~meta.adapter

(* How far the runner has come, and what it has left in its files.         *)
Course ==
  /\ mode = "async" /\ meta.status = "none" =>
       host \in {"unborn", "wait", "exited", "killed"}
  /\ meta.status # "none" => host # "unborn"
  /\ meta.status \in Reasons =>
       log.done = meta.status /\ host \in {"md", "exited", "killed"}
  /\ log.done # "none" =>
       meta.status # "none" /\ host \in {"verdict", "md", "exited", "killed"}
  /\ host = "shutdown" => reason # "none"
  /\ host = "sentinel" => reason # "none" /\ meta.status = "running"
  /\ host = "verdict" => reason # "none" /\ log.done = reason /\ meta.status = "running"
  /\ host = "md" => log.done = "completed" /\ meta.status = "completed"

(* What a command has found so far stays true.                             *)
Reading ==
  \A r \in Readers :
    /\ reader[r].at # "idle" => meta.status # "none"
    /\ reader[r].at \in {"adapter", "scan"} => ~Up
    /\ reader[r].at = "answer" => log.done = "completed"

(* And so does what it has told.                                           *)
Told ==
  /\ reported # {} => meta.status # "none"
  /\ \A v \in reported \cap Reasons : log.done = v
  /\ reported \cap {"crashed", "lost"} # {} =>
       (log.done = "none" /\ ~Up) \/ (log.done # "none" /\ ~log.legible)

(* The adapter before the event loop runs, and after.                      *)
Bounded ==
  /\ host \in Early => child = "none" /\ collect = "idle"
  /\ child = "none" =>
       reaper = "none" /\ collect = "idle" /\ host \notin {"persist", "collect", "shutdown"}
  /\ host = "persist" => collect = "idle"
  /\ Looping => collect # "idle"
  /\ ~(Looping \/ host \in Ending) => handle = NewHandle /\ shut = "idle"
  /\ releasable => kind = "codex" /\ mode = "sync"

(* What the exit of the child says of it.                                  *)
Heard ==
  /\ handle.exit # "no" =>
       child \in Ended /\ (handle.status = "running" => handle.exit = "zero")
  /\ handle.exit = "zero" => child = "zero"
  /\ child = "zero" => written = Chunks
  /\ handle.closed => handle.exit # "no" /\ handle.read = written

(* What the parser has consumed, and what came of it.                      *)
Parsed ==
  /\ handle.upto <= handle.read
  /\ handle.status = "completed" => handle.turn
  /\ kind = "codex" =>
       (handle.turn <=> handle.upto = Chunks) /\ handle.read <= handle.upto + 1
  /\ kind = "gemini" =>
       /\ handle.exit = "no" => handle.upto = 0
       /\ handle.upto > 0 => handle.turn \/ handle.status = "failed"
       /\ handle.turn => handle.upto > 0
       /\ ~handle.closed /\ handle.upto = Chunks => handle.turn
       /\ handle.upto = 1 /\ written = Chunks => handle.cut

(* How collect() has settled.                                              *)
Settled ==
  Looping =>
    /\ collect = "ok" => Text
    /\ collect = "error" => handle.closed /\ (handle.read = Chunks => handle.cut)

(* Where shutdown() is, it has seen to the child.                          *)
Closing ==
  /\ shut \in {"settle", "done"} /\ child = "live" /\ ~Leaked => reaper # "none"
  /\ shut \in {"handoff", "grace"} => reaper # "none"
  /\ shut # "idle" => host = "shutdown" \/ host \in Ending
  /\ handle.killed /\ shut = "idle" => Leaked
  /\ handle.onTurn \/ reaper # "none" => releasable
  /\ host \in Ending => shut = "done" \/ child = "none"

(* So that what is left of it when the host is gone can be reached.        *)
Left ==
  /\ child = "live" /\ ~Leaked /\ host = "exited" => reaper # "none"
  /\ child = "live" /\ meta.status \in Reasons => Leaked

Files == Launching /\ Course /\ Reading /\ Told
Wire  == Bounded /\ Heard /\ Parsed /\ Settled /\ Closing
IInv  == TypeOK /\ Files /\ Wire /\ Left

FilesTypeOK ==
  /\ mode \in {"sync", "async"} /\ host \in Places
  /\ launcher \in {"prompt", "spawn", "record", "done", "dead"}
  /\ prompt \in BOOLEAN /\ md \in BOOLEAN
  /\ meta \in [status : Statuses, adapter : BOOLEAN]
  /\ log \in [tail : Tails, done : Reasons \cup {"none"}, legible : BOOLEAN]
  /\ reason \in Reasons \cup {"none"}
ReadersTypeOK ==
  /\ reader \in [Readers -> Seats]
  /\ reported \subseteq Statuses \cup {"crashed", "lost"}
  /\ commands \in 0 .. MaxCommands /\ mishaps \in 0 .. MaxMishaps

----------------------------------------------------------------------------
(* Types, of the adapter's part first.                                     *)

LEMMA TypeParts == TypeOK <=> AdapterTypeOK /\ FilesTypeOK /\ ReadersTypeOK
  BY DEF TypeOK, FilesTypeOK, ReadersTypeOK

LEMMA NewHandleType == NewHandle \in Handles
  BY DEF NewHandle, Handles, Chunks

LEMMA ParsedType ==
  ASSUME NEW x \in Handles, x.read > 0, ends \in [1 .. Chunks -> Tails]
  PROVE  /\ ParseLines(x) \in Handles /\ ParseLines(x).read = x.read
         /\ ParseLines(x).exit = x.exit /\ ParseLines(x).closed = x.closed
         /\ ParseLines(x).killed = x.killed /\ ParseLines(x).cut = x.cut
         /\ ParseLines(x).onTurn = x.onTurn /\ ParseLines(x).reap = x.reap
         /\ ParseLines(x).upto \in {x.read, x.read - 1}
         /\ ParseLines(x).turn <=> ParseLines(x).upto = Chunks
         /\ ParseLines(x).status =
              IF ParseLines(x).upto = Chunks THEN "completed" ELSE x.status
<1> DEFINE n == IF ends[x.read] = "clean" THEN x.read ELSE x.read - 1
<1>1. n \in 0 .. Chunks /\ n \in {x.read, x.read - 1}
  BY DEF Handles, Chunks
<1>2. ParseLines(x) = [x EXCEPT !.upto   = n,
                                !.turn   = n = Chunks,
                                !.status = IF n = Chunks THEN "completed" ELSE x.status]
  BY DEF ParseLines
<1> HIDE DEF n
<1>3. QED
  BY <1>1, <1>2 DEF Handles

LEMMA FlushedType ==
  ASSUME NEW x \in Handles, NEW y, y = FlushLine(x) \/ y = FlushOutput(x)
  PROVE  /\ y \in Handles /\ y.read = x.read
         /\ y.exit = x.exit /\ y.closed = x.closed
         /\ y.killed = x.killed /\ y.cut = x.cut
         /\ y.onTurn = x.onTurn /\ y.reap = x.reap
  BY ZenonT(40) DEF FlushLine, FlushOutput, Handles, Chunks

(* Steps that leave the adapter alone.                                     *)
Still == WritePrompt \/ SpawnRunner \/ RecordJob \/ LauncherDies \/ ReadMetadata
         \/ ReadPrompt \/ SpawnFails \/ Finish \/ WriteSentinel
         \/ (\E r \in Readers :
               Ask(r) \/ ProbeRunner(r) \/ ProbeAdapter(r) \/ ScanLog(r) \/ PrintAnswer(r))
(* Steps with which the host may end, or a signal be sent from outside.    *)
Blow == Drained \/ FlipMetadata \/ WriteMd \/ HostKilled
        \/ (\E r \in Readers : SendSigterm(r) \/ PollVictim(r))

LEMMA Steps ==
  ASSUME Next
  PROVE  \/ Still \/ Blow \/ SpawnAdapter \/ PersistAdapter \/ Events
         \/ Shutdown \/ Process \/ ChildKilled \/ Reaper
  BY DEF Next, Launch, Host, Read, Still, Blow

LEMMA StillFacts ==
  ASSUME Still
  PROVE  UNCHANGED <<child_vars, mode>>
  BY DEF Still, WritePrompt, SpawnRunner, RecordJob, LauncherDies, ReadMetadata, ReadPrompt,
     SpawnFails, Finish, WriteSentinel, Ask, ProbeRunner, ProbeAdapter, ScanLog, PrintAnswer,
     System

LEMMA BlowFacts ==
  ASSUME Blow
  PROVE  /\ UNCHANGED <<kind, releasable, group, written, ends, collect, reaper, mode>>
         /\ child' = child \/ (child = "live" /\ child' = "signal")
         /\ UNCHANGED memory \/ (handle' = NewHandle /\ shut' = "idle")
  BY DEF Blow, Drained, FlipMetadata, WriteMd, HostKilled, SendSigterm, PollVictim, Cancelled,
     Gone, outer, os, memory, Termed

LEMMA AdapterTypeStep == AdapterTypeOK /\ Heard /\ Parsed /\ [Next]_vars => AdapterTypeOK'
<1> SUFFICES ASSUME AdapterTypeOK, Heard, Parsed, [Next]_vars PROVE AdapterTypeOK'
  OBVIOUS
<1> USE DEF AdapterTypeOK
<1>1. CASE UNCHANGED child_vars
  BY <1>1 DEF child_vars, outer, memory, os
<1>2. CASE Still
  BY <1>1, <1>2, StillFacts
<1>3. CASE Blow
  <2>1. handle' \in Handles /\ handle'.read <= written'
    <3>1. NewHandle.read = 0
      BY DEF NewHandle
    <3>2. written' = written /\ (handle' = handle \/ handle' = NewHandle)
      BY <1>3, BlowFacts DEF memory
    <3>3. QED
      BY <3>1, <3>2, NewHandleType DEF Chunks
  <2>2. QED
    BY <1>3, <2>1, BlowFacts DEF memory, Ended
<1>4. CASE SpawnAdapter
  BY <1>4 DEF SpawnAdapter
<1>5. CASE PersistAdapter
  BY <1>5 DEF PersistAdapter, os
<1>6. CASE Events
  <2>1. CASE HearData
    <3>1. UNCHANGED <<kind, releasable, child, group, written, ends, shut, reaper>>
      BY <2>1 DEF HearData, os
    <3>2. /\ collect' \in {collect, "ok"}
          /\ handle.read < written
          /\ \E x : /\ x = (IF kind = "codex" THEN ParseLines([handle EXCEPT !.read = @ + 1])
                             ELSE [handle EXCEPT !.read = @ + 1])
                    /\ handle' = x \/ handle' = [x EXCEPT !.onTurn = TRUE, !.reap = "armed"]
      BY <2>1 DEF HearData, Data
    <3>3. /\ [handle EXCEPT !.read = @ + 1] \in Handles
          /\ [handle EXCEPT !.read = @ + 1].read = handle.read + 1
      BY <3>2 DEF Handles, Chunks
    <3>4. PICK x \in Handles :
            /\ x.read = handle.read + 1
            /\ handle' = x \/ handle' = [x EXCEPT !.onTurn = TRUE, !.reap = "armed"]
      <4>1. [handle EXCEPT !.read = @ + 1].read > 0
        BY <3>3 DEF Handles
      <4>2. QED
        BY <3>2, <3>3, <4>1, ParsedType
    <3>5. handle' \in Handles /\ handle'.read = handle.read + 1
      BY <3>4 DEF Handles
    <3>6. QED
      BY <3>1, <3>2, <3>5 DEF Handles, Chunks
  <2>2. CASE HearEnd
    <3>1. UNCHANGED <<kind, releasable, child, written, ends, reaper>>
      BY <2>2 DEF HearEnd
    <3>2. CASE Exit /\ UNCHANGED group
      <4>1. PICK x \in Handles : x = (IF kind = "gemini" THEN FlushOutput(handle) ELSE handle)
        BY FlushedType
      <4>2. x.read = handle.read
        BY <4>1, FlushedType
      <4>3. CodeOf \in {"zero", "error", "null"}
        BY DEF CodeOf
      <4>4. handle' \in Handles /\ handle'.read = handle.read
        <5>1. PICK c \in {"zero", "error", "null"}, b \in BOOLEAN,
                   st \in {"running", "completed", "failed"}, re \in {"none", "armed", "due", "over"} :
                handle' = [x EXCEPT !.exit = c, !.status = st, !.cut = b, !.reap = re]
          <6> DEFINE st == IF x.status = "running" /\ child # "zero" THEN "failed" ELSE x.status
                     b  == kind = "gemini" /\ x.upto > 0 /\ x.read < written
                     re == IF x.reap = "armed" \/ (kind = "codex" /\ collect = "waiting")
                           THEN "due" ELSE x.reap
          <6>1. handle' = [x EXCEPT !.exit = CodeOf, !.status = st, !.cut = b, !.reap = re]
            BY <3>2, <4>1 DEF Exit
          <6>2. /\ st \in {"running", "completed", "failed"} /\ b \in BOOLEAN
                /\ re \in {"none", "armed", "due", "over"}
            BY DEF Handles
          <6> HIDE DEF st, b, re
          <6>3. QED
            BY <6>1, <6>2, <4>3, ZenonT(40)
        <5>2. QED
          BY <4>2, <5>1 DEF Handles
      <4>5. shut' \in {shut, "done", "settle"} /\ UNCHANGED collect
        BY <3>2 DEF Exit
      <4>6. QED
        BY <3>1, <3>2, <4>4, <4>5
    <3>3. CASE Reap /\ UNCHANGED <<collect, shut>>
      <4>1. handle' \in Handles /\ handle'.read = handle.read /\ group' \in BOOLEAN
        BY <3>3 DEF Reap, Handles
      <4>2. QED
        BY <3>1, <3>3, <4>1
    <3>4. CASE Close /\ UNCHANGED <<group, shut>>
      <4>1. PICK x \in Handles, re \in {"none", "armed", "due", "over"} :
              x.read = handle.read /\ handle' = [x EXCEPT !.closed = TRUE, !.reap = re]
        <5>1. PICK x \in Handles :
                /\ x.read = handle.read /\ x.reap = handle.reap
                /\ handle' = [x EXCEPT !.closed = TRUE,
                                       !.reap = IF collect = "waiting" THEN "over" ELSE @]
          BY <3>4, FlushedType DEF Close
        <5>2. x.reap \in {"none", "armed", "due", "over"}
          BY DEF Handles
        <5>3. QED
          BY <5>1, <5>2
      <4>2. handle' \in Handles /\ handle'.read = handle.read
        BY <4>1 DEF Handles
      <4>3. collect' \in {collect, "ok", "error"}
        BY <3>4 DEF Close, Monitored
      <4>4. QED
        BY <3>1, <3>4, <4>2, <4>3
    <3>5. QED
      BY <2>2, <3>2, <3>3, <3>4 DEF HearEnd
  <2>3. CASE TimerFires
    <3>1. UNCHANGED <<kind, releasable, written, ends, shut, reaper>>
      BY <2>3 DEF TimerFires
    <3>2. CASE CollectTimeout /\ UNCHANGED group
      <4>1. handle' \in Handles /\ handle'.read = handle.read
        BY <3>2 DEF CollectTimeout, Handles
      <4>2. child' \in {child, "signal"} /\ collect' = "timeout"
        BY <3>2 DEF CollectTimeout, Termed
      <4>3. QED
        BY <3>1, <3>2, <4>1, <4>2 DEF Ended
    <3>3. CASE LateKill /\ UNCHANGED <<handle, collect>>
      BY <3>1, <3>3 DEF LateKill, KillAll, Ended
    <3>4. QED
      BY <2>3, <3>2, <3>3 DEF TimerFires
  <2>4. QED
    BY <1>6, <2>1, <2>2, <2>3 DEF Events
<1>7. CASE Shutdown
  <2>1. UNCHANGED <<kind, releasable, written, ends, collect>>
    BY <1>7 DEF Shutdown
  <2>2. /\ child' \in {child, "signal"}
        /\ group' \in {group, FALSE}
        /\ reaper' \in {reaper, "starting"}
        /\ shut' \in {"idle", "term", "handoff", "grace", "settle", "done"}
    BY <1>7 DEF Shutdown, ShutdownBegins, GraceEnds, HandedOver, HandoverFails, StillThere,
       Settle, Signal, Termed, KillAll, AfterSignal
  <2>3. \/ handle' = handle
        \/ handle' = [handle EXCEPT !.killed = @ \/ handle.exit = "no"]
        \/ handle' = [handle EXCEPT !.reap = "over"]
    BY <1>7 DEF Shutdown, ShutdownBegins, GraceEnds, HandedOver, HandoverFails, StillThere,
       Settle, Signal
  <2>4. handle' \in Handles /\ handle'.read = handle.read
    BY <2>3 DEF Handles
  <2>5. QED
    BY <2>1, <2>2, <2>4 DEF Ended
<1>8. CASE Process
  <2>1. CASE Write /\ UNCHANGED Outside
    <3>1. ends' \in [1 .. Chunks -> Tails]
      BY <2>1 DEF Write
    <3>2. QED
      BY <2>1, <3>1 DEF Write, Chunks, Handles
  <2>2. CASE (Fork \/ End \/ StragglerEnds) /\ UNCHANGED Outside
    BY <2>2, ZenonT(40) DEF Fork, End, StragglerEnds, Ended
  <2>3. QED
    BY <1>8, <2>1, <2>2 DEF Process
<1>9. CASE ChildKilled
  BY <1>9 DEF ChildKilled, Ended
<1>10. CASE Reaper
  BY <1>10 DEF Reaper, ReaperLooks, ReaperActs, KillAll, Ended, os
<1>11. CASE UNCHANGED vars
  BY <1>1, <1>11 DEF vars
<1>12. QED
  BY <1>2, <1>3, <1>4, <1>5, <1>6, <1>7, <1>8, <1>9, <1>10, <1>11, Steps

----------------------------------------------------------------------------
(* The files, and what the commands have read of them.                     *)

(* Steps of the adapter alone: no file but the log's tail, no host.        *)
Apart == Events \/ Shutdown \/ Process \/ ChildKilled \/ Reaper

LEMMA DataFacts ==
  ASSUME AdapterTypeOK, Data
  PROVE  /\ handle.read < written /\ handle'.read = handle.read + 1
         /\ handle'.read \in 1 .. Chunks
         /\ handle'.exit = handle.exit /\ handle'.closed = handle.closed
         /\ handle'.killed = handle.killed /\ handle'.cut = handle.cut
         /\ kind = "gemini" =>
              /\ handle'.upto = handle.upto /\ handle'.turn = handle.turn
              /\ handle'.status = handle.status
         /\ kind = "codex" =>
              /\ handle'.upto \in {handle'.read, handle'.read - 1}
              /\ handle'.turn <=> handle'.upto = Chunks
              /\ handle'.status = IF handle'.upto = Chunks THEN "completed" ELSE handle.status
         /\ \/ collect' = collect /\ handle'.onTurn = handle.onTurn
            \/ collect' = "ok" /\ releasable /\ handle'.turn /\ collect = "waiting"
<1> DEFINE d == [handle EXCEPT !.read = @ + 1]
           x == IF kind = "codex" THEN ParseLines(d) ELSE d
<1>1. /\ handle.read < written /\ written \in 0 .. Chunks /\ handle \in Handles
      /\ ends \in [1 .. Chunks -> Tails]
  BY DEF Data, AdapterTypeOK
<1>2. /\ d \in Handles /\ d.read = handle.read + 1 /\ d.read \in 1 .. Chunks
      /\ d.exit = handle.exit /\ d.closed = handle.closed /\ d.killed = handle.killed
      /\ d.cut = handle.cut /\ d.upto = handle.upto /\ d.turn = handle.turn
      /\ d.status = handle.status /\ d.onTurn = handle.onTurn
  BY <1>1 DEF Handles, Chunks
<1>3. \/ handle' = x /\ collect' = collect
      \/ /\ handle' = [x EXCEPT !.onTurn = TRUE, !.reap = "armed"]
         /\ collect' = "ok" /\ releasable /\ x.turn /\ collect = "waiting"
  BY DEF Data
<1> HIDE DEF d
<1>4. /\ x \in Handles /\ x.read = d.read
      /\ x.exit = d.exit /\ x.closed = d.closed /\ x.killed = d.killed
      /\ x.cut = d.cut /\ x.onTurn = d.onTurn
      /\ kind = "gemini" => x.upto = d.upto /\ x.turn = d.turn /\ x.status = d.status
      /\ kind = "codex" =>
           /\ x.upto \in {x.read, x.read - 1}
           /\ x.turn <=> x.upto = Chunks
           /\ x.status = IF x.upto = Chunks THEN "completed" ELSE d.status
  <2>1. CASE kind = "codex"
    <3>1. d.read > 0
      BY <1>2
    <3>2. x = ParseLines(d)
      BY <2>1
    <3>3. QED
      BY <1>1, <1>2, <2>1, <3>1, <3>2, ParsedType
  <2>2. CASE kind # "codex"
    BY <1>2, <2>2
  <2>3. QED
    BY <2>1, <2>2
<1> HIDE DEF x
<1>5. /\ handle'.read = x.read /\ handle'.exit = x.exit /\ handle'.closed = x.closed
      /\ handle'.killed = x.killed /\ handle'.cut = x.cut /\ handle'.upto = x.upto
      /\ handle'.turn = x.turn /\ handle'.status = x.status
      /\ \/ collect' = collect /\ handle'.onTurn = x.onTurn
         \/ collect' = "ok" /\ releasable /\ x.turn /\ collect = "waiting"
  BY <1>3, <1>4 DEF Handles
<1>6. QED
  BY <1>1, <1>2, <1>4, <1>5

LEMMA ApartFacts ==
  ASSUME Apart, FilesTypeOK, AdapterTypeOK
  PROVE  /\ UNCHANGED <<host, mode, launcher, prompt, meta, md, reason, readers>>
         /\ mishaps' = mishaps \/ (mishaps' = mishaps + 1 /\ mishaps < MaxMishaps)
         /\ log'.done = log.done /\ log'.legible = log.legible
         /\ log'.tail \in Tails
         /\ log' \in [tail : Tails, done : Reasons \cup {"none"}, legible : BOOLEAN]
<1>1. /\ UNCHANGED <<host, mode, launcher, reason, readers>>
      /\ mishaps' = mishaps \/ (mishaps' = mishaps + 1 /\ mishaps < MaxMishaps)
  BY DEF Apart, Events, Shutdown, Process, ChildKilled, Reaper, Outside, Write, Fork, End,
     StragglerEnds, ReaperLooks, ReaperActs
<1>2. UNCHANGED files \/ HearData
  BY DEF Apart, Events, HearEnd, TimerFires, Shutdown, Process, ChildKilled, Reaper, Outside
<1>3. CASE HearData
  <2>1. UNCHANGED <<prompt, meta, md>> /\ ends' = ends
        /\ log' = IF Teed THEN [log EXCEPT !.tail = ends[handle'.read]] ELSE log
    BY <1>3 DEF HearData, os
  <2>2. ends[handle'.read] \in Tails
    BY <1>3, DataFacts DEF HearData, AdapterTypeOK
  <2>3. QED
    BY <1>1, <2>1, <2>2 DEF FilesTypeOK
<1>4. CASE UNCHANGED files
  BY <1>1, <1>4 DEF files, FilesTypeOK
<1>5. QED
  BY <1>2, <1>3, <1>4

LEMMA FilesTypeStep ==
  ASSUME AdapterTypeOK, FilesTypeOK, Course, [Next]_vars
  PROVE  FilesTypeOK'
<1> USE DEF FilesTypeOK, Places
<1>1. CASE Apart
  BY <1>1, ApartFacts
<1>2. CASE Still
  <2>1. CASE WritePrompt \/ SpawnRunner \/ LauncherDies \/ ReadMetadata \/ ReadPrompt
              \/ SpawnFails \/ Finish
    BY <2>1, ZenonT(40) DEF WritePrompt, SpawnRunner, LauncherDies, ReadMetadata, ReadPrompt, SpawnFails,
       Finish, files, Reasons
  <2>2. CASE RecordJob
    BY <2>2 DEF RecordJob, Statuses
  <2>3. CASE WriteSentinel
    BY <2>3 DEF WriteSentinel
  <2>4. ASSUME NEW r \in Readers,
               Ask(r) \/ ProbeRunner(r) \/ ProbeAdapter(r) \/ ScanLog(r)
        PROVE  FilesTypeOK'
    BY <2>4 DEF Ask, ProbeRunner, ProbeAdapter, ScanLog, System, files
  <2>5. ASSUME NEW r \in Readers, PrintAnswer(r) PROVE FilesTypeOK'
    BY <2>5 DEF PrintAnswer, System
  <2>6. QED
    BY <1>2, <2>1, <2>2, <2>3, <2>4, <2>5 DEF Still
<1>3. CASE Blow
  <2>1. CASE Drained \/ WriteMd \/ HostKilled
    BY <2>1 DEF Drained, WriteMd, HostKilled, Gone, files
  <2>2. CASE FlipMetadata
    BY <2>2 DEF FlipMetadata, Gone, Statuses, Course
  <2>3. ASSUME NEW r \in Readers, SendSigterm(r) \/ PollVictim(r) PROVE FilesTypeOK'
    <3>1. host' \in {host, "killed", "shutdown"} /\ reason' \in {reason, "cancelled"}
      BY <2>3 DEF SendSigterm, PollVictim, Cancelled, Gone
    <3>2. UNCHANGED <<files, mode, launcher>>
      BY <2>3 DEF SendSigterm, PollVictim
    <3>3. QED
      BY <3>1, <3>2 DEF files, Reasons
  <2>4. QED
    BY <1>3, <2>1, <2>2, <2>3 DEF Blow
<1>4. CASE SpawnAdapter
  BY <1>4 DEF SpawnAdapter, files
<1>5. CASE PersistAdapter
  BY <1>5 DEF PersistAdapter
<1>6. CASE UNCHANGED vars
  BY <1>6 DEF vars, files
<1>7. QED
  BY <1>1, <1>2, <1>3, <1>4, <1>5, <1>6, Steps DEF Apart

LEMMA SeatMoved ==
  ASSUME NEW s \in Seats, NEW n,
         NEW w \in {"idle", "runner", "adapter", "scan", "answer",
                   "victim", "poll runner", "poll adapter"},
         n = [s EXCEPT !.at = w]
  PROVE  n \in Seats /\ n.at = w
  BY DEF Seats

LEMMA NobodySits == Nobody \in Seats /\ Nobody.at = "idle"
  BY DEF Seats, Nobody

LEMMA ConcludeType ==
  ASSUME ReadersTypeOK, NEW r \in Readers, NEW v \in Reasons \cup {"running", "crashed"},
         Conclude(r, v)
  PROVE  /\ reported' \subseteq Statuses \cup {"crashed", "lost"}
         /\ reader' \in [Readers -> Seats]
<1>1. reported' \subseteq Statuses \cup {"crashed", "lost"}
  BY DEF Conclude, ReadersTypeOK, Statuses
<1>2. PICK n : /\ reader' = [reader EXCEPT ![r] = n]
               /\ n \in {[reader[r] EXCEPT !.at = "victim"], [reader[r] EXCEPT !.at = "answer"], Nobody}
  BY DEF Conclude, ReadersTypeOK
<1>3. n \in Seats
  BY <1>2, NobodySits DEF ReadersTypeOK, Seats
<1>4. QED
  BY <1>1, <1>2, <1>3 DEF ReadersTypeOK

LEMMA ReadersTypeStep ==
  ASSUME AdapterTypeOK, FilesTypeOK, ReadersTypeOK, [Next]_vars
  PROVE  ReadersTypeOK'
<1> USE BoundsAssumption
<1>1. CASE UNCHANGED readers /\ (mishaps' = mishaps \/ (mishaps' = mishaps + 1 /\ mishaps < MaxMishaps))
  <2>1. mishaps' \in 0 .. MaxMishaps
    BY <1>1 DEF ReadersTypeOK
  <2>2. QED
    BY <1>1, <2>1 DEF readers, ReadersTypeOK
<1>2. CASE Apart
  BY <1>1, <1>2, ApartFacts
<1>3. CASE Blow
  <2>1. CASE Drained \/ FlipMetadata \/ WriteMd \/ HostKilled
    <3>1. UNCHANGED readers /\ (mishaps' = mishaps \/ (mishaps' = mishaps + 1 /\ mishaps < MaxMishaps))
      BY <2>1 DEF Drained, FlipMetadata, WriteMd, HostKilled
    <3>2. QED
      BY <1>1, <3>1
  <2>2. ASSUME NEW r \in Readers, SendSigterm(r) \/ PollVictim(r) PROVE ReadersTypeOK'
    <3>1. PICK n : /\ reader' = [reader EXCEPT ![r] = n]
                   /\ n \in {[reader[r] EXCEPT !.at = "poll runner"],
                             [reader[r] EXCEPT !.at = "poll adapter"], Nobody}
      BY <2>2 DEF SendSigterm, PollVictim, ReadersTypeOK
    <3>2. n \in Seats
      BY <3>1, NobodySits DEF ReadersTypeOK, Seats
    <3>3. UNCHANGED <<reported, commands, mishaps>>
      BY <2>2 DEF SendSigterm, PollVictim
    <3>4. QED
      BY <3>1, <3>2, <3>3 DEF ReadersTypeOK
  <2>3. QED
    BY <1>3, <2>1, <2>2 DEF Blow
<1>4. CASE Still
  <2>1. CASE WritePrompt \/ SpawnRunner \/ RecordJob \/ LauncherDies \/ ReadMetadata
             \/ ReadPrompt \/ SpawnFails \/ Finish \/ WriteSentinel
    <3>1. UNCHANGED readers /\ (mishaps' = mishaps \/ (mishaps' = mishaps + 1 /\ mishaps < MaxMishaps))
      BY <2>1 DEF WritePrompt, SpawnRunner, RecordJob, LauncherDies, ReadMetadata, ReadPrompt,
         SpawnFails, Finish, WriteSentinel
    <3>2. QED
      BY <1>1, <3>1
  <2>2. ASSUME NEW r \in Readers, Ask(r) PROVE ReadersTypeOK'
    <3>1. PICK op \in {"status", "collect", "cancel"} :
            \/ UNCHANGED reader
            \/ reader' = [reader EXCEPT ![r] = [at |-> "runner", op |-> op, adapter |-> meta.adapter]]
            \/ reader' = [reader EXCEPT ![r] = [at |-> "answer", op |-> op, adapter |-> meta.adapter]]
      BY <2>2 DEF Ask
    <3>2. /\ [at |-> "runner", op |-> op, adapter |-> meta.adapter] \in Seats
          /\ [at |-> "answer", op |-> op, adapter |-> meta.adapter] \in Seats
      BY DEF Seats, FilesTypeOK
    <3>3. reader' \in [Readers -> Seats]
      BY <3>1, <3>2 DEF ReadersTypeOK
    <3>4. reported' \subseteq Statuses \cup {"crashed", "lost"}
      BY <2>2 DEF Ask, ReadersTypeOK, FilesTypeOK
    <3>5. commands' \in 0 .. MaxCommands /\ mishaps' = mishaps
      BY <2>2 DEF Ask, Readers
    <3>6. QED
      BY <3>3, <3>4, <3>5 DEF ReadersTypeOK
  <2>3. ASSUME NEW r \in Readers, ProbeRunner(r) PROVE ReadersTypeOK'
    <3>1. CASE Conclude(r, "running")
      BY <2>3, <3>1, ConcludeType DEF ProbeRunner, ReadersTypeOK
    <3>2. CASE /\ reader' = [reader EXCEPT ![r].at = IF reader[r].adapter THEN "adapter" ELSE "scan"]
               /\ UNCHANGED reported
      <4>1. \/ reader' = [reader EXCEPT ![r] = [reader[r] EXCEPT !.at = "adapter"]]
            \/ reader' = [reader EXCEPT ![r] = [reader[r] EXCEPT !.at = "scan"]]
        BY <3>2 
      <4>2. QED
        BY <2>3, <3>2, <4>1, NobodySits DEF ProbeRunner, ReadersTypeOK, Seats
    <3>3. QED
      BY <2>3, <3>1, <3>2 DEF ProbeRunner
  <2>4. ASSUME NEW r \in Readers, ProbeAdapter(r) PROVE ReadersTypeOK'
    <3>1. CASE Conclude(r, "running")
      BY <2>4, <3>1, ConcludeType DEF ProbeAdapter, ReadersTypeOK
    <3>2. CASE reader' = [reader EXCEPT ![r].at = "scan"] /\ UNCHANGED reported
      <4>1. reader' = [reader EXCEPT ![r] = [reader[r] EXCEPT !.at = "scan"]]
        BY <3>2 
      <4>2. QED
        <5>1. reader' \in [Readers -> Seats]
          BY <4>1 DEF ReadersTypeOK, Seats
        <5>2. QED
          BY <2>4, <3>2, <5>1 DEF ProbeAdapter, ReadersTypeOK
    <3>3. QED
      BY <2>4, <3>1, <3>2 DEF ProbeAdapter
  <2>5. ASSUME NEW r \in Readers, ScanLog(r) PROVE ReadersTypeOK'
    <3>1. PICK v \in Reasons \cup {"running", "crashed"} : Conclude(r, v)
      BY <2>5 DEF ScanLog, FilesTypeOK
    <3>2. QED
      BY <2>5, <3>1, ConcludeType DEF ScanLog, ReadersTypeOK
  <2>6. ASSUME NEW r \in Readers, PrintAnswer(r) PROVE ReadersTypeOK'
    BY <2>6, NobodySits DEF PrintAnswer, ReadersTypeOK, Statuses, Reasons, Seats
  <2>7. QED
    BY <1>4, <2>1, <2>2, <2>3, <2>4, <2>5, <2>6 DEF Still
<1>5. CASE SpawnAdapter \/ PersistAdapter
  BY <1>1, <1>5 DEF SpawnAdapter, PersistAdapter
<1>6. CASE UNCHANGED vars
  BY <1>1, <1>6 DEF vars
<1>7. QED
  BY <1>2, <1>3, <1>4, <1>5, <1>6, Steps DEF Apart

(* What no step takes back.                                                *)
Firm ==
  /\ meta.status # "none" => meta.status' # "none"
  /\ log.done # "none" => log.done' = log.done /\ log.legible' = log.legible
  /\ meta.status # "none" /\ ~Up => ~Up' /\ log.done' = log.done

LEMMA FirmReaders ==
  ASSUME Reading, Told, Course, Firm, UNCHANGED reported,
         \A r \in Readers :
           /\ reader'[r].at # "idle" => reader[r].at # "idle"
           /\ reader'[r].at \in {"adapter", "scan", "answer"} => reader'[r].at = reader[r].at
  PROVE  Reading' /\ Told'
<1>1. Reading'
  BY DEF Reading, Firm, Reasons
<1>2. Told'
  <2>1. reported # {} => meta'.status # "none"
    BY DEF Told, Firm
  <2>2. \A v \in reported \cap Reasons : log'.done = v
    BY DEF Told, Firm, Reasons
  <2>3. reported \cap {"crashed", "lost"} # {} =>
          (log'.done = "none" /\ ~Up') \/ (log'.done # "none" /\ ~log'.legible)
    BY DEF Told, Firm
  <2>4. QED
    BY <2>1, <2>2, <2>3 DEF Told
<1>3. QED
  BY <1>1, <1>2

LEMMA ApartFiles ==
  ASSUME Files, Apart, FilesTypeOK, AdapterTypeOK
  PROVE  Files'
<1>1. /\ UNCHANGED <<host, mode, launcher, meta, reason, reader, reported>>
      /\ log'.done = log.done /\ log'.legible = log.legible
  BY ApartFacts DEF readers
<1>2. Firm
  BY <1>1 DEF Firm, Up
<1>3. Launching' /\ Course'
  BY <1>1 DEF Files, Launching, Course
<1>4. QED
  BY <1>1, <1>2, <1>3, FirmReaders DEF Files

(* The two steps of cancel against its victim.                             *)
LEMMA SendFacts ==
  ASSUME ReadersTypeOK, NEW r \in Readers, SendSigterm(r)
  PROVE  /\ UNCHANGED <<mode, launcher, files, reported, commands, mishaps>>
         /\ \/ host' = host /\ reason' = reason
            \/ Up /\ host' = "killed" /\ reason' = reason
            \/ host = "collect" /\ host' = "shutdown" /\ reason' = "cancelled"
         /\ \E n \in Seats :
              /\ reader' = [reader EXCEPT ![r] = n] /\ reader[r].at # "idle"
              /\ n.at \in {"idle", "poll runner", "poll adapter"}
<1>1. UNCHANGED <<mode, launcher, files, reported, commands, mishaps>>
  BY DEF SendSigterm
<1>2. \/ host' = host /\ reason' = reason
      \/ Up /\ host' = "killed" /\ reason' = reason
      \/ host = "collect" /\ host' = "shutdown" /\ reason' = "cancelled"
  BY DEF SendSigterm, Cancelled, Gone
<1>3. /\ reader[r].at # "idle"
      /\ \/ reader' = [reader EXCEPT ![r] = Nobody]
         \/ reader' = [reader EXCEPT ![r] = [reader[r] EXCEPT !.at = "poll runner"]]
         \/ reader' = [reader EXCEPT ![r] = [reader[r] EXCEPT !.at = "poll adapter"]]
  BY DEF SendSigterm, ReadersTypeOK
<1>4. PICK n : /\ reader' = [reader EXCEPT ![r] = n]
               /\ n \in Seats /\ n.at \in {"idle", "poll runner", "poll adapter"}
  <2>1. reader[r] \in Seats
    BY DEF ReadersTypeOK
  <2>2. CASE reader' = [reader EXCEPT ![r] = Nobody]
    BY <2>2, NobodySits
  <2>3. ASSUME NEW w \in {"poll runner", "poll adapter"},
               reader' = [reader EXCEPT ![r] = [reader[r] EXCEPT !.at = w]]
        PROVE  \E n : /\ reader' = [reader EXCEPT ![r] = n]
                      /\ n \in Seats /\ n.at \in {"idle", "poll runner", "poll adapter"}
    BY <2>1, <2>3, SeatMoved
  <2>4. QED
    BY <1>3, <2>2, <2>3
<1>5. QED
  BY <1>1, <1>2, <1>3, <1>4

LEMMA PollFacts ==
  ASSUME ReadersTypeOK, NEW r \in Readers, PollVictim(r)
  PROVE  /\ UNCHANGED <<mode, launcher, files, reported, commands, mishaps>>
         /\ \/ host' = host /\ reason' = reason
            \/ Up /\ host' = "killed" /\ reason' = reason
            \/ host = "collect" /\ host' = "shutdown" /\ reason' = "cancelled"
         /\ \E n \in Seats :
              /\ reader' = [reader EXCEPT ![r] = n] /\ reader[r].at # "idle"
              /\ n.at \in {"idle", "poll runner", "poll adapter"}
<1>1. UNCHANGED <<mode, launcher, files, reported, commands, mishaps>>
  BY DEF PollVictim
<1>2. (host' = host \/ (Up /\ host' = "killed")) /\ reason' = reason
  BY DEF PollVictim, Gone
<1>3. reader[r].at # "idle" /\ reader' = [reader EXCEPT ![r] = Nobody]
  BY DEF PollVictim
<1>4. QED
  BY <1>1, <1>2, <1>3, NobodySits

LEMMA FilesStep ==
  ASSUME Files, AdapterTypeOK, FilesTypeOK, ReadersTypeOK, [Next]_vars
  PROVE  Files'
<1>a. ASSUME Launching', Course', Firm, UNCHANGED <<reader, reported>> PROVE Files'
  BY <1>a, FirmReaders DEF Files
<1> USE DEF Up, Reasons
<1>1. ASSUME WritePrompt PROVE Files'
  <2>1. Launching'
    BY <1>1 DEF WritePrompt, Files, Launching, Course, FilesTypeOK, files
  <2>2. Course'
    BY <1>1 DEF WritePrompt, Files, Launching, Course, FilesTypeOK, files
  <2>3. Firm /\ UNCHANGED <<reader, reported>>
    BY <1>1 DEF WritePrompt, Files, Launching, Course, Firm, FilesTypeOK, files, readers
  <2>4. QED
    BY <2>1, <2>2, <2>3, <1>a
<1>2. ASSUME SpawnRunner PROVE Files'
  <2>1. Launching'
    BY <1>2 DEF SpawnRunner, Files, Launching, Course, FilesTypeOK, files
  <2>2. Course'
    BY <1>2 DEF SpawnRunner, Files, Launching, Course, FilesTypeOK, files
  <2>3. Firm /\ UNCHANGED <<reader, reported>>
    BY <1>2 DEF SpawnRunner, Files, Launching, Course, Firm, FilesTypeOK, files, readers
  <2>4. QED
    BY <2>1, <2>2, <2>3, <1>a
<1>3. ASSUME RecordJob PROVE Files'
  <2>1. Launching'
    BY <1>3 DEF RecordJob, Files, Launching, Course, FilesTypeOK, files
  <2>2. Course'
    BY <1>3 DEF RecordJob, Files, Launching, Course, FilesTypeOK, files
  <2>3. Firm /\ UNCHANGED <<reader, reported>>
    BY <1>3 DEF RecordJob, Files, Launching, Course, Firm, FilesTypeOK, files, readers
  <2>4. QED
    BY <2>1, <2>2, <2>3, <1>a
<1>4. ASSUME LauncherDies PROVE Files'
  <2>1. Launching'
    BY <1>4 DEF LauncherDies, Files, Launching, Course, FilesTypeOK, files
  <2>2. Course'
    BY <1>4 DEF LauncherDies, Files, Launching, Course, FilesTypeOK, files
  <2>3. Firm /\ UNCHANGED <<reader, reported>>
    BY <1>4 DEF LauncherDies, Files, Launching, Course, Firm, FilesTypeOK, files, readers
  <2>4. QED
    BY <2>1, <2>2, <2>3, <1>a
<1>5. ASSUME ReadMetadata PROVE Files'
  <2>1. Launching'
    BY <1>5 DEF ReadMetadata, Files, Launching, Course, FilesTypeOK, files
  <2>2. Course'
    BY <1>5 DEF ReadMetadata, Files, Launching, Course, FilesTypeOK, files
  <2>3. Firm /\ UNCHANGED <<reader, reported>>
    BY <1>5 DEF ReadMetadata, Files, Launching, Course, Firm, FilesTypeOK, files, readers
  <2>4. QED
    BY <2>1, <2>2, <2>3, <1>a
<1>6. ASSUME ReadPrompt PROVE Files'
  <2>1. Launching'
    BY <1>6 DEF ReadPrompt, Files, Launching, Course, FilesTypeOK, files
  <2>2. Course'
    BY <1>6 DEF ReadPrompt, Files, Launching, Course, FilesTypeOK, files
  <2>3. Firm /\ UNCHANGED <<reader, reported>>
    BY <1>6 DEF ReadPrompt, Files, Launching, Course, Firm, FilesTypeOK, files, readers
  <2>4. QED
    BY <2>1, <2>2, <2>3, <1>a
<1>7. ASSUME SpawnFails PROVE Files'
  <2>1. Launching'
    BY <1>7 DEF SpawnFails, Files, Launching, Course, FilesTypeOK, files
  <2>2. Course'
    BY <1>7 DEF SpawnFails, Files, Launching, Course, FilesTypeOK, Statuses, files
  <2>3. Firm /\ UNCHANGED <<reader, reported>>
    BY <1>7 DEF SpawnFails, Files, Launching, Course, Firm, FilesTypeOK, files, readers
  <2>4. QED
    BY <2>1, <2>2, <2>3, <1>a
<1>8. ASSUME SpawnAdapter PROVE Files'
  <2>1. Launching'
    BY <1>8 DEF SpawnAdapter, Files, Launching, Course, FilesTypeOK, files
  <2>2. Course'
    BY <1>8 DEF SpawnAdapter, Files, Launching, Course, FilesTypeOK, files
  <2>3. Firm /\ UNCHANGED <<reader, reported>>
    BY <1>8 DEF SpawnAdapter, Files, Launching, Course, Firm, FilesTypeOK, files, readers
  <2>4. QED
    BY <2>1, <2>2, <2>3, <1>a
<1>9. ASSUME PersistAdapter PROVE Files'
  <2>1. Launching'
    BY <1>9 DEF PersistAdapter, Files, Launching, Course, FilesTypeOK, files
  <2>2. Course'
    BY <1>9 DEF PersistAdapter, Files, Launching, Course, FilesTypeOK, files
  <2>3. Firm /\ UNCHANGED <<reader, reported>>
    BY <1>9 DEF PersistAdapter, Files, Launching, Course, Firm, FilesTypeOK, files, readers
  <2>4. QED
    BY <2>1, <2>2, <2>3, <1>a
<1>10. ASSUME Finish PROVE Files'
  <2>1. Launching'
    BY <1>10 DEF Finish, Files, Launching, Course, FilesTypeOK, files
  <2>2. Course'
    BY <1>10 DEF Finish, Files, Launching, Course, FilesTypeOK, files
  <2>3. Firm /\ UNCHANGED <<reader, reported>>
    BY <1>10 DEF Finish, Files, Launching, Course, Firm, FilesTypeOK, files, readers
  <2>4. QED
    BY <2>1, <2>2, <2>3, <1>a
<1>11. ASSUME Drained PROVE Files'
  <2>1. Launching'
    BY <1>11 DEF Drained, Files, Launching, Course, FilesTypeOK, files, Gone, memory
  <2>2. Course'
    BY <1>11 DEF Drained, Files, Launching, Course, FilesTypeOK, Statuses, files, Gone, memory
  <2>3. Firm /\ UNCHANGED <<reader, reported>>
    BY <1>11 DEF Drained, Files, Launching, Course, Firm, FilesTypeOK, files, readers, Gone, memory
  <2>4. QED
    BY <2>1, <2>2, <2>3, <1>a
<1>12. ASSUME WriteSentinel PROVE Files'
  <2>1. Launching'
    BY <1>12 DEF WriteSentinel, Files, Launching, Course, FilesTypeOK, files
  <2>2. Course'
    BY <1>12 DEF WriteSentinel, Files, Launching, Course, FilesTypeOK, files
  <2>3. Firm /\ UNCHANGED <<reader, reported>>
    BY <1>12 DEF WriteSentinel, Files, Launching, Course, Firm, FilesTypeOK, files, readers
  <2>4. QED
    BY <2>1, <2>2, <2>3, <1>a
<1>13. ASSUME FlipMetadata PROVE Files'
  <2>1. Launching'
    BY <1>13 DEF FlipMetadata, Files, Launching, Course, FilesTypeOK, files, Gone, memory
  <2>2. Course'
    BY <1>13 DEF FlipMetadata, Files, Launching, Course, FilesTypeOK, files, Gone, memory
  <2>3. Firm /\ UNCHANGED <<reader, reported>>
    BY <1>13 DEF FlipMetadata, Files, Launching, Course, Firm, FilesTypeOK, files, readers, Gone, memory
  <2>4. QED
    BY <2>1, <2>2, <2>3, <1>a
<1>14. ASSUME WriteMd PROVE Files'
  <2>1. Launching'
    BY <1>14 DEF WriteMd, Files, Launching, Course, FilesTypeOK, files, Gone, memory
  <2>2. Course'
    BY <1>14 DEF WriteMd, Files, Launching, Course, FilesTypeOK, files, Gone, memory
  <2>3. Firm /\ UNCHANGED <<reader, reported>>
    BY <1>14 DEF WriteMd, Files, Launching, Course, Firm, FilesTypeOK, files, readers, Gone, memory
  <2>4. QED
    BY <2>1, <2>2, <2>3, <1>a
<1>15. ASSUME HostKilled PROVE Files'
  <2>1. Launching'
    BY <1>15 DEF HostKilled, Files, Launching, Course, FilesTypeOK, files, Gone, memory
  <2>2. Course'
    BY <1>15 DEF HostKilled, Files, Launching, Course, FilesTypeOK, files, Gone, memory
  <2>3. Firm /\ UNCHANGED <<reader, reported>>
    BY <1>15 DEF HostKilled, Files, Launching, Course, Firm, FilesTypeOK, files, readers, Gone, memory
  <2>4. QED
    BY <2>1, <2>2, <2>3, <1>a
<1>16. ASSUME NEW r \in Readers, SendSigterm(r) \/ PollVictim(r) PROVE Files'
  <2>1. /\ UNCHANGED <<mode, launcher, files, reported>>
        /\ \/ host' = host /\ reason' = reason
           \/ Up /\ host' = "killed" /\ reason' = reason
           \/ host = "collect" /\ host' = "shutdown" /\ reason' = "cancelled"
    BY <1>16, SendFacts, PollFacts
  <2>2. Launching' /\ Course'
    BY <2>1 DEF Files, Launching, Course, FilesTypeOK, files
  <2>3. Firm
    BY <2>1 DEF Firm, files
  <2>4. PICK n \in Seats :
          /\ reader' = [reader EXCEPT ![r] = n] /\ reader[r].at # "idle"
          /\ n.at \in {"idle", "poll runner", "poll adapter"}
    BY <1>16, SendFacts, PollFacts
  <2>5. \A q \in Readers :
          /\ reader'[q].at # "idle" => reader[q].at # "idle"
          /\ reader'[q].at \in {"adapter", "scan", "answer"} => reader'[q].at = reader[q].at
    BY <2>4 DEF ReadersTypeOK
  <2>6. QED
    BY <2>1, <2>2, <2>3, <2>5, FirmReaders DEF Files
<1>17. ASSUME NEW r \in Readers, Ask(r) PROVE Files'
  <2>1. UNCHANGED <<host, mode, launcher, meta, log, reason>> /\ meta.status # "none"
    BY <1>17 DEF Ask, System, files
  <2>2. Launching' /\ Course'
    BY <2>1 DEF Files, Launching, Course
  <2>3. PICK op \in {"status", "collect", "cancel"}, n \in Seats :
          /\ reader' = reader \/ reader' = [reader EXCEPT ![r] = n]
          /\ n.at = "runner" \/ (n.at = "answer" /\ meta.status = "completed")
          /\ reported' = reported \/ reported' = reported \cup {meta.status}
          /\ meta.status = "running" => reported' = reported
    <3>1. PICK op \in {"status", "collect", "cancel"} :
            \/ /\ reader' = [reader EXCEPT ![r] = [at |-> "runner", op |-> op, adapter |-> meta.adapter]]
               /\ reported' = reported
            \/ /\ reader' = [reader EXCEPT ![r] = [at |-> "answer", op |-> op, adapter |-> meta.adapter]]
               /\ reported' = reported /\ meta.status = "completed"
            \/ /\ reader' = reader /\ meta.status # "running"
               /\ reported' = reported \/ reported' = reported \cup {meta.status}
      BY <1>17 DEF Ask
    <3>2. /\ [at |-> "runner", op |-> op, adapter |-> meta.adapter] \in Seats
          /\ [at |-> "answer", op |-> op, adapter |-> meta.adapter] \in Seats
      BY DEF Seats, FilesTypeOK
    <3>3. QED
      BY <3>1, <3>2
  <2>4. Reading'
    BY <2>1, <2>3 DEF Files, Reading, Course, ReadersTypeOK
  <2>5. Told'
    BY <2>1, <2>3 DEF Files, Told, Course, FilesTypeOK, Statuses
  <2>6. QED
    BY <2>2, <2>4, <2>5 DEF Files
<1>18. ASSUME NEW r \in Readers,
              ProbeRunner(r) \/ ProbeAdapter(r) \/ ScanLog(r) \/ PrintAnswer(r)
       PROVE  Files'
  <2>1. UNCHANGED <<host, mode, launcher, meta, log, reason>> /\ meta.status # "none"
    BY <1>18 DEF ProbeRunner, ProbeAdapter, ScanLog, PrintAnswer, System, files, Files, Reading
  <2>2. Launching' /\ Course'
    BY <2>1 DEF Files, Launching, Course
  <2>3. ASSUME NEW v, Conclude(r, v),
               \/ v = "running"
               \/ v \in Reasons /\ log.done = v
               \/ v = "crashed" /\ ((log.done = "none" /\ ~Up) \/ (log.done # "none" /\ ~log.legible))
        PROVE  Files'
    <3>1. PICK n \in Seats : /\ reader' = [reader EXCEPT ![r] = n]
                             /\ n.at \in {"idle", "victim"} \/ (n.at = "answer" /\ v = "completed")
      <4>1. \/ reader' = [reader EXCEPT ![r] = Nobody]
            \/ reader' = [reader EXCEPT ![r] = [reader[r] EXCEPT !.at = "victim"]]
            \/ /\ reader' = [reader EXCEPT ![r] = [reader[r] EXCEPT !.at = "answer"]]
               /\ v = "completed"
        BY <2>3 DEF Conclude, ReadersTypeOK
      <4>2. reader[r] \in Seats
        BY DEF ReadersTypeOK
      <4>3. CASE reader' = [reader EXCEPT ![r] = Nobody]
        BY <4>3, NobodySits
      <4>4. ASSUME NEW w \in {"victim", "answer"}, w = "victim" \/ v = "completed",
                   reader' = [reader EXCEPT ![r] = [reader[r] EXCEPT !.at = w]]
            PROVE  \E n \in Seats :
                     /\ reader' = [reader EXCEPT ![r] = n]
                     /\ n.at \in {"idle", "victim"} \/ (n.at = "answer" /\ v = "completed")
        BY <4>2, <4>4, SeatMoved, ZenonT(40)
      <4>5. QED
        BY <4>1, <4>3, <4>4
    <3>2. Reading'
      BY <2>1, <2>3, <3>1 DEF Files, Reading, ReadersTypeOK
    <3>3. reported' = reported \/ reported' = reported \cup {v}
      BY <2>3 DEF Conclude
    <3>4. Told'
      BY <2>1, <2>3, <3>3 DEF Files, Told
    <3>5. QED
      BY <2>2, <3>2, <3>4 DEF Files
  <2>4. CASE ProbeRunner(r)
    <3>1. CASE Conclude(r, "running")
      BY <2>3, <3>1
    <3>2. CASE /\ ~Up /\ UNCHANGED reported
               /\ reader' = [reader EXCEPT ![r].at = IF reader[r].adapter THEN "adapter" ELSE "scan"]
      <4>1. Reading'
        <5>1. PICK n : reader' = [reader EXCEPT ![r] = n] /\ n.at \in {"adapter", "scan"}
          <6>1. \/ reader' = [reader EXCEPT ![r] = [reader[r] EXCEPT !.at = "adapter"]]
                \/ reader' = [reader EXCEPT ![r] = [reader[r] EXCEPT !.at = "scan"]]
            BY <3>2 
          <6>2. QED
            BY <6>1, NobodySits DEF ReadersTypeOK, Seats
        <5>2. QED
          BY <2>1, <3>2, <5>1 DEF Files, Reading, ReadersTypeOK
      <4>2. Told'
        BY <2>1, <3>2 DEF Files, Told
      <4>3. QED
        BY <2>2, <4>1, <4>2 DEF Files
    <3>3. QED
      BY <2>4, <3>1, <3>2 DEF ProbeRunner
  <2>5. CASE ProbeAdapter(r)
    <3>1. CASE Conclude(r, "running")
      BY <2>3, <3>1
    <3>2. CASE reader' = [reader EXCEPT ![r].at = "scan"] /\ UNCHANGED reported
      <4>1. Reading'
        <5>1. PICK n : reader' = [reader EXCEPT ![r] = n] /\ n.at = "scan"
          <6>1. reader' = [reader EXCEPT ![r] = [reader[r] EXCEPT !.at = "scan"]]
            BY <3>2 
          <6>2. reader[r] \in Seats
            BY DEF ReadersTypeOK
          <6>3. PICK n : n = [reader[r] EXCEPT !.at = "scan"]
            OBVIOUS
          <6>4. n.at = "scan"
            BY <6>2, <6>3, SeatMoved
          <6>5. QED
            BY <6>1, <6>3, <6>4
        <5>2. ~Up
          BY <2>5 DEF ProbeAdapter, Files, Reading
        <5>3. QED
          BY <2>1, <5>1, <5>2 DEF Files, Reading, ReadersTypeOK
      <4>2. Told'
        BY <2>1, <3>2 DEF Files, Told
      <4>3. QED
        BY <2>2, <4>1, <4>2 DEF Files
    <3>3. QED
      BY <2>5, <3>1, <3>2 DEF ProbeAdapter
  <2>6. CASE ScanLog(r)
    <3>1. ~Up
      BY <2>6 DEF ScanLog, Files, Reading
    <3>2. CASE log.done # "none" /\ log.legible
      <4>1. Conclude(r, log.done) /\ log.done \in Reasons
        BY <2>6, <3>2 DEF ScanLog, FilesTypeOK
      <4>2. QED
        BY <2>3, <4>1
    <3>3. CASE ~(log.done # "none" /\ log.legible)
      <4>1. Conclude(r, "crashed")
        BY <2>6, <3>3 DEF ScanLog
      <4>2. QED
        BY <2>3, <3>1, <3>3, <4>1
    <3>4. QED
      BY <3>2, <3>3
  <2>7. CASE PrintAnswer(r)
    <3>1. log.done = "completed" /\ reader' = [reader EXCEPT ![r] = Nobody]
      BY <2>7 DEF PrintAnswer, Files, Reading
    <3>2. reported' = reported \cup {"completed"}
          \/ (~log.legible /\ reported' = reported \cup {"lost"})
      BY <2>7 DEF PrintAnswer
    <3>3. Reading'
      BY <2>1, <3>1 DEF Files, Reading, ReadersTypeOK, Nobody
    <3>4. Told'
      BY <2>1, <3>1, <3>2 DEF Files, Told
    <3>5. QED
      BY <2>2, <3>3, <3>4 DEF Files
  <2>8. QED
    BY <1>18, <2>4, <2>5, <2>6, <2>7
<1>19. CASE UNCHANGED vars
  <2>1. Firm /\ UNCHANGED <<reader, reported>>
    BY <1>19 DEF vars, Firm, files, readers
  <2>2. Launching' /\ Course'
    BY <1>19 DEF vars, Files, Launching, Course, files
  <2>3. QED
    BY <2>1, <2>2, <1>a
<1>20. CASE Apart
  BY <1>20, ApartFiles
<1>21. QED
  BY <1>1, <1>2, <1>3, <1>4, <1>5, <1>6, <1>7, <1>8, <1>9, <1>10, <1>11, <1>12, <1>13, <1>14,
     <1>15, <1>16, <1>17, <1>18, <1>19, <1>20, Steps DEF Still, Blow, Apart

----------------------------------------------------------------------------
(* The adapter, its parser, collect() and shutdown().                      *)

LEMMA StillWire ==
  ASSUME Wire, Files, Still
  PROVE  Wire'
<1>1. UNCHANGED <<kind, releasable, child, group, written, ends, handle, collect, shut, reaper, mode>>
  BY StillFacts DEF child_vars, outer, memory, os
<1>2. \/ host' = host
      \/ host \in Early \ {"spawn"} /\ host' \in Early \cup {"exited"}
      \/ host = "spawn" /\ host' \in {"exited", "sentinel"}
      \/ host = "collect" /\ host' = "shutdown"
      \/ host = "sentinel" /\ host' = "verdict"
  <2>1. CASE WritePrompt \/ RecordJob \/ LauncherDies
    BY <2>1 DEF WritePrompt, RecordJob, LauncherDies
  <2>2. CASE ReadMetadata \/ ReadPrompt \/ SpawnFails \/ Finish \/ WriteSentinel
    BY <2>2 DEF ReadMetadata, ReadPrompt, SpawnFails, Finish, WriteSentinel, Early
  <2>3. CASE SpawnRunner
    BY <2>3 DEF SpawnRunner, Files, Launching, Early
  <2>4. ASSUME NEW r \in Readers, Ask(r) \/ ProbeRunner(r) \/ ProbeAdapter(r) \/ ScanLog(r) \/ PrintAnswer(r)
        PROVE  host' = host
    BY <2>4 DEF Ask, ProbeRunner, ProbeAdapter, ScanLog, PrintAnswer, System
  <2>5. QED
    BY <2>1, <2>2, <2>3, <2>4 DEF Still
<1>3. Bounded'
  BY <1>1, <1>2 DEF Wire, Bounded, Closing, Early, Ending, Looping
<1>4. Heard' /\ Parsed'
  BY <1>1 DEF Wire, Heard, Parsed
<1>5. Settled'
  BY <1>1, <1>2 DEF Wire, Settled, Looping, Text, Early
<1>6. Closing'
  BY <1>1, <1>2 DEF Wire, Bounded, Closing, Early, Ending, Looping, Leaked
<1>7. QED
  BY <1>3, <1>4, <1>5, <1>6 DEF Wire

LEMMA NewHandleFacts ==
  /\ NewHandle.read = 0 /\ NewHandle.upto = 0 /\ ~NewHandle.turn
  /\ NewHandle.status = "running" /\ NewHandle.exit = "no" /\ ~NewHandle.closed
  /\ ~NewHandle.killed /\ ~NewHandle.onTurn
  BY DEF NewHandle

(* The host, or the child, or both, come to their end.                     *)
LEMMA GoneWire ==
  ASSUME Wire, NEW how \in {"exited", "killed"}, Up, Gone(how),
         UNCHANGED <<kind, releasable, written, collect, reaper, mode>>,
         child' = child \/ (child = "live" /\ child' = "signal")
  PROVE  Wire'
<1>1. ~Looping' /\ host' \notin Ending \cup Early \cup {"persist"}
  BY DEF Gone, Looping, Ending, Early
<1>2. Bounded'
  BY <1>1 DEF Wire, Bounded, Gone
<1>3. Heard'
  BY NewHandleFacts DEF Wire, Heard, Gone
<1>4. Parsed'
  BY NewHandleFacts DEF Parsed, Gone, Chunks
<1>5. Settled'
  BY <1>1 DEF Settled
<1>6. Closing'
  BY <1>1, NewHandleFacts DEF Wire, Closing, Gone
<1>7. QED
  BY <1>2, <1>3, <1>4, <1>5, <1>6 DEF Wire

LEMMA StruckWire ==
  ASSUME Wire, AdapterTypeOK,
         UNCHANGED <<kind, releasable, written, handle, collect, shut, host, mode>>,
         child' = child \/ (child = "live" /\ child' \in Ended /\ (child' = "zero" => written = Chunks)),
         reaper = "none" <=> reaper' = "none"
  PROVE  Wire'
<1>1. Bounded'
  BY DEF Wire, Bounded, Looping, Ended
<1>2. Heard' /\ Parsed'
  BY DEF Wire, Heard, Parsed, Ended
<1>3. Settled'
  BY DEF Wire, Settled, Looping, Text
<1>4. Closing'
  BY DEF Wire, Closing, Leaked, Ended
<1>5. QED
  BY <1>1, <1>2, <1>3, <1>4 DEF Wire

LEMMA WriteWire ==
  ASSUME Wire, AdapterTypeOK, Write, mode' = mode
  PROVE  Wire'
<1>1. UNCHANGED <<kind, releasable, host, child, handle, collect, shut, reaper>> /\ child = "live"
      /\ handle.exit = "no"
  BY DEF Write, Wire, Heard, Ended
<1>2. Bounded' /\ Closing'
  BY <1>1 DEF Wire, Bounded, Closing, Looping, Leaked
<1>3. Heard' /\ Parsed'
  BY <1>1 DEF Wire, Heard, Parsed, Ended
<1>4. Settled'
  BY <1>1 DEF Wire, Settled, Looping, Text
<1>5. QED
  BY <1>2, <1>3, <1>4 DEF Wire

LEMMA SpawnWire ==
  ASSUME Wire, SpawnAdapter \/ PersistAdapter
  PROVE  Wire'
<1>1. /\ UNCHANGED <<kind, releasable, written, handle, shut, reaper, mode>>
      /\ host \in {"spawn", "persist"} /\ host' \in {"persist", "collect"}
      /\ collect' = IF host' = "persist" THEN collect ELSE "waiting"
      /\ IF host = "spawn" THEN child' = "live" ELSE child' = child
  BY DEF SpawnAdapter, PersistAdapter, os
<1>2. handle = NewHandle /\ shut = "idle" /\ collect = "idle"
  BY <1>1 DEF Wire, Bounded, Looping, Ending, Early
<1>3. child' # "none" /\ reaper' = reaper
  BY <1>1 DEF Wire, Bounded
<1>4. Bounded'
  BY <1>1, <1>2, <1>3 DEF Wire, Bounded, Looping, Early, Ending
<1>5. Heard'
  BY <1>1, <1>2, NewHandleFacts DEF Wire, Heard
<1>6. Parsed'
  BY <1>1 DEF Wire, Parsed
<1>7. Settled'
  BY <1>1, <1>2 DEF Settled, Looping
<1>8. Closing'
  BY <1>1, <1>2, NewHandleFacts DEF Wire, Closing, Ending
<1>9. QED
  BY <1>4, <1>5, <1>6, <1>7, <1>8 DEF Wire

LEMMA DataWire ==
  ASSUME Wire, AdapterTypeOK, AdapterTypeOK', Data,
         UNCHANGED <<kind, releasable, host, child, written, shut, reaper, mode>>
  PROVE  Wire'
<1> USE DataFacts
<1>1. Looping /\ ~handle.closed
  BY DEF Data, Wire, Heard, AdapterTypeOK, Handles, Chunks
<1>2. handle.upto \in 0 .. Chunks /\ handle.read \in 0 .. Chunks /\ written \in 0 .. Chunks
      /\ handle'.upto \in 0 .. Chunks /\ kind \in Kinds
  BY DEF AdapterTypeOK, Handles
<1>3. kind = "codex" => ~handle.turn
  BY <1>2 DEF Wire, Parsed, Chunks
<1>4. Bounded'
  BY <1>1 DEF Wire, Bounded, Looping, Ending, Early
<1>5. Heard'
  BY <1>1, <1>2 DEF Wire, Heard, Kinds
<1>6. Parsed'
  BY <1>1, <1>2, <1>3 DEF Wire, Parsed, Kinds, Chunks
<1>7. Settled'
  BY <1>1, <1>2, <1>3 DEF Wire, Bounded, Settled, Parsed, Looping, Text, Kinds, Chunks
<1>8. Closing'
  BY <1>1 DEF Wire, Closing, Leaked
<1>9. QED
  BY <1>4, <1>5, <1>6, <1>7, <1>8 DEF Wire

LEMMA ExitWire ==
  ASSUME Wire, AdapterTypeOK, Exit,
         UNCHANGED <<kind, releasable, host, child, written, reaper, mode>>
  PROVE  Wire'
<1>1. /\ Looping /\ child \in Ended /\ handle.exit = "no" /\ ~handle.closed
      /\ collect' = collect
  BY DEF Exit, Wire, Heard
<1>2. /\ handle.upto \in 0 .. Chunks /\ handle.read \in 0 .. Chunks /\ written \in 0 .. Chunks
      /\ kind \in Kinds /\ handle \in Handles /\ handle.read <= written
  BY DEF AdapterTypeOK, Handles
<1>3. PICK x \in Handles :
        /\ x = (IF kind = "gemini" THEN FlushOutput(handle) ELSE handle)
        /\ x.read = handle.read /\ x.closed = handle.closed
        /\ x.killed = handle.killed /\ x.onTurn = handle.onTurn
  BY <1>2, FlushedType
<1>4. /\ kind = "codex" => x = handle
      /\ kind = "gemini" =>
           /\ x.upto = x.read
           /\ x.read = 0 => x.turn = handle.turn /\ x.status = handle.status
           /\ x.read = 1 => x.turn = handle.turn /\ x.status = "failed"
           /\ x.read = 2 => x.turn /\ x.status # "running"
           /\ x.status = "completed" => x.turn
  <2>1. CASE kind # "gemini"
    BY <1>3, <2>1
  <2>2. CASE kind = "gemini"
    <3>1. x = FlushOutput(handle) /\ handle.upto = 0 /\ handle.status \in {"running", "completed", "failed"}
      BY <1>1, <1>2, <1>3, <2>2 DEF Wire, Parsed, Handles
    <3>2. CASE handle.read = 0
      BY <1>2, <1>3, <2>2, <3>1, <3>2 DEF FlushOutput, Wire, Parsed
    <3>3. CASE handle.read = 1
      BY <1>2, <1>3, <2>2, <3>1, <3>3 DEF FlushOutput, Handles, Chunks
    <3>4. CASE handle.read = 2
      <4> DEFINE st == IF handle.status = "running" THEN "completed" ELSE handle.status
      <4>1. x = [handle EXCEPT !.upto = handle.read, !.turn = TRUE, !.status = st]
        BY <3>1, <3>4 DEF FlushOutput, Chunks
      <4>2. st \in {"completed", "failed"}
        BY <3>1
      <4> HIDE DEF st
      <4>3. x.upto = 2 /\ x.turn /\ x.status = st /\ x.read = 2
        BY <1>2, <3>4, <4>1 DEF Handles
      <4>4. QED
        BY <2>2, <4>2, <4>3
    <3>5. QED
      BY <1>2, <3>2, <3>3, <3>4 DEF Chunks
  <2>3. QED
    BY <2>1, <2>2
<1>5. /\ handle'.exit = CodeOf /\ handle'.read = x.read /\ handle'.upto = x.upto
      /\ handle'.turn = x.turn /\ handle'.closed = x.closed /\ handle'.killed = x.killed
      /\ handle'.onTurn = x.onTurn
      /\ handle'.status = IF x.status = "running" /\ child # "zero" THEN "failed" ELSE x.status
      /\ kind = "gemini" /\ x.upto > 0 /\ x.read < written => handle'.cut
  BY <1>3 DEF Exit, Handles
<1>6. CodeOf \in {"zero", "error", "null"} /\ (CodeOf = "zero" <=> child = "zero")
  BY <1>1 DEF CodeOf
<1>7. Bounded'
  BY <1>1 DEF Wire, Bounded, Looping, Ending, Early
<1>8. Heard'
  BY <1>1, <1>3, <1>5, <1>6 DEF Wire, Heard
<1>9. Parsed'
  <2>1. CASE kind = "codex"
    BY <1>1, <1>3, <1>4, <1>5, <2>1 DEF Wire, Parsed
  <2>2. CASE kind = "gemini"
    <3>1. handle'.upto = handle'.read /\ handle'.read \in {0, 1, 2} /\ handle'.exit # "no"
      BY <1>2, <1>3, <1>4, <1>5, <1>6, <2>2 DEF Chunks
    <3>2. handle'.status = "completed" => handle'.turn
      BY <1>4, <1>5, <2>2
    <3>3. /\ handle'.upto > 0 => handle'.turn \/ handle'.status = "failed"
          /\ handle'.upto = Chunks => handle'.turn
      BY <1>4, <1>5, <2>2, <3>1 DEF Chunks
    <3>4. handle'.turn => handle'.upto > 0
      BY <1>1, <1>2, <1>3, <1>4, <1>5, <2>2, <3>1 DEF Wire, Parsed, Chunks
    <3>5. handle'.upto = 1 /\ written = Chunks => handle'.cut
      BY <1>4, <1>5, <2>2, <3>1 DEF Chunks
    <3>6. QED
      BY <2>2, <3>1, <3>2, <3>3, <3>4, <3>5 DEF Parsed
  <2>3. QED
    BY <1>2, <2>1, <2>2 DEF Kinds
<1>10. Settled'
  <2>1. collect' = "ok" => Text'
    BY <1>1, <1>2, <1>3, <1>4, <1>5 DEF Wire, Settled, Parsed, Text, Kinds, Chunks
  <2>2. collect' # "error"
    BY <1>1 DEF Wire, Settled
  <2>3. QED
    BY <2>1, <2>2 DEF Settled
<1>11. Closing'
  <2>1. shut' \in {shut, "done", "settle"} /\ (shut = "idle" => shut' = "idle")
        /\ (shut' # "idle" => shut # "idle")
    BY DEF Exit
  <2>2. QED
    BY <1>1, <1>3, <1>5, <2>1 DEF Wire, Closing, Leaked, Ended, Looping, Ending
<1>12. QED
  BY <1>7, <1>8, <1>9, <1>10, <1>11 DEF Wire

LEMMA CloseWire ==
  ASSUME Wire, AdapterTypeOK, Close,
         UNCHANGED <<kind, releasable, host, child, written, shut, reaper, mode>>
  PROVE  Wire'
<1>1. /\ Looping /\ handle.exit # "no" /\ ~handle.closed /\ handle.read = written
      /\ child \in Ended
  BY DEF Close, Wire, Heard
<1>2. /\ handle.upto \in 0 .. Chunks /\ handle.read \in 0 .. Chunks
      /\ kind \in Kinds /\ handle \in Handles
  BY DEF AdapterTypeOK, Handles
<1>3. PICK x \in Handles :
        /\ x = (CASE kind = "gemini" -> FlushOutput(handle)
                  [] kind = "codex" /\ collect = "waiting" -> FlushLine(handle)
                  [] OTHER -> handle)
        /\ x.read = handle.read /\ x.exit = handle.exit /\ x.cut = handle.cut
        /\ x.killed = handle.killed /\ x.onTurn = handle.onTurn
  BY <1>2, FlushedType
<1>4. /\ kind = "codex" =>
           /\ x.upto = Chunks \/ x.upto = handle.upto
           /\ x.turn <=> x.upto = Chunks
           /\ x.upto >= handle.upto /\ x.upto <= x.read /\ x.read <= x.upto + 1
           /\ x.status \in {handle.status, "completed"}
           /\ x.status = "completed" => x.turn
           /\ collect = "waiting" /\ x.read = Chunks => x.turn
      /\ kind = "gemini" =>
           /\ x.upto = x.read
           /\ handle.turn => x.turn
           /\ x.upto > 0 => x.turn \/ x.status = "failed"
           /\ x.turn => x.upto > 0
           /\ x.status = "completed" => x.turn
           /\ x.status = "running" => handle.status = "running"
           /\ x.upto = Chunks => x.turn \/ x.cut
           /\ x.upto = 1 => x.read = 1
  BY <1>1, <1>2, <1>3 DEF FlushOutput, FlushLine, Wire, Parsed, Handles, Chunks, Kinds
<1>5. /\ handle'.exit = x.exit /\ handle'.read = x.read /\ handle'.upto = x.upto
      /\ handle'.turn = x.turn /\ handle'.closed /\ handle'.killed = x.killed
      /\ handle'.onTurn = x.onTurn /\ handle'.status = x.status /\ handle'.cut = x.cut
      /\ collect' = IF collect = "waiting" THEN Monitored(x) ELSE collect
  BY <1>3 DEF Close, Handles
<1>6. Bounded'
  BY <1>1, <1>5 DEF Wire, Bounded, Looping, Ending, Early, Monitored
<1>7. x.status = "running" => handle.status = "running"
  BY <1>2, <1>4 DEF Kinds
<1>8. Heard'
  BY <1>1, <1>3, <1>5, <1>7 DEF Wire, Heard
<1>9. Parsed'
  BY <1>1, <1>2, <1>3, <1>4, <1>5 DEF Wire, Parsed, Chunks, Kinds
<1>10. Settled'
  <2>1. CASE collect = "waiting"
    <3>1. Monitored(x) = "ok" => x.status # "failed" \/ x.turn
      BY DEF Monitored
    <3>2. x.status = "running" => x.read = Chunks
      BY <1>1, <1>3, <1>7 DEF Wire, Heard
    <3>3. Monitored(x) = "ok" => IF kind = "codex" THEN x.upto >= 1 ELSE x.turn
      BY <1>2, <1>3, <1>4, <2>1, <3>1, <3>2 DEF Kinds, Handles, Chunks
    <3>4. Monitored(x) = "error" => (x.read = Chunks => x.cut)
      BY <1>2, <1>3, <1>4, <2>1 DEF Monitored, Kinds
    <3>5. QED
      BY <1>5, <2>1, <3>3, <3>4 DEF Settled, Text
  <2>2. CASE collect # "waiting"
    BY <1>1, <1>2, <1>3, <1>4, <1>5, <2>2 DEF Wire, Settled, Text, Kinds
  <2>3. QED
    BY <2>1, <2>2
<1>11. Closing'
  BY <1>1, <1>3, <1>5 DEF Wire, Closing, Leaked, Ended, Monitored
<1>12. QED
  BY <1>6, <1>8, <1>9, <1>10, <1>11 DEF Wire

LEMMA ReapWire ==
  ASSUME Wire, AdapterTypeOK, Reap,
         UNCHANGED <<kind, releasable, host, child, written, collect, shut, reaper, mode>>
  PROVE  Wire'
<1>1. /\ handle'.exit = handle.exit /\ handle'.read = handle.read /\ handle'.upto = handle.upto
      /\ handle'.turn = handle.turn /\ handle'.closed = handle.closed
      /\ handle'.killed = handle.killed /\ handle'.onTurn = handle.onTurn
      /\ handle'.status = handle.status /\ handle'.cut = handle.cut /\ Looping
  BY DEF Reap, AdapterTypeOK, Handles
<1>2. Bounded'
  BY <1>1 DEF Wire, Bounded, Looping, Ending, Early
<1>3. Heard' /\ Parsed'
  BY <1>1 DEF Wire, Heard, Parsed
<1>4. Settled' /\ Closing'
  BY <1>1 DEF Wire, Settled, Closing, Leaked, Text, Looping
<1>5. QED
  BY <1>2, <1>3, <1>4 DEF Wire

LEMMA TimeoutWire ==
  ASSUME Wire, AdapterTypeOK, CollectTimeout,
         UNCHANGED <<kind, releasable, host, written, shut, reaper, mode>>
  PROVE  Wire'
<1>1. /\ handle'.exit = handle.exit /\ handle'.read = handle.read /\ handle'.upto = handle.upto
      /\ handle'.turn = handle.turn /\ handle'.closed = handle.closed
      /\ handle'.onTurn = handle.onTurn
      /\ handle'.status = "failed" /\ handle'.cut = handle.cut
      /\ handle'.killed => handle.killed \/ kind = "gemini"
      /\ Looping /\ collect = "waiting" /\ collect' = "timeout"
  BY DEF CollectTimeout, AdapterTypeOK, Handles
<1>2. child' = child \/ (child = "live" /\ child' = "signal")
  BY DEF CollectTimeout, Termed
<1>3. Bounded'
  BY <1>1, <1>2 DEF Wire, Bounded, Looping, Ending, Early
<1>4. Heard' /\ Parsed'
  BY <1>1, <1>2 DEF Wire, Heard, Parsed, Ended
<1>5. Settled'
  BY <1>1 DEF Settled
<1>6. Closing'
  BY <1>1, <1>2 DEF Wire, Closing, Leaked
<1>7. QED
  BY <1>3, <1>4, <1>5, <1>6 DEF Wire

LEMMA ShutdownWire ==
  ASSUME Wire, AdapterTypeOK, Shutdown
  PROVE  Wire'
<1>1. UNCHANGED <<kind, releasable, host, written, collect, mode>> /\ host = "shutdown"
  BY DEF Shutdown
<1>2. /\ handle'.exit = handle.exit /\ handle'.read = handle.read /\ handle'.upto = handle.upto
      /\ handle'.turn = handle.turn /\ handle'.closed = handle.closed
      /\ handle'.onTurn = handle.onTurn
      /\ handle'.status = handle.status /\ handle'.cut = handle.cut
  <2>1. \/ handle' = handle
        \/ handle' = [handle EXCEPT !.killed = @ \/ handle.exit = "no"]
        \/ handle' = [handle EXCEPT !.reap = "over"]
    BY DEF Shutdown, ShutdownBegins, GraceEnds, HandedOver, HandoverFails, StillThere, Settle, Signal
  <2>2. QED
    BY <2>1 DEF AdapterTypeOK, Handles
<1>3. /\ child' = child \/ (child = "live" /\ child' = "signal")
      /\ reaper # "none" => reaper' # "none"
      /\ reaper' # reaper => handle.onTurn
      /\ shut' = "idle" => FALSE
  BY DEF Shutdown, ShutdownBegins, GraceEnds, HandedOver, HandoverFails, StillThere, Settle, Signal,
     Termed, KillAll, AfterSignal
<1>4. Bounded'
  BY <1>1, <1>3 DEF Wire, Bounded, Looping, Ending, Early
<1>5. Heard' /\ Parsed'
  BY <1>1, <1>2, <1>3 DEF Wire, Heard, Parsed, Ended
<1>6. Settled'
  BY <1>1, <1>2 DEF Wire, Settled, Looping, Text
<1>7. Closing'
  <2>1. ASSUME shut' \in {"settle", "done"}, child' = "live", ~Leaked' PROVE reaper' # "none"
    <3>1. child = "live" /\ ~Leaked /\ handle.exit = "no" /\ ~Exited
      BY <1>1, <1>3, <2>1 DEF Leaked, Wire, Heard, Ended, Exited
    <3>2. CASE ShutdownBegins
      BY <2>1, <3>1, <3>2 DEF ShutdownBegins, Signal, Wire, Closing
    <3>3. CASE GraceEnds
      BY <2>1, <3>1, <3>3 DEF GraceEnds, KillAll
    <3>4. CASE HandedOver
      BY <1>3, <3>4 DEF HandedOver
    <3>5. CASE HandoverFails \/ StillThere
      BY <2>1, <3>1, <3>5 DEF HandoverFails, StillThere, Signal
    <3>6. CASE Settle
      BY <1>3, <3>1, <3>6 DEF Settle, Wire, Closing
    <3>7. QED
      BY <3>2, <3>3, <3>4, <3>5, <3>6 DEF Shutdown
  <2>2. ASSUME shut' \in {"handoff", "grace"} PROVE reaper' # "none"
    BY <1>3, <2>2 DEF Shutdown, ShutdownBegins, GraceEnds, HandedOver, HandoverFails, StillThere,
       Settle, Signal, AfterSignal, Wire, Closing
  <2>3. handle'.onTurn \/ reaper' # "none" => releasable'
    BY <1>1, <1>2, <1>3 DEF Wire, Closing
  <2>4. QED
    BY <1>1, <1>3, <2>1, <2>2, <2>3 DEF Closing, Ending
<1>8. QED
  BY <1>4, <1>5, <1>6, <1>7 DEF Wire

LEMMA WireStep ==
  ASSUME Wire, Files, AdapterTypeOK, AdapterTypeOK', [Next]_vars
  PROVE  Wire'
<1>1. CASE Still
  BY <1>1, StillWire
<1>2. CASE SpawnAdapter \/ PersistAdapter
  BY <1>2, SpawnWire
<1>3. CASE Blow
  <2>1. UNCHANGED <<kind, releasable, written, collect, reaper, mode>>
        /\ (child' = child \/ (child = "live" /\ child' = "signal"))
    BY <1>3, BlowFacts
  <2>2. ASSUME NEW how \in {"exited", "killed"}, Up, Gone(how) PROVE Wire'
    BY <2>1, <2>2, GoneWire
  <2>3. ASSUME UNCHANGED <<host, memory>> PROVE Wire'
    BY <2>1, <2>3, StruckWire DEF memory, Ended
  <2>4. ASSUME host \in {"collect", "shutdown"}, shut = "idle" \/ host = "shutdown",
               host' = "shutdown" \/ (host = "shutdown" /\ shut = "done" /\ host' = "sentinel"),
               UNCHANGED memory, child' = child
        PROVE  Wire'
    <3>1. Bounded'
      BY <2>1, <2>4 DEF Wire, Bounded, memory, Looping, Early, Ending
    <3>2. Heard' /\ Parsed'
      BY <2>1, <2>4 DEF Wire, Heard, Parsed, memory
    <3>3. Settled'
      BY <2>1, <2>4 DEF Wire, Settled, memory, Looping, Text
    <3>4. Closing'
      BY <2>1, <2>4 DEF Wire, Closing, memory, Leaked, Ending
    <3>5. QED
      BY <3>1, <3>2, <3>3, <3>4 DEF Wire
  <2>5. CASE Drained
    <3>1. host = "shutdown" /\ shut = "done" /\ UNCHANGED outer
      BY <2>5 DEF Drained
    <3>2. CASE Gone("exited")
      BY <2>2, <3>1, <3>2 DEF Up
    <3>3. CASE host' = "sentinel" /\ UNCHANGED memory
      BY <2>4, <3>1, <3>3 DEF outer, os
    <3>4. QED
      BY <2>5, <3>2, <3>3 DEF Drained
  <2>6. CASE FlipMetadata
    <3>1. host = "verdict" /\ UNCHANGED outer
      BY <2>6 DEF FlipMetadata
    <3>2. CASE host' = "md" /\ UNCHANGED memory
      <4>1. Bounded'
        BY <2>1, <3>1, <3>2 DEF Wire, Bounded, memory, outer, os, Looping, Early, Ending
      <4>2. Heard' /\ Parsed'
        BY <2>1, <3>1, <3>2 DEF Wire, Heard, Parsed, memory, outer, os
      <4>3. Settled' /\ Closing'
        BY <2>1, <3>1, <3>2 DEF Wire, Settled, Closing, memory, outer, os, Looping, Leaked, Ending
      <4>4. QED
        BY <4>1, <4>2, <4>3 DEF Wire
    <3>3. CASE Gone("exited")
      BY <2>2, <3>1, <3>3 DEF Up
    <3>4. QED
      BY <2>6, <3>2, <3>3 DEF FlipMetadata
  <2>7. CASE WriteMd
    BY <2>2, <2>7 DEF WriteMd, Up
  <2>8. CASE HostKilled
    BY <2>2, <2>8 DEF HostKilled
  <2>9. ASSUME NEW r \in Readers, SendSigterm(r) PROVE Wire'
    <3>1. \/ Up /\ Gone("killed")
          \/ UNCHANGED <<host, memory>>
          \/ host = "collect" /\ host' = "shutdown" /\ UNCHANGED <<memory, child>>
      BY <2>9 DEF SendSigterm, Cancelled
    <3>2. CASE host = "collect" /\ host' = "shutdown" /\ UNCHANGED <<memory, child>>
      <4>1. shut = "idle"
        BY <3>2 DEF Wire, Closing, Ending
      <4>2. QED
        BY <2>4, <3>2, <4>1
    <3>3. QED
      BY <2>2, <2>3, <3>1, <3>2
  <2>10. ASSUME NEW r \in Readers, PollVictim(r) PROVE Wire'
    <3>1. (Up /\ Gone("killed")) \/ UNCHANGED <<host, memory>>
      BY <2>10 DEF PollVictim
    <3>2. QED
      BY <2>2, <2>3, <3>1
  <2>11. QED
    BY <1>3, <2>5, <2>6, <2>7, <2>8, <2>9, <2>10 DEF Blow
<1>4. CASE Events
  <2>1. CASE HearData
    BY <1>4, <2>1, DataWire DEF Events, HearData, os
  <2>2. CASE Exit /\ HearEnd
    BY <1>4, <2>2, ExitWire DEF Events, HearEnd
  <2>3. CASE Reap /\ UNCHANGED <<collect, shut>> /\ HearEnd
    BY <1>4, <2>3, ReapWire DEF Events, HearEnd
  <2>4. CASE Close /\ UNCHANGED <<group, shut>> /\ HearEnd
    BY <1>4, <2>4, CloseWire DEF Events, HearEnd
  <2>5. CASE CollectTimeout /\ TimerFires
    BY <1>4, <2>5, TimeoutWire DEF Events, TimerFires
  <2>6. CASE LateKill /\ UNCHANGED <<handle, collect>> /\ TimerFires
    <3>1. /\ UNCHANGED <<kind, releasable, written, handle, collect, shut, reaper, host, mode>>
          /\ child = "live" /\ child' = "signal"
      BY <1>4, <2>6 DEF Events, TimerFires, LateKill, KillAll
    <3>2. QED
      BY <3>1, StruckWire DEF Ended
  <2>7. QED
    BY <1>4, <2>1, <2>2, <2>3, <2>4, <2>5, <2>6 DEF Events, HearEnd, TimerFires
<1>5. CASE Shutdown
  BY <1>5, ShutdownWire
<1>6. CASE Process
  <2>1. mode' = mode
    BY <1>6 DEF Process, Outside
  <2>2. CASE Write
    BY <2>1, <2>2, WriteWire
  <2>3. CASE Fork \/ End \/ StragglerEnds
    <3>1. /\ UNCHANGED <<kind, releasable, written, handle, collect, shut, host, reaper>>
          /\ child' = child \/ (child = "live" /\ child' \in Ended /\ (child' = "zero" => written = Chunks))
      BY <2>3 DEF Fork, End, StragglerEnds, Ended
    <3>2. QED
      BY <2>1, <3>1, StruckWire
  <2>4. QED
    BY <1>6, <2>2, <2>3 DEF Process
<1>7. CASE ChildKilled
  <2>1. /\ UNCHANGED <<kind, releasable, written, handle, collect, shut, reaper, host, mode>>
        /\ child = "live" /\ child' = "signal"
    BY <1>7 DEF ChildKilled
  <2>2. QED
    BY <2>1, StruckWire DEF Ended
<1>8. CASE Reaper
  <2>1. /\ UNCHANGED <<kind, releasable, written, handle, collect, shut, host, mode>>
        /\ child' = child \/ (child = "live" /\ child' = "signal")
        /\ reaper # "none" /\ reaper' # "none"
    BY <1>8 DEF Reaper, ReaperLooks, ReaperActs, KillAll, Outside, os
  <2>2. QED
    BY <2>1, StruckWire DEF Ended
<1>9. CASE UNCHANGED vars
  <2>1. UNCHANGED <<kind, releasable, written, handle, collect, shut, reaper, host, child, mode>>
    BY <1>9 DEF vars, child_vars, outer, memory, os
  <2>2. QED
    BY <2>1, StruckWire
<1>10. QED
  BY <1>1, <1>2, <1>3, <1>4, <1>5, <1>6, <1>7, <1>8, <1>9, Steps

(* What the host leaves behind, when it goes and afterwards.               *)
LEMMA ApartChild ==
  ASSUME Apart
  PROVE  /\ child' = "live" => child = "live"
         /\ Leaked => Leaked'
         /\ reaper # "none" => reaper' # "none"
<1>1. CASE Events
  <2>1. CASE HearData
    BY <2>1 DEF HearData, Data, os, Leaked
  <2>2. CASE HearEnd
    BY <2>2 DEF HearEnd, Exit, Reap, Close, Leaked
  <2>3. CASE TimerFires
    BY <2>3 DEF TimerFires, CollectTimeout, LateKill, KillAll, Termed, Leaked
  <2>4. QED
    BY <1>1, <2>1, <2>2, <2>3 DEF Events
<1>2. CASE Shutdown
  BY <1>2 DEF Shutdown, ShutdownBegins, GraceEnds, HandedOver, HandoverFails, StillThere, Settle,
     Signal, Termed, KillAll, Leaked
<1>3. CASE Process
  BY <1>3 DEF Process, Write, Fork, End, StragglerEnds, Leaked
<1>4. CASE ChildKilled
  BY <1>4 DEF ChildKilled, Leaked
<1>5. CASE Reaper
  BY <1>5 DEF Reaper, ReaperLooks, ReaperActs, KillAll, Leaked, os
<1>6. QED
  BY <1>1, <1>2, <1>3, <1>4, <1>5 DEF Apart

LEMMA LeftStep ==
  ASSUME IInv, [Next]_vars
  PROVE  Left'
<1>1. ASSUME host' = host \/ host' # "exited", meta'.status = meta.status,
             child' = "live" => child = "live", Leaked => Leaked',
             reaper # "none" => reaper' # "none"
      PROVE  Left'
  BY <1>1 DEF IInv, Left
<1>2. CASE Apart
  BY <1>1, <1>2, ApartChild, ApartFacts, TypeParts DEF IInv
<1>3. CASE Still
  <2>1. UNCHANGED <<child, reaper, kind, collect>>
    BY <1>3, StillFacts DEF child_vars, outer, os
  <2>2. CASE host \in Early
    BY <2>1, <2>2 DEF IInv, Wire, Bounded, Left
  <2>3. CASE host \notin Early
    <3>1. host' = host \/ host' # "exited"
      BY <1>3, <2>3 DEF Still, WritePrompt, SpawnRunner, RecordJob, LauncherDies, ReadMetadata,
         ReadPrompt, SpawnFails, Finish, WriteSentinel, Ask, ProbeRunner, ProbeAdapter, ScanLog,
         PrintAnswer, System, Early
    <3>2. meta'.status = meta.status \/ meta'.status \notin Reasons
      BY <1>3, TypeParts DEF Still, WritePrompt, SpawnRunner, RecordJob, LauncherDies, ReadMetadata,
         ReadPrompt, SpawnFails, Finish, WriteSentinel, Ask, ProbeRunner, ProbeAdapter, ScanLog,
         PrintAnswer, files, IInv, FilesTypeOK, Reasons
    <3>3. QED
      BY <2>1, <3>1, <3>2 DEF IInv, Left, Leaked
  <2>4. QED
    BY <2>2, <2>3
<1>4. CASE SpawnAdapter \/ PersistAdapter
  <2>1. /\ host' # "exited" /\ meta'.status = meta.status
        /\ host \in {"spawn", "persist"}
    <3>1. CASE SpawnAdapter
      BY <3>1 DEF SpawnAdapter, files
    <3>2. CASE PersistAdapter
      BY <3>2, TypeParts DEF PersistAdapter, os, IInv, FilesTypeOK
    <3>3. QED
      BY <1>4, <3>1, <3>2
  <2>2. meta.status \notin Reasons
    BY <2>1 DEF IInv, Files, Course
  <2>3. QED
    BY <2>1, <2>2 DEF Left
<1>5. CASE Blow
  <2>1. UNCHANGED <<kind, collect, reaper>> /\ (child' = "live" => child = "live")
    BY <1>5, BlowFacts
  <2>2. ASSUME host = "verdict" \/ host = "md" PROVE child = "live" => Leaked
    BY <2>2 DEF IInv, Wire, Bounded, Closing, Ending, Files, Launching
  <2>3. CASE FlipMetadata \/ WriteMd
    <3>1. host = "verdict" \/ host = "md"
      BY <2>3 DEF FlipMetadata, WriteMd
    <3>2. QED
      BY <2>1, <2>2, <3>1 DEF Left, Leaked
  <2>4. CASE Drained
    <3>1. shut = "done" /\ UNCHANGED meta
      BY <2>4 DEF Drained, files
    <3>2. QED
      BY <2>1, <3>1 DEF IInv, Wire, Closing, Left, Leaked
  <2>5. CASE HostKilled
    BY <1>1, <2>1, <2>5 DEF HostKilled, Gone, files, Leaked
  <2>6. ASSUME NEW r \in Readers, SendSigterm(r) PROVE Left'
    <3>1. UNCHANGED files /\ (host' = host \/ host' # "exited")
      BY <2>6 DEF SendSigterm, Cancelled, Gone
    <3>2. QED
      BY <1>1, <2>1, <3>1 DEF files, Leaked
  <2>7. ASSUME NEW r \in Readers, PollVictim(r) PROVE Left'
    <3>1. UNCHANGED files /\ (host' = host \/ host' # "exited")
      BY <2>7 DEF PollVictim, Gone
    <3>2. QED
      BY <1>1, <2>1, <3>1 DEF files, Leaked
  <2>8. QED
    BY <1>5, <2>3, <2>4, <2>5, <2>6, <2>7 DEF Blow
<1>6. CASE UNCHANGED vars
  BY <1>1, <1>6 DEF vars, child_vars, outer, os, files, Leaked
<1>7. QED
  BY <1>2, <1>3, <1>4, <1>5, <1>6, Steps DEF Apart

----------------------------------------------------------------------------
(* The invariant holds initially, every step keeps it, and what the run    *)
(* checks follows from it.                                                 *)

LEMMA InitIInv == Init => IInv
<1> SUFFICES ASSUME Init PROVE IInv
  OBVIOUS
<1>1. AdapterTypeOK
  <2>1. kind \in Kinds /\ releasable \in BOOLEAN
    BY DEF Init, AdapterInit
  <2>2. written \in 0 .. Chunks /\ handle.read <= written /\ ends \in [1 .. Chunks -> Tails]
    BY NewHandleFacts DEF Init, AdapterInit, Chunks, Tails
  <2>3. QED
    BY <2>1, <2>2, NewHandleType DEF Init, AdapterInit, AdapterTypeOK
<1>2. FilesTypeOK
  BY DEF Init, FilesTypeOK, Places, Statuses, Tails
<1>3. ReadersTypeOK
  BY NobodySits, BoundsAssumption DEF Init, ReadersTypeOK
<1>4. Files
  BY NobodySits DEF Init, Files, Launching, Course, Reading, Told, Reasons
<1>5. Wire
  <2>1. /\ handle = NewHandle /\ shut = "idle" /\ child = "none" /\ collect = "idle"
        /\ reaper = "none" /\ host \in {"spawn", "unborn"} /\ written = 0
        /\ releasable => kind = "codex" /\ mode = "sync"
    BY DEF Init, AdapterInit
  <2>2. Bounded /\ Settled
    BY <2>1 DEF Bounded, Settled, Looping, Early, Ending
  <2>3. Heard /\ Parsed
    BY <2>1, NewHandleFacts DEF Heard, Parsed, Chunks
  <2>4. Closing
    BY <2>1, NewHandleFacts DEF Closing, Ending
  <2>5. QED
    BY <2>2, <2>3, <2>4 DEF Wire
<1>6. Left
  BY DEF Init, AdapterInit, Left
<1>7. QED
  BY <1>1, <1>2, <1>3, <1>4, <1>5, <1>6, TypeParts DEF IInv

LEMMA StepIInv == IInv /\ [Next]_vars => IInv'
<1> SUFFICES ASSUME IInv, [Next]_vars PROVE IInv'
  OBVIOUS
<1>1. AdapterTypeOK /\ FilesTypeOK /\ ReadersTypeOK
  BY TypeParts DEF IInv
<1>2. AdapterTypeOK'
  BY <1>1, AdapterTypeStep DEF IInv, Wire
<1>3. FilesTypeOK' /\ ReadersTypeOK'
  BY <1>1, FilesTypeStep, ReadersTypeStep DEF IInv, Files
<1>4. Files'
  BY <1>1, FilesStep DEF IInv
<1>5. Wire'
  BY <1>1, <1>2, WireStep DEF IInv
<1>6. Left'
  BY LeftStep
<1>7. TypeOK'
  BY <1>2, <1>3, TypeParts DEF TypeOK, FilesTypeOK, ReadersTypeOK
<1>8. QED
  BY <1>4, <1>5, <1>6, <1>7 DEF IInv

(* The inductive invariant of the job, its adapter and its readers.        *)
THEOREM AskInvariant == Spec => []IInv
  BY InitIInv, StepIInv, PTL DEF Spec

(* Every variable keeps its type.                                          *)
THEOREM AskTypeCorrect == Spec => []TypeOK
<1>1. IInv => TypeOK
  BY DEF IInv
<1>2. QED
  BY <1>1, AskInvariant, PTL

(* A verdict that was told is the one the files hold from then on.         *)
THEOREM AskOneVerdict == Spec => []OneVerdict
<1>1. IInv => OneVerdict
  <2>1. SUFFICES ASSUME IInv, NEW v \in reported \cap Reasons
                 PROVE  meta.status \in {"running", v} /\ log.done = v
    BY DEF OneVerdict
  <2>2. log.done = v /\ meta.status # "none"
    BY <2>1 DEF IInv, Files, Told
  <2>3. meta.status \in Reasons \cup {"running"}
    BY <2>1, <2>2, TypeParts DEF IInv, FilesTypeOK, Statuses
  <2>4. QED
    BY <2>1, <2>2, <2>3 DEF IInv, Files, Course
<1>2. QED
  BY <1>1, AskInvariant, PTL

(* A crash or a lost answer is reported only when there was one.           *)
THEOREM AskFailureIsTrue == Spec => []FailureIsTrue
<1>1. IInv => FailureIsTrue
  BY DEF IInv, Files, Told, Course, FailureIsTrue, Reasons
<1>2. QED
  BY <1>1, AskInvariant, PTL

(* An answer that arrived is kept, and what counts as one has its text.    *)
THEOREM AskAnswerSurvives == Spec => []AnswerSurvives
<1>1. IInv => AnswerSurvives
  BY DEF IInv, Wire, Settled, AnswerSurvives
<1>2. QED
  BY <1>1, AskInvariant, PTL

(* An adapter that outlives its host has a reaper, or cancel finds it, but *)
(* for gemini after a timeout, for a runner killed before the metadata has *)
(* the pid, and for a foreground process killed.                           *)
THEOREM AskAdapterReachable == Spec => []AdapterReachable
<1>1. IInv => AdapterReachable
  <2>1. SUFFICES ASSUME IInv, child = "live", ~Leaked, ~Unnamed, ~Abandoned
                 PROVE  /\ host = "exited" => reaper # "none"
                        /\ host = "killed" => meta.adapter /\ meta.status = "running"
    BY DEF AdapterReachable
  <2>2. host = "exited" => reaper # "none"
    BY <2>1 DEF IInv, Left
  <2>3. meta.adapter => meta.status # "none"
    BY <2>1 DEF IInv, Files, Launching
  <2>4. meta.status \in Statuses /\ mode \in {"sync", "async"}
    BY <2>1, TypeParts DEF IInv, FilesTypeOK
  <2>5. host = "killed" => meta.adapter
    BY <2>1, <2>4 DEF Unnamed, Abandoned
  <2>6. QED
    BY <2>1, <2>2, <2>3, <2>4, <2>5 DEF IInv, Left, Statuses
<1>2. QED
  BY <1>1, AskInvariant, PTL
=============================================================================
