---------------------------- MODULE ExecAdapter ----------------------------
(***************************************************************************)
(* One codex exec or gemini process, its process group, the handle its     *)
(* host process keeps of it (codex-exec.mjs, gemini-exec.mjs) and the      *)
(* detached reaper of a released one (codex-release-reaper.mjs).           *)
(*                                                                         *)
(* The child's output is two chunks: the text and the end of the turn of   *)
(* codex, the two halves of the one JSON object of gemini.  The events of  *)
(* a child reach the host in any order Node allows: data after exit, close *)
(* after both.  host is the program counter of the process that holds the  *)
(* handle; the module that extends this one moves it.                      *)
(***************************************************************************)
EXTENDS Naturals

VARIABLES kind,        \* the adapter: "codex" or "gemini"
          releasable,  \* spawned with releaseOnTurnCompleted
          host,        \* where the host process is
          child,       \* the process: none, live, or how it ended
          group,       \* a descendant lives in its group and holds stdout
          written,     \* chunks the child has written
          ends,        \* whether a chunk ends on a line break
          handle,      \* what the host knows of the child
          collect,     \* collect(): idle, waiting, or how it settled
          shut,        \* shutdown(): where it is
          reaper       \* the release reaper

os    == <<child, group, written, ends>>
memory == <<handle, shut>>
outer  == <<kind, releasable, os, collect, reaper>>
child_vars == <<outer, memory>>

Chunks  == 2
Kinds   == {"codex", "gemini"}
Ended   == {"zero", "error", "signal"}
Tails   == {"clean", "torn"}

NewHandle ==
  [read   |-> 0,          \* chunks delivered as data events
   upto   |-> 0,          \* chunks the parser has consumed
   turn   |-> FALSE,      \* turn.completed, or a gemini.result without error
   status |-> "running",
   exit   |-> "no",       \* _exitCode once the exit event came
   closed |-> FALSE,
   killed |-> FALSE,      \* process.killed: a signal of ours was sent
   cut    |-> FALSE,      \* history: exit came before the last data
   onTurn |-> FALSE,      \* _settledOnTurn
   reap   |-> "none"]     \* the reap on exit: armed, due or over

AdapterInit ==
  /\ kind \in Kinds
  /\ releasable \in (IF kind = "codex" THEN BOOLEAN ELSE {FALSE})
  /\ child = "none" /\ group = FALSE
  /\ written = 0 /\ ends = [n \in 1 .. Chunks |-> "clean"]
  /\ handle = NewHandle
  /\ collect = "idle" /\ shut = "idle" /\ reaper = "none"

(* The event loop of the host runs where its code awaits.                  *)
Looping == host \in {"collect", "shutdown"}
Up      == host \notin {"unborn", "exited", "killed"}

(* With the host goes what it knew; collect stays, as the properties ask.  *)
Gone(how) == host' = how /\ handle' = NewHandle /\ shut' = "idle"

(* A process that ended keeps its pid until its parent has waited for it.  *)
Present == child = "live" \/ (child \in Ended /\ Up /\ handle.exit = "no")

Text   == IF kind = "codex" THEN handle.upto >= 1 ELSE handle.turn
Exited == handle.exit \in {"zero", "error"}      \* handle._exitCode !== null

(* What SIGTERM and SIGKILL make of the child.                             *)
Termed  == IF child = "live" THEN {"live", "signal"} ELSE {child}
KillAll == child' = (IF child = "live" THEN "signal" ELSE child) /\ group' = FALSE

----------------------------------------------------------------------------
(* The child and its group.                                                *)

(* What is written to a pipe nobody reads any more is of no account.        *)
Write ==
  /\ child = "live" /\ written < Chunks /\ Up
  /\ written' = written + 1
  /\ \E t \in Tails : ends' = [ends EXCEPT ![written + 1] = t]
  /\ UNCHANGED <<kind, releasable, host, child, group, handle, collect, shut, reaper>>

(* A tool call of codex: bash -c with the stdout it inherits.              *)
Fork ==
  /\ kind = "codex" /\ child = "live" /\ ~group
  /\ group' = TRUE
  /\ UNCHANGED <<kind, releasable, host, child, written, ends, handle, collect, shut, reaper>>

(* The code is zero only when all of the output was written.               *)
End ==
  /\ child = "live"
  /\ child' \in {"error"} \cup (IF written = Chunks THEN {"zero"} ELSE {})
  /\ UNCHANGED <<kind, releasable, host, group, written, ends, handle, collect, shut, reaper>>

StragglerEnds ==
  /\ group /\ group' = FALSE
  /\ UNCHANGED <<kind, releasable, host, child, written, ends, handle, collect, shut, reaper>>

----------------------------------------------------------------------------
(* The parsers.                                                            *)

(* Codex: events are taken line by line, an unfinished one is kept.        *)
ParseLines(x) ==
  LET n == IF ends[x.read] = "clean" THEN x.read ELSE x.read - 1 IN
  [x EXCEPT !.upto   = n,
            !.turn   = n = Chunks,
            !.status = IF n = Chunks THEN "completed" ELSE x.status]

(* flushPartial: a last event without line break counts when it is whole.  *)
FlushLine(x) ==
  IF x.read = Chunks
  THEN [x EXCEPT !.upto = Chunks, !.turn = TRUE, !.status = "completed"]
  ELSE x

(* Gemini, _flushOutput: what came since the last flush is one object, or  *)
(* it is malformed; the buffer is emptied either way.                      *)
FlushOutput(x) ==
  IF x.upto = x.read THEN x
  ELSE IF x.upto = 0 /\ x.read = Chunks
       THEN [x EXCEPT !.upto = x.read, !.turn = TRUE,
                      !.status = IF x.status = "running" THEN "completed" ELSE x.status]
       ELSE [x EXCEPT !.upto = x.read, !.status = "failed"]

(* monitor(): the end of the turn wins over a failed status, and callers   *)
(* take every result without error as an answer.                           *)
Monitored(x) == IF x.status = "failed" /\ ~x.turn THEN "error" ELSE "ok"

----------------------------------------------------------------------------
(* Events of the child in the host.                                        *)

(* collect() of a releasable handle settles here, if the start identity of *)
(* the process can be read, and arms the reap.                             *)
Data ==
  /\ Looping /\ handle.read < written
  /\ LET d == [handle EXCEPT !.read = @ + 1]
         x == IF kind = "codex" THEN ParseLines(d) ELSE d
     IN  \/ /\ handle' = x /\ UNCHANGED collect
         \/ /\ collect = "waiting" /\ releasable /\ x.turn /\ x.exit = "no"
            /\ handle' = [x EXCEPT !.onTurn = TRUE, !.reap = "armed"]
            /\ collect' = "ok"

CodeOf == CASE child = "zero" -> "zero" [] child = "error" -> "error" [] OTHER -> "null"

(* The handlers of spawn, of collect (onExit), of armTurnExitReap and of   *)
(* shutdown.                                                               *)
Exit_EarlySettle ==   \* Bug: collect() resolves on exit, as before issue #64
  /\ Looping /\ child \in Ended /\ handle.exit = "no"
  /\ LET x == IF kind = "gemini" THEN FlushOutput(handle) ELSE handle IN
     /\ handle' = [x EXCEPT !.exit = CodeOf,
                            !.status = IF @ = "running" /\ child # "zero" THEN "failed" ELSE @]
     /\ collect' = IF collect = "waiting" THEN Monitored(handle') ELSE collect
  /\ shut' = shut
Exit ==
  /\ Looping /\ child \in Ended /\ handle.exit = "no"
  /\ LET x == IF kind = "gemini" THEN FlushOutput(handle) ELSE handle IN
     handle' = [x EXCEPT
                 !.exit   = CodeOf,
                 !.status = IF @ = "running" /\ child # "zero" THEN "failed" ELSE @,
                 !.cut    = kind = "gemini" /\ x.upto > 0 /\ x.read < written,
                 !.reap   = IF @ = "armed" \/ (kind = "codex" /\ collect = "waiting")
                            THEN "due" ELSE @]
  /\ shut' = CASE shut = "term" /\ ~handle.onTurn -> "done"
               [] shut \in {"term", "grace"} /\ handle.onTurn -> "settle"
               [] OTHER -> shut
  /\ UNCHANGED collect

(* reapDescendants, one turn of the event loop after the exit.             *)
Reap ==
  /\ Looping /\ handle.reap = "due"
  /\ handle' = [handle EXCEPT !.reap = "over"]
  /\ group' = (group /\ collect # "waiting" /\ ~handle.onTurn)

Close ==
  /\ Looping /\ handle.exit # "no" /\ ~handle.closed
  /\ handle.read = written /\ ~group
  /\ LET x == CASE kind = "gemini" -> FlushOutput(handle)
                [] kind = "codex" /\ collect = "waiting" -> FlushLine(handle)
                [] OTHER -> handle
     IN  /\ handle' = [x EXCEPT !.closed = TRUE,
                                !.reap = IF collect = "waiting" THEN "over" ELSE @]
         /\ collect' = IF collect = "waiting" THEN Monitored(x) ELSE collect

(* The timer of collect().  Gemini also starts a shutdown of its own: it   *)
(* sends SIGTERM and leaves the rest to a timer of the host.               *)
CollectTimeout_CloseOnly ==   \* Bug: nothing but close settles collect()
  FALSE /\ UNCHANGED <<handle, collect, child>>
CollectTimeout ==
  /\ Looping /\ collect = "waiting"
  /\ collect' = "timeout"
  /\ handle' = [handle EXCEPT
                 !.status = "failed",
                 !.reap   = IF @ = "due" THEN "over" ELSE @,
                 !.killed = @ \/ (kind = "gemini" /\ handle.exit = "no")]
  /\ child' \in (IF kind = "gemini" /\ handle.exit = "no" /\ ~handle.killed
                 THEN Termed ELSE {child})

LateKill ==
  /\ Looping /\ kind = "gemini" /\ collect = "timeout" /\ handle.exit = "no"
  /\ child = "live"
  /\ KillAll

----------------------------------------------------------------------------
(* shutdown() and releaseOrAwaitExit().                                    *)

(* signalShutdown: SIGTERM to the group (codex), whose descendants obey it, *)
(* or to the child (gemini, which has none here).                          *)
Signal ==
  /\ child' \in Termed
  /\ group' = FALSE
  /\ handle' = [handle EXCEPT !.killed = @ \/ handle.exit = "no"]
  /\ shut' = "term"

ShutdownBegins ==
  /\ shut = "idle"
  /\ \/ /\ handle.killed \/ (~handle.onTurn /\ Exited)
        /\ shut' = "done" /\ UNCHANGED <<child, group, handle, reaper>>
     \/ /\ ~handle.killed /\ handle.onTurn
        /\ IF handle.exit # "no"
           THEN shut' = "settle" /\ UNCHANGED reaper
           ELSE shut' = "handoff" /\ reaper' = "starting"
        /\ UNCHANGED <<child, group, handle>>
     \/ /\ ~handle.killed /\ ~handle.onTurn /\ ~Exited
        /\ Signal /\ UNCHANGED reaper

AfterSignal == IF handle.onTurn THEN "settle" ELSE "done"

(* The grace period of signalShutdown is over: SIGKILL to the group.       *)
GraceEnds_Trusting ==   \* Bug: the process is taken to be gone by now
  shut = "term" /\ shut' = AfterSignal /\ UNCHANGED <<child, group>>
GraceEnds == shut = "term" /\ shut' = AfterSignal /\ KillAll

(* The reaper has seen the process, or nothing was heard of it in time.    *)
HandedOver ==
  /\ shut = "handoff" /\ reaper = "watching"
  /\ IF handle.exit # "no"
     THEN shut' = "settle" /\ UNCHANGED handle
     ELSE shut' = "done" /\ handle' = [handle EXCEPT !.reap = "over"]
  /\ UNCHANGED <<child, group>>

HandoverFails ==
  /\ shut = "handoff"
  /\ shut' = IF handle.exit # "no" THEN "settle" ELSE "grace"
  /\ UNCHANGED <<child, group, handle>>

StillThere == shut = "grace" /\ Signal

(* reap.settle(): a reap that is due runs before shutdown() returns.       *)
Settle ==
  /\ shut = "settle"
  /\ handle.exit # "no" => handle.reap # "due"
  /\ shut' = "done"
  /\ handle' = [handle EXCEPT !.reap = "over"]
  /\ UNCHANGED <<child, group>>

----------------------------------------------------------------------------
(* codex-release-reaper.mjs, a detached process.                           *)

ReaperLooks ==
  /\ reaper = "starting"
  /\ reaper' \in {"gone"} \cup (IF Present THEN {"watching"} ELSE {})
  /\ UNCHANGED <<kind, releasable, host, os, handle, collect, shut>>

(* The process is gone or the deadline has passed: SIGTERM, then SIGKILL.  *)
ReaperActs ==
  /\ reaper = "watching"
  /\ reaper' = "gone" /\ KillAll
  /\ UNCHANGED <<kind, releasable, host, written, ends, handle, collect, shut>>
----------------------------------------------------------------------------
Handles ==
  [read : 0 .. Chunks, upto : 0 .. Chunks, turn : BOOLEAN,
   status : {"running", "completed", "failed"},
   exit : {"no", "zero", "error", "null"}, closed : BOOLEAN,
   killed : BOOLEAN, cut : BOOLEAN, onTurn : BOOLEAN,
   reap : {"none", "armed", "due", "over"}]

AdapterTypeOK ==
  /\ kind \in Kinds /\ releasable \in BOOLEAN
  /\ child \in {"none", "live"} \cup Ended /\ group \in BOOLEAN
  /\ written \in 0 .. Chunks /\ ends \in [1 .. Chunks -> Tails]
  /\ handle \in Handles /\ handle.read <= written
  /\ collect \in {"idle", "waiting", "ok", "error", "timeout"}
  /\ shut \in {"idle", "term", "handoff", "grace", "settle", "done"}
  /\ reaper \in {"none", "starting", "watching", "gone"}
============================================================================
