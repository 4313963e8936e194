--------------------------- MODULE SessionAdapter ---------------------------
(***************************************************************************)
(* A worker that keeps one server for many turns: codex app-server         *)
(* (codex-appserver.mjs) or gemini --acp (gemini-acp.mjs), as the detached *)
(* supervisor drives it (adapter-worker-supervisor.mjs).  The two speak    *)
(* JSON-RPC over the pipes of the server: a reply settles the request with *)
(* its id, a notification changes the handle at once, and every request,   *)
(* and the wait for the end of a turn, has a timer.                        *)
(*                                                                         *)
(* Node takes what is in the pipe in chunks.  All messages of a chunk are  *)
(* worked off before the code behind an await goes on; between two chunks  *)
(* it does go on before anything else happens (Quiet).  The server is      *)
(* external: it takes its requests in their order, works on one turn at a  *)
(* time, and may fall silent or die at any moment.                         *)
(***************************************************************************)
EXTENDS Naturals, Sequences

CONSTANTS MaxTurns,  \* bound: assignments of the worker
          Plans      \* bounds: the kind of session, and how many steer and
                     \* interrupt commands come, timers fire although the
                     \* server would have answered, and servers die or hang

ASSUME PlansAssumption ==
  /\ MaxTurns \in Nat
  /\ Plans \subseteq [kind : {"codex", "gemini", "acp"},
                     calls : Nat, late : Nat, losses : Nat]

VARIABLES plan,     \* which of the plans this is
          server,   \* its state, and the turns it has accepted
          stdin,    \* requests on their way to it
          stdout,   \* what it has written
          chunk,    \* messages left in the chunk that is worked off
          handle,   \* what the supervisor knows of it
          pending,  \* the requests whose reply is awaited
          task,     \* the assignment: which one, and where it is
          call,     \* the steer or interrupt command that is being executed
          result,   \* of each assignment
          ended,    \* history: turns whose end the server has written
          seen,     \* history: turns whose end the handle was told
          overdue,  \* history: turns whose start or end a timer gave up
          joined,   \* history: turns whose end came in one chunk with the
                    \* reply that accepted them
          mishaps   \* bounds
pipes       == <<stdin, stdout>>
host        == <<handle, pending, task, call, result>>
history     == <<ended, seen, overdue, joined>>
sessionVars == <<plan, server, pipes, chunk, host, history, mishaps>>

Turns == 1 .. MaxTurns
Codex == plan.kind = "codex"     \* codex app-server
Acp   == plan.kind = "acp"       \* gemini, the protocol of managed workers
(* The third kind, "gemini", is the protocol of the other gemini workers.  *)

NoReply == [ok |-> FALSE, final |-> FALSE, how |-> "none"]
Refusal == [ok |-> FALSE, final |-> TRUE, how |-> "none"]
Accept  == [ok |-> TRUE, final |-> FALSE, how |-> "none"]
NewHandle == [status |-> "starting", session |-> FALSE, turn |-> 0,
              text |-> {}, exit |-> "no"]
NoServer == [at |-> "none", queue |-> <<>>, told |-> FALSE]

SessionInit ==
  /\ plan \in Plans
  /\ server = NoServer /\ stdin = <<>> /\ stdout = <<>> /\ chunk = 0
  /\ handle = NewHandle /\ pending = {}
  /\ task = [at |-> "idle", n |-> 0, got |-> NoReply]
  /\ call = [at |-> "idle", n |-> 0, got |-> NoReply]
  /\ result = [n \in Turns |-> [status |-> "none", text |-> {}]]
  /\ ended = {} /\ seen = {} /\ overdue = {} /\ joined = {}
  /\ mishaps = [calls |-> 0, late |-> 0, losses |-> 0]

Happens(e) ==
  /\ mishaps[e] < plan[e]
  /\ mishaps' = [mishaps EXCEPT ![e] = @ + 1]

Answered(c) == c.got # NoReply
Quiet == chunk = 0 /\ ~Answered(task) /\ ~Answered(call)

-----------------------------------------------------------------------------
(* Requests.  sendRequest refuses at once when the server is known to be   *)
(* gone; an exit by a signal leaves no exit code, so it may not be known.  *)

Reachable(h) == h.status # "failed" /\ h.exit # "code"

(* An assignment n asks for "init", "session", "mode" or "turn", with the  *)
(* handle as it is then.                                                   *)
Ask(n, what, h) ==
  /\ handle' = h
  /\ IF Reachable(h)
     THEN /\ task' = [at |-> what, n |-> n, got |-> NoReply]
          /\ pending' = pending \cup {<<what, n>>}
          /\ stdin' = Append(stdin, [what |-> what, n |-> n])
     ELSE /\ task' = [at |-> what, n |-> n, got |-> Refusal]
          /\ UNCHANGED <<pending, stdin>>

(* The assignment has its result, the status and output of monitor(), and  *)
(* the worker is idle.  The output of a failed one is left out.            *)
Finish(h, status) ==
  /\ handle' = h
  /\ result' = [result EXCEPT ![task.n] =
                  [status |-> status,
                   text |-> IF status = "failed" THEN {} ELSE h.text]]
  /\ task' = [task EXCEPT !.at = "idle", !.got = NoReply]
Report(h) == Finish(h, h.status)

(* Bug: sendPrompt keeps the text of the turn before.                      *)
Cleared_KeepsText(h) == [h EXCEPT !.status = "running"]

(* sendPrompt clears what is left of the turn before, and only then asks.  *)
Cleared(h) == [h EXCEPT !.text = {}, !.status = "running"]

-----------------------------------------------------------------------------
(* The assignment: runCodexAppserver, runGeminiAcp.                        *)

(* A worker with a session uses it again.                                  *)
Reuse ==
  /\ handle.session
  /\ Ask(task.n + 1, "turn", IF Codex THEN handle ELSE Cleared(handle))
  /\ UNCHANGED <<server, stdout>>

(* Else it starts a server; the one before, if any, is replaced.           *)
StartServer ==
  /\ ~handle.session
  /\ server' = [NoServer EXCEPT !.at = "up"] /\ stdout' = <<>>
  /\ handle' = NewHandle
  /\ task' = [at |-> "init", n |-> task.n + 1, got |-> NoReply]
  /\ pending' = {<<"init", task.n + 1>>}
  /\ stdin' = <<[what |-> "init", n |-> task.n + 1]>>

(* The command loop takes the next assignment when none is active and no   *)
(* command is being executed.                                              *)
Begin ==
  /\ Quiet /\ task.at = "idle" /\ task.n < MaxTurns /\ call.at = "idle"
  /\ Reuse \/ StartServer
  /\ UNCHANGED <<plan, chunk, call, result, history, mishaps>>

(* What follows the await of a request.                                    *)
Resumes(what) == chunk = 0 /\ task.at = what /\ Answered(task)
Unmoved == UNCHANGED <<plan, server, stdout, chunk, call, history, mishaps>>

Fails ==
  /\ \E what \in {"init", "session"} : Resumes(what)
  /\ ~task.got.ok
  /\ Finish(handle, "failed")
  /\ UNCHANGED <<stdin, pending>> /\ Unmoved

Initialized ==
  /\ Resumes("init") /\ task.got.ok
  /\ Ask(task.n, "session", [handle EXCEPT !.status = "ready"])
  /\ UNCHANGED result /\ Unmoved

(* createThread, or newSession with the mode that is set next.             *)
Prompt == Ask(task.n, "turn", IF Codex THEN handle ELSE Cleared(handle))
SessionOpen ==
  /\ Resumes("session") /\ task.got.ok
  /\ LET h == [handle EXCEPT !.session = TRUE] IN
     IF Codex THEN Ask(task.n, "turn", h) ELSE Ask(task.n, "mode", h)
  /\ UNCHANGED result /\ Unmoved

(* A managed worker requires its mode, others go on with a warning.        *)
ModeSet ==
  /\ Resumes("mode") /\ (task.got.ok \/ ~Acp)
  /\ Prompt
  /\ UNCHANGED result /\ Unmoved
ModeRefused ==
  /\ Resumes("mode") /\ ~task.got.ok /\ Acp
  /\ Finish(handle, "failed")
  /\ UNCHANGED <<stdin, pending>> /\ Unmoved

(* startTurn, then collectTurnResult.                                      *)
TurnStarted ==
  /\ Resumes("turn") /\ Codex
  /\ IF task.got.ok
     THEN /\ handle' = [handle EXCEPT !.text = {}, !.status = "running",
                                      !.turn = task.n]
          /\ task' = [task EXCEPT !.at = "collect", !.got = NoReply]
          /\ UNCHANGED result
     ELSE Finish(handle, "failed")
  /\ UNCHANGED <<stdin, pending>> /\ Unmoved

(* Bug: collectPromptResult waits without looking at the status first.     *)
PromptAnswered_Waits ==
  /\ Resumes("turn") /\ ~Codex /\ task.got.ok
  /\ IF task.got.final THEN Report([handle EXCEPT !.status = "completed"])
     ELSE /\ task' = [task EXCEPT !.at = "collect", !.got = NoReply]
          /\ UNCHANGED <<handle, result>>
  /\ UNCHANGED <<stdin, pending>> /\ Unmoved

(* The rest of sendPrompt.  A reply without a result leaves the end of the *)
(* turn to its notification, which may have come already.                  *)
PromptAnswered ==
  /\ Resumes("turn") /\ ~Codex /\ task.got.ok
  /\ LET stopped == Acp /\ task.got.how # "completed"
         text == IF task.got.final /\ ~Acp /\ handle.text = {} THEN {task.n}
                 ELSE handle.text
         status == IF ~task.got.final THEN handle.status
                   ELSE IF stopped THEN "failed"
                   ELSE IF handle.status = "running" THEN "completed"
                   ELSE handle.status
         h == [handle EXCEPT !.status = status, !.text = text] IN
     IF status \in {"completed", "failed"} THEN Report(h)
     ELSE /\ task' = [task EXCEPT !.at = "collect", !.got = NoReply]
          /\ handle' = h /\ UNCHANGED result
  /\ UNCHANGED <<stdin, pending>> /\ Unmoved
PromptFailed ==
  /\ Resumes("turn") /\ ~Codex /\ ~task.got.ok
  /\ Report([handle EXCEPT !.status = "failed"])
  /\ UNCHANGED <<stdin, pending>> /\ Unmoved

Task == \/ Begin \/ Fails \/ Initialized \/ SessionOpen \/ ModeSet
        \/ ModeRefused \/ TurnStarted \/ PromptAnswered \/ PromptFailed

-----------------------------------------------------------------------------
(* A steer or interrupt command for the active assignment.  Codex names    *)
(* the turn; gemini cancels what runs, and the protocol of managed workers *)
(* gives no reply to that.                                                 *)

Commands == IF Codex THEN {"steer", "interrupt"} ELSE {"interrupt"}

Accepted == handle.session /\ (Codex => handle.turn # 0) /\ Reachable(handle)
Awaited(id) ==
  IF Acp THEN UNCHANGED <<call, pending>>
  ELSE /\ call' = [at |-> "wait", n |-> id[2], got |-> NoReply]
       /\ pending' = pending \cup {id}

Command ==
  \E what \in Commands :
    /\ Quiet /\ task.at # "idle" /\ call.at = "idle" /\ Accepted
    /\ Happens("calls")
    /\ LET id == <<"call", mishaps'.calls>> IN
       /\ stdin' = Append(stdin, [what |-> what, n |-> handle.turn, id |-> id])
       /\ Awaited(id)
    /\ UNCHANGED <<plan, server, stdout, chunk, handle, task, result, history>>

CommandDone ==
  /\ chunk = 0 /\ Answered(call)
  /\ call' = [call EXCEPT !.at = "idle", !.got = NoReply]
  /\ UNCHANGED <<plan, server, pipes, chunk, handle, pending, task, result,
                 history, mishaps>>

-----------------------------------------------------------------------------
(* The server (external).                                                  *)

Reply(id, what) == <<[m |-> "reply", id |-> id, reply |-> what]>>
Note(m, n, how) == <<[m |-> m, n |-> n, how |-> how]>>
Running == IF server.queue = <<>> THEN 0 ELSE Head(server.queue).n
Writes(out) == stdout' = stdout \o out

(* What the end of turn q looks like: a notification, the reply to a       *)
(* prompt, or both.                                                        *)
End(q, how) ==
  LET note == Note("ended", q.n, how)
      last == Reply(<<"turn", q.n>>,
                    [ok |-> how # "failed", final |-> TRUE, how |-> how]) IN
  IF Codex THEN {note}
  ELSE IF Acp THEN {last}
  ELSE IF q.acked THEN {note}
  ELSE {note \o last} \cup (IF how = "completed" THEN {last} ELSE {})
Ends(how, before) ==
  /\ \E out \in End(Head(server.queue), how) : Writes(before \o out)
  /\ server' = [server EXCEPT !.queue = Tail(@), !.told = FALSE]
  /\ ended' = ended \cup {Running}

Setup(r, id) ==
  /\ r.what \in {"init", "session", "mode"}
  /\ \/ Writes((IF Codex /\ r.what = "session" THEN Note("opened", 0, "none")
                 ELSE <<>>) \o Reply(id, Accept))
     \/ Writes(Reply(id, Refusal))
  /\ UNCHANGED <<server, ended>>
TakeTurn(r, id) ==
  /\ r.what = "turn"
  /\ \/ \E acked \in IF Codex THEN {TRUE} ELSE IF Acp THEN {FALSE} ELSE BOOLEAN :
          /\ server' = [server EXCEPT !.queue = Append(@, [n |-> r.n, acked |-> acked])]
          /\ Writes(IF acked THEN Reply(id, Accept) ELSE <<>>)
     \/ Writes(Reply(id, Refusal)) /\ UNCHANGED server
  /\ UNCHANGED ended
Steer(r) ==
  /\ r.what = "steer"
  /\ Writes(Reply(r.id, IF Running = r.n THEN Accept ELSE Refusal))
  /\ UNCHANGED <<server, ended>>
Interrupt(r) ==
  /\ r.what = "interrupt"
  /\ LET hit == Running # 0 /\ (Codex => Running = r.n)
         answer == IF Acp THEN <<>>
                   ELSE Reply(r.id, IF hit \/ ~Codex THEN Accept ELSE Refusal) IN
     IF hit THEN Ends("interrupted", answer)
     ELSE Writes(answer) /\ UNCHANGED <<server, ended>>

Serve ==
  /\ server.at = "up" /\ stdin # <<>> /\ stdin' = Tail(stdin)
  /\ LET r == Head(stdin) IN
     \/ Setup(r, <<r.what, r.n>>) \/ TakeTurn(r, <<r.what, r.n>>)
     \/ Steer(r) \/ Interrupt(r)
  /\ UNCHANGED <<plan, chunk, host, seen, overdue, joined, mishaps>>

Work ==
  /\ server.at = "up" /\ Running # 0
  /\ \/ /\ ~server.told /\ server' = [server EXCEPT !.told = TRUE]
        /\ Writes((IF Acp THEN <<>> ELSE Note("started", Running, "none"))
                    \o Note("text", Running, "none"))
        /\ UNCHANGED ended
     \/ (server.told \/ (~Codex /\ ~Acp)) /\ Ends("completed", <<>>)
     \/ Ends("failed", <<>>)
  /\ UNCHANGED <<plan, stdin, chunk, host, seen, overdue, joined, mishaps>>

(* It exits, is killed by a signal, or never says anything again.          *)
Lost ==
  /\ server.at = "up" /\ Happens("losses")
  /\ \E how \in {"code", "signal", "hung"} : server' = [server EXCEPT !.at = how]
  /\ UNCHANGED <<plan, pipes, chunk, host, history>>

-----------------------------------------------------------------------------
(* Events of the supervisor: data, exit, timers.                           *)

(* The reply to a request that is still awaited.                           *)
Settle(id, reply) ==
  /\ task' = IF id = <<task.at, task.n>> THEN [task EXCEPT !.got = reply] ELSE task
  /\ call' = IF id = <<"call", call.n>> THEN [call EXCEPT !.got = reply] ELSE call
TakeReply(m) ==
  /\ m.m = "reply"
  /\ IF m.id \in pending
     THEN pending' = pending \ {m.id} /\ Settle(m.id, m.reply)
     ELSE UNCHANGED <<pending, task, call>>
  /\ UNCHANGED <<handle, result, seen, joined>>

(* _processNotification.                                                   *)
TakeNote(m) ==
  /\ m.m \in {"opened", "started", "text"}
  /\ handle' = CASE m.m = "opened"  -> [handle EXCEPT !.session = TRUE]
                 [] m.m = "started" -> [handle EXCEPT !.status = "running",
                                                      !.turn = m.n, !.text = {}]
                 [] m.m = "text"    -> [handle EXCEPT !.text = @ \cup {m.n}]
  /\ UNCHANGED <<pending, task, call, result, seen, joined>>

(* The end of a turn settles whoever waits for one.                        *)
TakeEnd(m) ==
  /\ m.m = "ended"
  /\ LET h == [handle EXCEPT !.status =
                 IF m.how = "failed" THEN "failed" ELSE "completed"] IN
     IF task.at = "collect" THEN Report(h)
     ELSE handle' = h /\ UNCHANGED <<task, result>>
  /\ seen' = seen \cup {m.n}
  /\ joined' = IF Codex /\ task.at = "turn" /\ task.n = m.n /\ Answered(task)
               THEN joined \cup {m.n} ELSE joined
  /\ UNCHANGED <<pending, call>>

Deliver ==
  /\ stdout # <<>> /\ stdout' = Tail(stdout)
  /\ \/ chunk > 0 /\ chunk' = chunk - 1
     \/ Quiet /\ chunk' \in 0 .. Len(stdout) - 1
  /\ LET m == Head(stdout) IN TakeReply(m) \/ TakeNote(m) \/ TakeEnd(m)
  /\ UNCHANGED <<plan, server, stdin, ended, overdue, mishaps>>

(* The exit event settles every request, and the wait for a turn.          *)
Exited ==
  /\ Quiet /\ server.at \in {"code", "signal"} /\ handle.exit = "no"
  /\ LET h == [handle EXCEPT !.exit = server.at,
                 !.status = IF @ = "completed" THEN @ ELSE "failed"] IN
     IF task.at = "collect" THEN Report(h)
     ELSE /\ handle' = h /\ UNCHANGED result
          /\ task' = IF task.at = "idle" THEN task ELSE [task EXCEPT !.got = Refusal]
  /\ call' = IF call.at = "wait" THEN [call EXCEPT !.got = Refusal] ELSE call
  /\ pending' = {}
  /\ UNCHANGED <<plan, server, pipes, chunk, history, mishaps>>

(* A timer fires when nothing more will come, or before it comes.          *)
Silent == server.at # "up" \/ (server.queue = <<>> /\ stdin = <<>> /\ stdout = <<>>)
Timer  == /\ Quiet
          /\ IF Silent THEN UNCHANGED mishaps ELSE Happens("late")
          /\ UNCHANGED <<plan, server, pipes, chunk, ended, seen, joined>>
GiveUp == overdue' = overdue \cup {task.n}

RequestTimeout ==
  /\ Timer /\ task.at \in {"init", "session", "mode", "turn"}
  /\ pending' = pending \ {<<task.at, task.n>>}
  /\ task' = [task EXCEPT !.got = Refusal]
  /\ IF task.at = "turn" THEN GiveUp ELSE UNCHANGED overdue
  /\ UNCHANGED <<handle, call, result>>
CallTimeout ==
  /\ Timer /\ call.at = "wait"
  /\ pending' = pending \ {<<"call", call.n>>}
  /\ call' = [call EXCEPT !.got = Refusal]
  /\ UNCHANGED <<handle, task, result, overdue>>
TurnTimeout ==
  /\ Timer /\ task.at = "collect"
  /\ Report([handle EXCEPT !.status = "failed"]) /\ GiveUp
  /\ UNCHANGED <<pending, call>>
Timeout == RequestTimeout \/ CallTimeout \/ TurnTimeout

SessionNext == \/ Task \/ Command \/ CommandDone \/ Serve \/ Work \/ Lost
               \/ Deliver \/ Exited \/ Timeout
SessionSpec == SessionInit /\ [][SessionNext]_sessionVars

(* Node goes on and its timers fire; a server that is neither dead nor     *)
(* hung goes on too.                                                       *)
SessionFairSpec ==
  /\ SessionSpec
  /\ WF_sessionVars(Task \/ CommandDone) /\ WF_sessionVars(Deliver)
  /\ WF_sessionVars(Exited) /\ WF_sessionVars(Timeout)
  /\ WF_sessionVars(Serve \/ Work)

-----------------------------------------------------------------------------
(* Properties                                                              *)

(* An assignment is reported completed only with the output of its own     *)
(* turn, and after that turn has ended; unless a timer gave up an earlier  *)
(* turn, which the server may go on with.                                  *)
OwnAnswer ==
  \A n \in Turns :
    result[n].status = "completed" /\ ~(\E k \in overdue : k < n)
      => n \in ended /\ result[n].text \subseteq {n}

(* Nobody waits for a turn whose end was already delivered, in whatever    *)
(* order reply and notifications came; unless codex's reply and the end    *)
(* came in one chunk.                                                      *)
EndIsSeen ==
  chunk = 0 /\ task.at = "collect" => task.n \notin seen \ joined

(* Every assignment gets a result, whatever the server does.               *)
TurnEnds == task.at # "idle" ~> task.at = "idle"
=============================================================================
