---------------------------- MODULE StoreProofs ----------------------------
(***************************************************************************)
(* Proofs about the two places where processes leave work for one another: *)
(* the mailbox of a persistent worker (WorkerMailbox), for any number of   *)
(* commands and publishers, any commands and any number of supervisors;    *)
(* and the plan of a project (PrdStore), for any commands, plans and       *)
(* stories, any files at the start and any number of deaths and faults.    *)
(***************************************************************************)
EXTENDS WorkerMailbox, PrdStore, TLAPS
-----------------------------------------------------------------------------
(* TypeOK, in parts.                                                       *)
MailTypes ==
  /\ command \in [Cmds -> Publishers \cup {Self, "none"}]
  /\ publock \in SUBSET Cmds
  /\ pub \in [Publishers \cup {Self} -> 0 .. N]
  /\ result \in [Cmds -> Final \cup {"none", "accepted"}]
  /\ runs \in [Cmds -> Nat]

SetTypes == todo \in SUBSET Published /\ before \in SUBSET Published

LoopTypes ==
  /\ loop \in Awaiting \cup {"down", "boot", "check", "top", "scan", "drain"}
  /\ active \in 0 .. N
  /\ task \in {"none", "queued", "loading", "starting", "running"}
  /\ settle \in {"no", "closing", "ending"}
  /\ starts \in 0 .. MaxStarts

TaskTypes ==
  /\ task # "none" => active # 0
  /\ open => handle # 0
  /\ active # 0 => closing \/ result[active] = "accepted"

Flags == closing \in BOOLEAN /\ open \in BOOLEAN

ProcTypes ==
  /\ adapters \in SUBSET Cmds /\ handle \in 0 .. N /\ pid \in 0 .. N
  /\ kind \in Kinds
  /\ shut \in [Callers -> 0 .. N]

(* A command is there before its answer, and its answer before it is run.  *)
Answered ==
  \A c \in Cmds : /\ result[c] # "none" => command[c] # "none"
                  /\ runs[c] # 0 => runs[c] = 1 /\ result[c] # "none"

(* The active task is an assignment; while it is queued, it was accepted   *)
(* and has not begun.                                                      *)
ActiveIs ==
  /\ active # 0 => command[active] # "none" /\ Type[active] = "assign"
  /\ task = "queued" => /\ result[active] = "accepted" /\ runs[active] = 0
                        /\ loop \in {"scan", "sleep", "handler", "stop"}

(* A process that is down has forgotten everything.                        *)
Fresh ==
  /\ loop = "down" => /\ task = "none" /\ settle = "no" /\ active = 0
                      /\ handle = 0 /\ shut = Nothing
  /\ closing => loop \in {"stop", "drain", "returned"}
  /\ loop \in {"stop", "drain"} => closing

(* While the command loop serves, what is accepted is what it works on.    *)
Serving == {"top", "scan", "sleep", "handler", "stop", "drain", "expire"}
Head(c) == c \in todo /\ \A d \in todo : c <= d
Shutting(c) == loop \in {"stop", "drain"} /\ Type[c] = "shutdown"

WorkedOn ==
  loop \in Serving =>
    \A c \in Cmds : result[c] = "accepted" =>
      \/ c = active /\ loop # "drain"
      \/ loop = "handler" /\ Head(c)
      \/ Shutting(c)

OneShutdown ==
  \A c, d \in Cmds :
    Shutting(c) /\ Shutting(d) /\ result[c] = "accepted" /\ result[d] = "accepted"
      => c = d

(* What a shutdown still has to answer is what it has not visited.         *)
Drained ==
  loop = "drain" => \A c \in before : result[c] = "none" => c \in todo

(* While a steer command is handled, its task is the active one, or none   *)
(* is.                                                                     *)
Pinned ==
  loop = "handler" =>
    \A c \in Cmds : Head(c) => active \in {0, Expected[c]} /\ Type[c] = "steer"

(* Who awaits the end of an adapter, and the handle that is left.          *)
Marks ==
  /\ handle # 0 => handle = pid
  /\ shut["loop"] # 0 => loop \in {"stop", "expire"}
  /\ shut["task"] # 0 => task = "starting"
  /\ shut["settle"] # 0 => settle = "ending"
  /\ task = "starting" => handle = 0

(* A live adapter is the one the process can shut down, which is the one   *)
(* it named last, or is being shut down by one of the callers.             *)
Tracked == (IF handle = 0 THEN {} ELSE {pid})
             \cup {shut["loop"], shut["task"], shut["settle"]}
Tracks == loop # "down" /\ kind # "session" => adapters \subseteq Tracked

IInv ==
  /\ MailTypes /\ SetTypes /\ LoopTypes /\ TaskTypes /\ Flags /\ ProcTypes
  /\ Answered /\ ActiveIs /\ Fresh
  /\ WorkedOn /\ OneShutdown /\ Drained /\ Pinned
  /\ Marks /\ Tracks

-----------------------------------------------------------------------------
LEMMA Ids ==
  /\ 0 \in 0 .. N /\ 0 \notin Cmds /\ 1 \in Cmds
  /\ \A i \in 0 .. N : i # 0 => i \in Cmds
  /\ \A c \in Cmds : c \in 0 .. N
  BY CommandAssumption DEF Cmds, CommandAssumption

(* writeCommandResult changes one answer, and no final one.                *)
LEMMA AnswerIs ==
  ASSUME MailTypes, NEW c \in Cmds, NEW status \in Final \cup {"accepted"}
  PROVE  /\ Answer(c, status) \in [Cmds -> Final \cup {"none", "accepted"}]
         /\ \A d \in Cmds : Answer(c, status)[d] =
              IF d = c /\ result[c] \in {"none", "accepted"} THEN status ELSE result[d]
  BY DEF MailTypes, Answer

(* What is published stays.                                                *)
LEMMA Publication ==
  ASSUME MailTypes, NEW p \in Publishers \cup {Self},
         \/ \E c \in Cmds : LockId(p, c)
         \/ PublishId(p)
         \/ /\ pub[p] # 0 /\ pub' = [pub EXCEPT ![p] = 0]
            /\ UNCHANGED <<command, publock>>
  PROVE  /\ command' \in [Cmds -> Publishers \cup {Self, "none"}]
         /\ publock' \in SUBSET Cmds
         /\ pub' \in [Publishers \cup {Self} -> 0 .. N]
         /\ \A c \in Cmds : command[c] # "none" => command'[c] = command[c]
<1>1. CASE \E c \in Cmds : LockId(p, c)
  BY <1>1, Ids DEF MailTypes, LockId
<1>2. CASE PublishId(p)
  <2>1. pub[p] \in Cmds
    BY <1>2, Ids DEF MailTypes, PublishId
  <2>2. publock' \in SUBSET Cmds /\ pub' \in [Publishers \cup {Self} -> 0 .. N]
    BY <1>2, Ids DEF MailTypes, PublishId, Unlock
  <2> QED
    BY <1>2, <2>1, <2>2 DEF MailTypes, PublishId
<1>3. CASE pub' = [pub EXCEPT ![p] = 0] /\ UNCHANGED <<command, publock>>
  BY <1>3, Ids DEF MailTypes
<1> QED
  BY <1>1, <1>2, <1>3

LEMMA SubmitStep ==
  ASSUME NEW p \in Publishers, IInv, Submit(p)
  PROVE  IInv'
<1>1. /\ command' \in [Cmds -> Publishers \cup {Self, "none"}]
      /\ publock' \in SUBSET Cmds
      /\ pub' \in [Publishers \cup {Self} -> 0 .. N]
      /\ \A c \in Cmds : command[c] # "none" => command'[c] = command[c]
  <2>1. \/ \E c \in Cmds : LockId(p, c)
        \/ PublishId(p)
        \/ /\ pub[p] # 0 /\ pub' = [pub EXCEPT ![p] = 0]
           /\ UNCHANGED <<command, publock>>
    BY Ids, CommandAssumption
    DEF CommandAssumption, Submit, Submits, PublisherDies
  <2> QED
    BY <2>1, Publication DEF IInv, MailTypes
<1>2. /\ LoopTypes' /\ TaskTypes' /\ Flags' /\ ProcTypes' /\ Fresh'
      /\ WorkedOn' /\ OneShutdown' /\ Drained' /\ Pinned' /\ Marks'
      /\ Tracks'
  BY DEF IInv, LoopTypes, TaskTypes, Flags, ProcTypes, Fresh, WorkedOn,
         OneShutdown, Drained, Pinned, Marks, Tracks, Head, Shutting, Tracked,
         Submit, Submits, LockId, PublishId, PublisherDies, Unlock, loopVars,
         procVars
<1>3. MailTypes'
  BY Ids, <1>1 DEF IInv, MailTypes, Submit, loopVars, procVars
<1>4. SetTypes'
  BY Ids, <1>1 DEF IInv, SetTypes, Published, MailTypes, LoopTypes, Submit,
     loopVars, procVars
<1>5. Answered'
  BY Ids, <1>1 DEF IInv, Answered, MailTypes, LoopTypes, Submit, loopVars,
     procVars
<1>6. ActiveIs'
  BY Ids, <1>1 DEF IInv, ActiveIs, Answered, MailTypes, LoopTypes,
     TaskTypes, Submit, loopVars, procVars
<1> QED
  BY <1>2, <1>3, <1>4, <1>5, <1>6 DEF IInv

LEMMA BootStep ==
  ASSUME IInv, Boot
  PROVE  IInv'
<1>1. /\ MailTypes' /\ SetTypes' /\ TaskTypes' /\ Flags' /\ Answered'
  BY DEF IInv, MailTypes, SetTypes, TaskTypes, Flags, Answered,
         Published, Boot, mailVars
<1>2. LoopTypes'
  BY Ids, CommandAssumption DEF IInv, LoopTypes, Awaiting,
     CommandAssumption, Boot, mailVars
<1>3. ProcTypes'
  BY Ids DEF IInv, ProcTypes, Callers, Boot, mailVars
<1>4. ActiveIs'
  BY Ids DEF IInv, ActiveIs, Answered, MailTypes, LoopTypes, TaskTypes,
     Boot, mailVars
<1>5. Fresh'
  BY Ids DEF IInv, Fresh, LoopTypes, Boot, mailVars
<1>6. WorkedOn'
  BY Ids DEF IInv, WorkedOn, Head, Shutting, Serving, MailTypes, LoopTypes,
     Boot, mailVars
<1>7. OneShutdown'
  BY Ids DEF IInv, OneShutdown, Shutting, MailTypes, LoopTypes, Boot,
     mailVars
<1>8. Drained'
  BY Ids DEF IInv, Drained, MailTypes, Boot, mailVars
<1>9. Pinned'
  BY Ids DEF IInv, Pinned, Head, LoopTypes, Boot, mailVars
<1>10. Marks'
  BY Ids DEF IInv, Marks, ProcTypes, Callers, LoopTypes, Boot, mailVars
<1>11. Tracks'
  BY Ids DEF IInv, Tracks, Tracked, ProcTypes, Callers, Marks, Boot,
     mailVars
<1> QED
  BY <1>1, <1>2, <1>3, <1>4, <1>5, <1>6, <1>7, <1>8, <1>9, <1>10, <1>11 DEF
     IInv

LEMMA BootPublishStep ==
  ASSUME IInv, BootPublish
  PROVE  IInv'
<1>1. /\ command' \in [Cmds -> Publishers \cup {Self, "none"}]
      /\ publock' \in SUBSET Cmds
      /\ pub' \in [Publishers \cup {Self} -> 0 .. N]
      /\ \A c \in Cmds : command[c] # "none" => command'[c] = command[c]
  <2>1. \/ \E c \in Cmds : LockId(Self, c)
        \/ PublishId(Self)
        \/ /\ pub[Self] # 0 /\ pub' = [pub EXCEPT ![Self] = 0]
           /\ UNCHANGED <<command, publock>>
        \/ UNCHANGED mailVars
    BY Ids, CommandAssumption
    DEF CommandAssumption, BootPublish
  <2> QED
    BY <2>1, Publication DEF IInv, MailTypes, mailVars
<1>2. TaskTypes' /\ Flags' /\ ProcTypes'
  BY DEF IInv, TaskTypes, Flags, ProcTypes, BootPublish, LockId,
         PublishId, Unlock, mailVars, procVars
<1>3. MailTypes'
  BY Ids, <1>1 DEF IInv, MailTypes, BootPublish, mailVars, procVars
<1>4. SetTypes'
  BY Ids, <1>1 DEF IInv, SetTypes, Published, MailTypes, LoopTypes,
     BootPublish, mailVars, procVars
<1>5. LoopTypes'
  BY Ids DEF IInv, LoopTypes, Awaiting, BootPublish, LockId, PublishId,
     Unlock, mailVars, procVars
<1>6. Answered'
  BY Ids, <1>1 DEF IInv, Answered, MailTypes, LoopTypes, BootPublish,
     mailVars, procVars
<1>7. ActiveIs'
  BY Ids, <1>1 DEF IInv, ActiveIs, Answered, MailTypes, LoopTypes,
     TaskTypes, BootPublish, mailVars, procVars
<1>8. Fresh'
  BY Ids DEF IInv, Fresh, LoopTypes, BootPublish, LockId, PublishId, Unlock,
     mailVars, procVars
<1>9. WorkedOn'
  BY Ids DEF IInv, WorkedOn, Head, Shutting, Serving, MailTypes, LoopTypes,
     BootPublish, LockId, PublishId, Unlock, mailVars, procVars
<1>10. OneShutdown'
  BY Ids DEF IInv, OneShutdown, Shutting, MailTypes, LoopTypes, BootPublish,
     LockId, PublishId, Unlock, mailVars, procVars
<1>11. Drained'
  BY Ids DEF IInv, Drained, MailTypes, BootPublish, LockId, PublishId,
     Unlock, mailVars, procVars
<1>12. Pinned'
  BY Ids DEF IInv, Pinned, Head, LoopTypes, BootPublish, LockId, PublishId,
     Unlock, mailVars, procVars
<1>13. Marks'
  BY Ids DEF IInv, Marks, ProcTypes, Callers, LoopTypes, BootPublish,
     LockId, PublishId, Unlock, mailVars, procVars
<1>14. Tracks'
  BY Ids DEF IInv, Tracks, Tracked, ProcTypes, Callers, Marks, BootPublish,
     LockId, PublishId, Unlock, mailVars, procVars
<1> QED
  BY <1>2, <1>3, <1>4, <1>5, <1>6, <1>7, <1>8, <1>9, <1>10, <1>11, <1>12,
     <1>13, <1>14 DEF IInv

LEMMA BootCheckStep ==
  ASSUME IInv, BootCheck
  PROVE  IInv'
<1>1. /\ MailTypes' /\ SetTypes' /\ TaskTypes' /\ Flags' /\ ProcTypes'
      /\ Answered'
  BY DEF IInv, MailTypes, SetTypes, TaskTypes, Flags, ProcTypes,
         Answered, Published, BootCheck, mailVars, procVars
<1>2. LoopTypes'
  BY Ids DEF IInv, LoopTypes, Awaiting, BootCheck, mailVars, procVars
<1>3. ActiveIs'
  BY Ids DEF IInv, ActiveIs, Answered, MailTypes, LoopTypes, TaskTypes,
     BootCheck, mailVars, procVars
<1>4. Fresh'
  BY Ids DEF IInv, Fresh, LoopTypes, BootCheck, mailVars, procVars
<1>5. WorkedOn'
  BY Ids DEF IInv, WorkedOn, Head, Shutting, Serving, MailTypes, LoopTypes,
     Answered, Published, BootCheck, mailVars, procVars
<1>6. OneShutdown'
  BY Ids DEF IInv, OneShutdown, Shutting, MailTypes, LoopTypes, BootCheck,
     mailVars, procVars
<1>7. Drained'
  BY Ids DEF IInv, Drained, MailTypes, BootCheck, mailVars, procVars
<1>8. Pinned'
  BY Ids DEF IInv, Pinned, Head, LoopTypes, BootCheck, mailVars, procVars
<1>9. Marks'
  BY Ids DEF IInv, Marks, ProcTypes, Callers, LoopTypes, BootCheck,
     mailVars, procVars
<1>10. Tracks'
  BY Ids DEF IInv, Tracks, Tracked, ProcTypes, Callers, Marks, BootCheck,
     mailVars, procVars
<1> QED
  BY <1>1, <1>2, <1>3, <1>4, <1>5, <1>6, <1>7, <1>8, <1>9, <1>10 DEF IInv

LEMMA ReadCommandsStep ==
  ASSUME IInv, ReadCommands
  PROVE  IInv'
<1>1. MailTypes' /\ Answered'
  BY DEF IInv, MailTypes, Answered, ReadCommands, TakeHandle, Loop,
         mailVars
<1>2. SetTypes'
  BY Ids DEF IInv, SetTypes, Published, ReadCommands, TakeHandle, Loop,
     mailVars
<1>3. LoopTypes'
  BY Ids DEF IInv, LoopTypes, Awaiting, ReadCommands, TakeHandle, Loop,
     mailVars
<1>4. TaskTypes'
  BY Ids DEF IInv, TaskTypes, MailTypes, LoopTypes, ReadCommands,
     TakeHandle, Loop, mailVars
<1>5. Flags'
  BY Ids DEF IInv, Flags, ReadCommands, TakeHandle, Loop, mailVars
<1>6. ProcTypes'
  BY Ids DEF IInv, ProcTypes, Callers, ReadCommands, TakeHandle, Loop,
     mailVars
<1>7. ActiveIs'
  BY Ids DEF IInv, ActiveIs, Answered, MailTypes, LoopTypes, TaskTypes,
     ReadCommands, TakeHandle, Loop, mailVars
<1>8. Fresh'
  BY Ids DEF IInv, Fresh, LoopTypes, ReadCommands, TakeHandle, Loop,
     mailVars
<1>9. WorkedOn'
  BY Ids DEF IInv, WorkedOn, Head, Shutting, Serving, MailTypes, LoopTypes,
     ReadCommands, TakeHandle, Loop, mailVars
<1>10. OneShutdown'
  BY Ids DEF IInv, OneShutdown, Shutting, MailTypes, LoopTypes,
     ReadCommands, TakeHandle, Loop, mailVars
<1>11. Drained'
  BY Ids DEF IInv, Drained, MailTypes, ReadCommands, TakeHandle, Loop,
     mailVars
<1>12. Pinned'
  BY Ids DEF IInv, Pinned, Head, LoopTypes, ReadCommands, TakeHandle, Loop,
     mailVars
<1>13. Marks'
  BY Ids DEF IInv, Marks, ProcTypes, Callers, LoopTypes, ReadCommands,
     TakeHandle, Loop, mailVars
<1>14. Tracks'
  BY Ids DEF IInv, Tracks, Tracked, ProcTypes, Callers, Marks, ReadCommands,
     TakeHandle, Loop, mailVars
<1> QED
  BY <1>1, <1>2, <1>3, <1>4, <1>5, <1>6, <1>7, <1>8, <1>9, <1>10, <1>11,
     <1>12, <1>13, <1>14 DEF IInv

LEMMA ExpiredStep ==
  ASSUME IInv, Expired
  PROVE  IInv'
<1>1. /\ MailTypes' /\ SetTypes' /\ TaskTypes' /\ Flags' /\ Answered'
  BY DEF IInv, MailTypes, SetTypes, TaskTypes, Flags, Answered,
         Published, Expired, Turn, Reap, Loop, mailVars
<1>2. LoopTypes'
  BY Ids DEF IInv, LoopTypes, Awaiting, Expired, Turn, Reap, Loop, mailVars
<1>3. ProcTypes'
  BY Ids DEF IInv, ProcTypes, Callers, Expired, Turn, Reap, Loop, mailVars
<1>4. ActiveIs'
  BY Ids DEF IInv, ActiveIs, Answered, MailTypes, LoopTypes, TaskTypes,
     Expired, Turn, Reap, Loop, mailVars
<1>5. Fresh'
  BY Ids DEF IInv, Fresh, LoopTypes, Expired, Turn, Reap, Loop, mailVars
<1>6. WorkedOn'
  BY Ids DEF IInv, WorkedOn, Head, Shutting, Serving, MailTypes, LoopTypes,
     Expired, Turn, Reap, Loop, mailVars
<1>7. OneShutdown'
  BY Ids DEF IInv, OneShutdown, Shutting, MailTypes, LoopTypes, Expired,
     Turn, Reap, Loop, mailVars
<1>8. Drained'
  BY Ids DEF IInv, Drained, MailTypes, Expired, Turn, Reap, Loop, mailVars
<1>9. Pinned'
  BY Ids DEF IInv, Pinned, Head, LoopTypes, Expired, Turn, Reap, Loop,
     mailVars
<1>10. Marks'
  BY Ids DEF IInv, Marks, ProcTypes, Callers, LoopTypes, Expired, Turn,
     Reap, Loop, mailVars
<1>11. Tracks'
  BY Ids DEF IInv, Tracks, Tracked, ProcTypes, Callers, Marks, Expired,
     Turn, Reap, Loop, mailVars
<1> QED
  BY <1>1, <1>2, <1>3, <1>4, <1>5, <1>6, <1>7, <1>8, <1>9, <1>10, <1>11 DEF
     IInv

LEMMA SkipStep ==
  ASSUME NEW c \in Cmds, IInv, Skip(c)
  PROVE  IInv'
<1>1. /\ MailTypes' /\ LoopTypes' /\ TaskTypes' /\ Flags' /\ ProcTypes'
      /\ Answered' /\ ActiveIs' /\ Fresh' /\ OneShutdown' /\ Marks'
      /\ Tracks'
  BY DEF IInv, MailTypes, LoopTypes, TaskTypes, Flags, ProcTypes,
         Answered, ActiveIs, Fresh, OneShutdown, Marks, Tracks, Shutting,
         Tracked, Skip, Visits, Loop, mailVars, procVars
<1>2. SetTypes'
  BY Ids DEF IInv, SetTypes, Published, Skip, Visits, Loop, mailVars,
     procVars
<1>3. WorkedOn'
  BY Ids DEF IInv, WorkedOn, Head, Shutting, Serving, MailTypes, LoopTypes,
     Skip, Visits, Loop, mailVars, procVars
<1>4. Drained'
  BY Ids DEF IInv, Drained, MailTypes, Skip, Visits, Loop, mailVars,
     procVars
<1>5. Pinned'
  BY Ids DEF IInv, Pinned, Head, LoopTypes, Skip, Visits, Loop, mailVars,
     procVars
<1> QED
  BY <1>1, <1>2, <1>3, <1>4, <1>5 DEF IInv

LEMMA AssignStep ==
  ASSUME NEW c \in Cmds, IInv, Assign(c)
  PROVE  IInv'
<1>1. Flags' /\ ProcTypes' /\ Tracks'
  BY DEF IInv, Flags, ProcTypes, Tracks, Tracked, Assign, Visits,
         Answer, mailVars, procVars
<1>2. MailTypes'
  BY AnswerIs, Ids DEF IInv, MailTypes, SetTypes, Published, Final, Assign,
     Visits, mailVars, procVars
<1>3. SetTypes'
  BY Ids DEF IInv, SetTypes, Published, Assign, Visits, Answer, mailVars,
     procVars
<1>4. LoopTypes'
  BY Ids DEF IInv, LoopTypes, Awaiting, Assign, Visits, Answer, mailVars,
     procVars
<1>5. TaskTypes'
  BY AnswerIs, Ids DEF IInv, TaskTypes, MailTypes, LoopTypes, SetTypes,
     Published, Final, Assign, Visits, mailVars, procVars
<1>6. Answered'
  BY AnswerIs, Ids DEF IInv, Answered, MailTypes, SetTypes, Published,
     Final, Assign, Visits, mailVars, procVars
<1>7. ActiveIs'
  BY AnswerIs, Ids DEF IInv, ActiveIs, Answered, MailTypes, LoopTypes,
     TaskTypes, SetTypes, Published, Final, Assign, Visits, mailVars, procVars
<1>8. Fresh'
  BY Ids DEF IInv, Fresh, LoopTypes, Assign, Visits, Answer, mailVars,
     procVars
<1>9. WorkedOn'
  BY AnswerIs, Ids DEF IInv, WorkedOn, Head, Shutting, Serving, MailTypes,
     LoopTypes, Final, Assign, Visits, mailVars, procVars
<1>10. OneShutdown'
  BY AnswerIs, Ids DEF IInv, OneShutdown, Shutting, MailTypes, LoopTypes,
     Final, Assign, Visits, mailVars, procVars
<1>11. Drained'
  BY AnswerIs, Ids DEF IInv, Drained, MailTypes, Final, Assign, Visits,
     mailVars, procVars
<1>12. Pinned'
  BY Ids DEF IInv, Pinned, Head, LoopTypes, Assign, Visits, Answer,
     mailVars, procVars
<1>13. Marks'
  BY Ids DEF IInv, Marks, ProcTypes, Callers, LoopTypes, TaskTypes, Assign,
     Visits, Answer, mailVars, procVars
<1> QED
  BY <1>1, <1>2, <1>3, <1>4, <1>5, <1>6, <1>7, <1>8, <1>9, <1>10, <1>11,
     <1>12, <1>13 DEF IInv

LEMMA RejectSteerStep ==
  ASSUME NEW c \in Cmds, IInv, RejectSteer(c)
  PROVE  IInv'
<1>1. /\ LoopTypes' /\ Flags' /\ ProcTypes' /\ Fresh' /\ Marks'
      /\ Tracks'
  BY DEF IInv, LoopTypes, Flags, ProcTypes, Fresh, Marks, Tracks,
         Tracked, RejectSteer, Visits, Answer, Loop, mailVars, procVars
<1>2. MailTypes'
  BY AnswerIs, Ids DEF IInv, MailTypes, SetTypes, Published, Final,
     RejectSteer, Visits, Loop, mailVars, procVars
<1>3. SetTypes'
  BY Ids DEF IInv, SetTypes, Published, RejectSteer, Visits, Answer, Loop,
     mailVars, procVars
<1>4. TaskTypes'
  BY AnswerIs, Ids DEF IInv, TaskTypes, MailTypes, LoopTypes, SetTypes,
     Published, Final, RejectSteer, Visits, Loop, mailVars, procVars
<1>5. Answered'
  BY AnswerIs, Ids DEF IInv, Answered, MailTypes, SetTypes, Published,
     Final, RejectSteer, Visits, Loop, mailVars, procVars
<1>6. ActiveIs'
  BY AnswerIs, Ids DEF IInv, ActiveIs, Answered, MailTypes, LoopTypes,
     TaskTypes, SetTypes, Published, Final, RejectSteer, Visits, Loop,
     mailVars, procVars
<1>7. WorkedOn'
  BY AnswerIs, Ids DEF IInv, WorkedOn, Head, Shutting, Serving, MailTypes,
     LoopTypes, Final, RejectSteer, Visits, Loop, mailVars, procVars
<1>8. OneShutdown'
  BY AnswerIs, Ids DEF IInv, OneShutdown, Shutting, MailTypes, LoopTypes,
     Final, RejectSteer, Visits, Loop, mailVars, procVars
<1>9. Drained'
  BY AnswerIs, Ids DEF IInv, Drained, MailTypes, Final, RejectSteer, Visits,
     Loop, mailVars, procVars
<1>10. Pinned'
  BY Ids DEF IInv, Pinned, Head, LoopTypes, RejectSteer, Visits, Answer,
     Loop, mailVars, procVars
<1> QED
  BY <1>1, <1>2, <1>3, <1>4, <1>5, <1>6, <1>7, <1>8, <1>9, <1>10 DEF IInv

LEMMA TakeSteerStep ==
  ASSUME NEW c \in Cmds, IInv, TakeSteer(c)
  PROVE  IInv'
<1>1. SetTypes' /\ Flags' /\ ProcTypes'
  BY DEF IInv, SetTypes, Flags, ProcTypes, Published, TakeSteer, Visits,
         Answer, Loop, mailVars, procVars
<1>2. MailTypes'
  BY AnswerIs, Ids DEF IInv, MailTypes, SetTypes, Published, Final,
     TakeSteer, Visits, Loop, mailVars, procVars
<1>3. LoopTypes'
  BY Ids DEF IInv, LoopTypes, Awaiting, TakeSteer, Visits, Answer, Loop,
     mailVars, procVars
<1>4. TaskTypes'
  BY AnswerIs, Ids DEF IInv, TaskTypes, MailTypes, LoopTypes, SetTypes,
     Published, Final, TakeSteer, Visits, Loop, mailVars, procVars
<1>5. Answered'
  BY AnswerIs, Ids DEF IInv, Answered, MailTypes, SetTypes, Published,
     Final, TakeSteer, Visits, Loop, mailVars, procVars
<1>6. ActiveIs'
  BY AnswerIs, Ids DEF IInv, ActiveIs, Answered, MailTypes, LoopTypes,
     TaskTypes, SetTypes, Published, Final, TakeSteer, Visits, Loop, mailVars,
     procVars
<1>7. Fresh'
  BY Ids DEF IInv, Fresh, LoopTypes, TakeSteer, Visits, Answer, Loop,
     mailVars, procVars
<1>8. WorkedOn'
  BY AnswerIs, Ids DEF IInv, WorkedOn, Head, Shutting, Serving, MailTypes,
     LoopTypes, Final, TakeSteer, Visits, Loop, mailVars, procVars
<1>9. OneShutdown'
  BY AnswerIs, Ids DEF IInv, OneShutdown, Shutting, MailTypes, LoopTypes,
     Final, TakeSteer, Visits, Loop, mailVars, procVars
<1>10. Drained'
  BY AnswerIs, Ids DEF IInv, Drained, MailTypes, Final, TakeSteer, Visits,
     Loop, mailVars, procVars
<1>11. Pinned'
  BY Ids DEF IInv, Pinned, Head, LoopTypes, TakeSteer, Visits, Answer, Loop,
     mailVars, procVars
<1>12. Marks'
  BY Ids DEF IInv, Marks, ProcTypes, Callers, LoopTypes, TakeSteer, Visits,
     Answer, Loop, mailVars, procVars
<1>13. Tracks'
  BY Ids DEF IInv, Tracks, Tracked, ProcTypes, Callers, Marks, TakeSteer,
     Visits, Answer, Loop, mailVars, procVars
<1> QED
  BY <1>1, <1>2, <1>3, <1>4, <1>5, <1>6, <1>7, <1>8, <1>9, <1>10, <1>11,
     <1>12, <1>13 DEF IInv

LEMMA SteerReturnsStep ==
  ASSUME NEW c \in Cmds, IInv, SteerReturns(c)
  PROVE  IInv'
<1>1. Flags' /\ ProcTypes'
  BY DEF IInv, Flags, ProcTypes, SteerReturns, Handled, Turn, Answer,
         Loop, mailVars, procVars
<1>2. MailTypes'
  BY AnswerIs, Ids DEF IInv, MailTypes, SetTypes, Published, Final,
     SteerReturns, Handled, Turn, Loop, mailVars, procVars
<1>3. SetTypes'
  BY Ids DEF IInv, SetTypes, Published, SteerReturns, Handled, Turn, Answer,
     Loop, mailVars, procVars
<1>4. LoopTypes'
  BY Ids DEF IInv, LoopTypes, Awaiting, SteerReturns, Handled, Turn, Answer,
     Loop, mailVars, procVars
<1>5. TaskTypes'
  <2>1. active # 0 => active \in Cmds /\ active # c
    BY Ids DEF IInv, LoopTypes, ActiveIs, Pinned, Head, SteerReturns, Handled
  <2>2. active # 0 => result'[active] = result[active]
    BY <2>1, AnswerIs DEF IInv, SteerReturns, Final
  <2> QED
    BY <2>2 DEF IInv, TaskTypes, SteerReturns, Loop, procVars
<1>6. Answered'
  BY AnswerIs, Ids DEF IInv, Answered, MailTypes, SetTypes, Published,
     Final, SteerReturns, Handled, Turn, Loop, mailVars, procVars
<1>7. ActiveIs'
  BY AnswerIs, Ids DEF IInv, ActiveIs, Answered, MailTypes, LoopTypes,
     TaskTypes, SetTypes, Published, Final, SteerReturns, Handled, Turn, Loop,
     mailVars, procVars
<1>8. Fresh'
  BY Ids DEF IInv, Fresh, LoopTypes, SteerReturns, Handled, Turn, Answer,
     Loop, mailVars, procVars
<1>9. WorkedOn'
  BY AnswerIs, Ids DEF IInv, WorkedOn, Head, Shutting, Serving, MailTypes,
     LoopTypes, Cmds, Final, SteerReturns, Handled, Turn, Loop, mailVars,
     procVars
<1>10. OneShutdown'
  BY AnswerIs, Ids DEF IInv, OneShutdown, Shutting, MailTypes, LoopTypes,
     Final, SteerReturns, Handled, Turn, Loop, mailVars, procVars
<1>11. Drained'
  BY AnswerIs, Ids DEF IInv, Drained, MailTypes, Final, SteerReturns,
     Handled, Turn, Loop, mailVars, procVars
<1>12. Pinned'
  BY Ids DEF IInv, Pinned, Head, LoopTypes, SteerReturns, Handled, Turn,
     Answer, Loop, mailVars, procVars
<1>13. Marks'
  BY Ids DEF IInv, Marks, ProcTypes, Callers, LoopTypes, SteerReturns,
     Handled, Turn, Answer, Loop, mailVars, procVars
<1>14. Tracks'
  BY Ids DEF IInv, Tracks, Tracked, ProcTypes, Callers, Marks, SteerReturns,
     Handled, Turn, Answer, Loop, mailVars, procVars
<1> QED
  BY <1>1, <1>2, <1>3, <1>4, <1>5, <1>6, <1>7, <1>8, <1>9, <1>10, <1>11,
     <1>12, <1>13, <1>14 DEF IInv

LEMMA TakeShutdownStep ==
  ASSUME NEW c \in Cmds, IInv, TakeShutdown(c)
  PROVE  IInv'
<1>1. SetTypes'
  BY DEF IInv, SetTypes, Published, TakeShutdown, Visits, Answer,
         TakeHandle, Loop, mailVars
<1>2. MailTypes'
  BY AnswerIs, Ids DEF IInv, MailTypes, SetTypes, Published, Final,
     TakeShutdown, Visits, TakeHandle, Loop, mailVars
<1>3. LoopTypes'
  BY Ids DEF IInv, LoopTypes, Awaiting, TakeShutdown, Visits, Answer,
     TakeHandle, Loop, mailVars
<1>4. TaskTypes'
  BY AnswerIs, Ids DEF IInv, TaskTypes, MailTypes, LoopTypes, SetTypes,
     Published, Final, TakeShutdown, Visits, TakeHandle, Loop, mailVars
<1>5. Flags'
  BY Ids DEF IInv, Flags, TakeShutdown, Visits, Answer, TakeHandle, Loop,
     mailVars
<1>6. ProcTypes'
  BY Ids DEF IInv, ProcTypes, Callers, TakeShutdown, Visits, Answer,
     TakeHandle, Loop, mailVars
<1>7. Answered'
  BY AnswerIs, Ids DEF IInv, Answered, MailTypes, SetTypes, Published,
     Final, TakeShutdown, Visits, TakeHandle, Loop, mailVars
<1>8. ActiveIs'
  BY AnswerIs, Ids DEF IInv, ActiveIs, Answered, MailTypes, LoopTypes,
     TaskTypes, SetTypes, Published, Final, TakeShutdown, Visits, TakeHandle,
     Loop, mailVars
<1>9. Fresh'
  BY Ids DEF IInv, Fresh, LoopTypes, TakeShutdown, Visits, Answer,
     TakeHandle, Loop, mailVars
<1>10. WorkedOn'
  BY AnswerIs, Ids DEF IInv, WorkedOn, Head, Shutting, Serving, MailTypes,
     LoopTypes, Final, TakeShutdown, Visits, TakeHandle, Loop, mailVars
<1>11. OneShutdown'
  <2>1. \A d \in Cmds : result[d] = "accepted" => Type[d] = "assign"
    BY Ids DEF IInv, WorkedOn, Serving, Shutting, ActiveIs, TakeShutdown, Visits
  <2>2. \A d \in Cmds : result'[d] = "accepted" => d = c \/ result[d] = "accepted"
    BY AnswerIs DEF IInv, TakeShutdown
  <2> QED
    BY <2>1, <2>2 DEF OneShutdown, Shutting
<1>12. Drained'
  BY AnswerIs, Ids DEF IInv, Drained, MailTypes, Final, TakeShutdown,
     Visits, TakeHandle, Loop, mailVars
<1>13. Pinned'
  BY Ids DEF IInv, Pinned, Head, LoopTypes, TakeShutdown, Visits, Answer,
     TakeHandle, Loop, mailVars
<1>14. Marks'
  BY Ids DEF IInv, Marks, ProcTypes, Callers, LoopTypes, TakeShutdown,
     Visits, Answer, TakeHandle, Loop, mailVars
<1>15. Tracks'
  BY Ids DEF IInv, Tracks, Tracked, ProcTypes, Callers, Marks, TakeShutdown,
     Visits, Answer, TakeHandle, Loop, mailVars
<1> QED
  BY <1>1, <1>2, <1>3, <1>4, <1>5, <1>6, <1>7, <1>8, <1>9, <1>10, <1>11,
     <1>12, <1>13, <1>14, <1>15 DEF IInv

LEMMA StoppedStep ==
  ASSUME IInv, Stopped
  PROVE  IInv'
<1>1. Flags'
  BY DEF IInv, Flags, Stopped, Turn, Reap, Answer, Loop, mailVars
<1>2. MailTypes'
  BY AnswerIs, Ids DEF IInv, MailTypes, LoopTypes, SetTypes, Published,
     Final, Stopped, Turn, Reap, Loop, mailVars
<1>3. SetTypes'
  BY Ids DEF IInv, SetTypes, Published, Stopped, Turn, Reap, Answer, Loop,
     mailVars
<1>4. LoopTypes'
  BY Ids DEF IInv, LoopTypes, Awaiting, Stopped, Turn, Reap, Answer, Loop,
     mailVars
<1>5. TaskTypes'
  BY AnswerIs, Ids DEF IInv, TaskTypes, MailTypes, LoopTypes, Fresh,
     SetTypes, Published, Final, Stopped, Turn, Reap, Loop, mailVars
<1>6. ProcTypes'
  BY Ids DEF IInv, ProcTypes, Callers, Stopped, Turn, Reap, Answer, Loop,
     mailVars
<1>7. Answered'
  BY AnswerIs, Ids DEF IInv, Answered, MailTypes, LoopTypes, ActiveIs,
     SetTypes, Published, Final, Stopped, Turn, Reap, Loop, mailVars
<1>8. ActiveIs'
  BY AnswerIs, Ids DEF IInv, ActiveIs, Answered, MailTypes, LoopTypes,
     TaskTypes, SetTypes, Published, Final, Stopped, Turn, Reap, Loop, mailVars
<1>9. Fresh'
  BY Ids DEF IInv, Fresh, LoopTypes, Stopped, Turn, Reap, Answer, Loop,
     mailVars
<1>10. WorkedOn'
  BY AnswerIs, Ids DEF IInv, WorkedOn, Head, Shutting, Serving, MailTypes,
     LoopTypes, Final, Stopped, Turn, Reap, Loop, mailVars
<1>11. OneShutdown'
  BY AnswerIs, Ids DEF IInv, OneShutdown, Shutting, MailTypes, LoopTypes,
     Final, Stopped, Turn, Reap, Loop, mailVars
<1>12. Drained'
  BY AnswerIs, Ids DEF IInv, Drained, MailTypes, Final, Stopped, Turn, Reap,
     Loop, mailVars
<1>13. Pinned'
  BY Ids DEF IInv, Pinned, Head, LoopTypes, Stopped, Turn, Reap, Answer,
     Loop, mailVars
<1>14. Marks'
  BY Ids DEF IInv, Marks, ProcTypes, Callers, LoopTypes, Stopped, Turn,
     Reap, Answer, Loop, mailVars
<1>15. Tracks'
  BY Ids DEF IInv, Tracks, Tracked, ProcTypes, Callers, Marks, Stopped,
     Turn, Reap, Answer, Loop, mailVars
<1> QED
  BY <1>1, <1>2, <1>3, <1>4, <1>5, <1>6, <1>7, <1>8, <1>9, <1>10, <1>11,
     <1>12, <1>13, <1>14, <1>15 DEF IInv

LEMMA CancelQueuedStep ==
  ASSUME NEW c \in Cmds, IInv, CancelQueued(c)
  PROVE  IInv'
<1>1. /\ LoopTypes' /\ Flags' /\ ProcTypes' /\ Fresh' /\ Marks'
      /\ Tracks'
  BY DEF IInv, LoopTypes, Flags, ProcTypes, Fresh, Marks, Tracks,
         Tracked, CancelQueued, Answer, Loop, mailVars, procVars
<1>2. MailTypes'
  BY AnswerIs, Ids DEF IInv, MailTypes, SetTypes, Published, Final,
     CancelQueued, Loop, mailVars, procVars
<1>3. SetTypes'
  BY Ids DEF IInv, SetTypes, Published, CancelQueued, Answer, Loop,
     mailVars, procVars
<1>4. TaskTypes'
  BY AnswerIs, Ids DEF IInv, TaskTypes, MailTypes, LoopTypes, SetTypes,
     Published, Final, CancelQueued, Loop, mailVars, procVars
<1>5. Answered'
  BY AnswerIs, Ids DEF IInv, Answered, MailTypes, SetTypes, Published,
     Final, CancelQueued, Loop, mailVars, procVars
<1>6. ActiveIs'
  BY AnswerIs, Ids DEF IInv, ActiveIs, Answered, MailTypes, LoopTypes,
     TaskTypes, SetTypes, Published, Final, CancelQueued, Loop, mailVars,
     procVars
<1>7. WorkedOn'
  BY AnswerIs, Ids DEF IInv, WorkedOn, Head, Shutting, Serving, MailTypes,
     LoopTypes, Final, CancelQueued, Loop, mailVars, procVars
<1>8. OneShutdown'
  BY AnswerIs, Ids DEF IInv, OneShutdown, Shutting, MailTypes, LoopTypes,
     Final, CancelQueued, Loop, mailVars, procVars
<1>9. Drained'
  BY AnswerIs, Ids DEF IInv, Drained, MailTypes, SetTypes, Published, Final,
     CancelQueued, Loop, mailVars, procVars
<1>10. Pinned'
  BY Ids DEF IInv, Pinned, Head, LoopTypes, CancelQueued, Answer, Loop,
     mailVars, procVars
<1> QED
  BY <1>1, <1>2, <1>3, <1>4, <1>5, <1>6, <1>7, <1>8, <1>9, <1>10 DEF IInv

LEMMA FinishShutdownStep ==
  ASSUME NEW c \in Cmds, IInv, FinishShutdown(c)
  PROVE  IInv'
<1>1. Flags' /\ ProcTypes'
  BY DEF IInv, Flags, ProcTypes, FinishShutdown, Answer, Loop, mailVars,
         procVars
<1>2. MailTypes'
  BY AnswerIs, Ids DEF IInv, MailTypes, Final, FinishShutdown, Loop,
     mailVars, procVars
<1>3. SetTypes'
  BY Ids DEF IInv, SetTypes, Published, FinishShutdown, Answer, Loop,
     mailVars, procVars
<1>4. LoopTypes'
  BY Ids DEF IInv, LoopTypes, Awaiting, FinishShutdown, Answer, Loop,
     mailVars, procVars
<1>5. TaskTypes'
  BY AnswerIs, Ids DEF IInv, TaskTypes, MailTypes, LoopTypes, ActiveIs,
     Final, FinishShutdown, Loop, mailVars, procVars
<1>6. Answered'
  BY AnswerIs, Ids DEF IInv, Answered, MailTypes, Final, FinishShutdown,
     Loop, mailVars, procVars
<1>7. ActiveIs'
  BY AnswerIs, Ids DEF IInv, ActiveIs, Answered, MailTypes, LoopTypes,
     TaskTypes, Final, FinishShutdown, Loop, mailVars, procVars
<1>8. Fresh'
  BY Ids DEF IInv, Fresh, LoopTypes, FinishShutdown, Answer, Loop, mailVars,
     procVars
<1>9. WorkedOn'
  BY AnswerIs, Ids DEF IInv, WorkedOn, Head, Shutting, Serving, MailTypes,
     LoopTypes, Final, FinishShutdown, Loop, mailVars, procVars
<1>10. OneShutdown'
  BY AnswerIs, Ids DEF IInv, OneShutdown, Shutting, MailTypes, LoopTypes,
     Final, FinishShutdown, Loop, mailVars, procVars
<1>11. Drained'
  BY AnswerIs, Ids DEF IInv, Drained, MailTypes, Final, FinishShutdown,
     Loop, mailVars, procVars
<1>12. Pinned'
  BY Ids DEF IInv, Pinned, Head, LoopTypes, FinishShutdown, Answer, Loop,
     mailVars, procVars
<1>13. Marks'
  BY Ids DEF IInv, Marks, ProcTypes, Callers, LoopTypes, FinishShutdown,
     Answer, Loop, mailVars, procVars
<1>14. Tracks'
  BY Ids DEF IInv, Tracks, Tracked, ProcTypes, Callers, Marks,
     FinishShutdown, Answer, Loop, mailVars, procVars
<1> QED
  BY <1>1, <1>2, <1>3, <1>4, <1>5, <1>6, <1>7, <1>8, <1>9, <1>10, <1>11,
     <1>12, <1>13, <1>14 DEF IInv

LEMMA RestStep ==
  ASSUME IInv, Rest
  PROVE  IInv'
<1>1. /\ MailTypes' /\ SetTypes' /\ TaskTypes' /\ Flags' /\ ProcTypes'
      /\ Answered'
  BY DEF IInv, MailTypes, SetTypes, TaskTypes, Flags, ProcTypes,
         Answered, Published, Rest, Turn, Loop, mailVars, procVars
<1>2. LoopTypes'
  BY Ids DEF IInv, LoopTypes, Awaiting, Rest, Turn, Loop, mailVars, procVars
<1>3. ActiveIs'
  BY Ids DEF IInv, ActiveIs, Answered, MailTypes, LoopTypes, TaskTypes,
     Rest, Turn, Loop, mailVars, procVars
<1>4. Fresh'
  BY Ids DEF IInv, Fresh, LoopTypes, Rest, Turn, Loop, mailVars, procVars
<1>5. WorkedOn'
  BY Ids DEF IInv, WorkedOn, Head, Shutting, Serving, MailTypes, LoopTypes,
     Rest, Turn, Loop, mailVars, procVars
<1>6. OneShutdown'
  BY Ids DEF IInv, OneShutdown, Shutting, MailTypes, LoopTypes, Rest, Turn,
     Loop, mailVars, procVars
<1>7. Drained'
  BY Ids DEF IInv, Drained, MailTypes, Rest, Turn, Loop, mailVars, procVars
<1>8. Pinned'
  BY Ids DEF IInv, Pinned, Head, LoopTypes, Rest, Turn, Loop, mailVars,
     procVars
<1>9. Marks'
  BY Ids DEF IInv, Marks, ProcTypes, Callers, LoopTypes, Rest, Turn, Loop,
     mailVars, procVars
<1>10. Tracks'
  BY Ids DEF IInv, Tracks, Tracked, ProcTypes, Callers, Marks, Rest, Turn,
     Loop, mailVars, procVars
<1> QED
  BY <1>1, <1>2, <1>3, <1>4, <1>5, <1>6, <1>7, <1>8, <1>9, <1>10 DEF IInv

LEMMA ExecuteStep ==
  ASSUME IInv, Execute
  PROVE  IInv'
<1>1. /\ SetTypes' /\ Flags' /\ ProcTypes' /\ WorkedOn' /\ OneShutdown'
      /\ Drained' /\ Pinned' /\ Tracks'
  BY DEF IInv, SetTypes, Flags, ProcTypes, WorkedOn, OneShutdown,
         Drained, Pinned, Tracks, Published, Head, Shutting, Tracked, Execute,
         Task, mailVars, procVars
<1>2. MailTypes'
  BY Ids DEF IInv, MailTypes, TaskTypes, LoopTypes, Execute, Task, mailVars,
     procVars
<1>3. LoopTypes'
  BY Ids DEF IInv, LoopTypes, Awaiting, Execute, Task, mailVars, procVars
<1>4. TaskTypes'
  BY Ids DEF IInv, TaskTypes, MailTypes, LoopTypes, Execute, Task, mailVars,
     procVars
<1>5. Answered'
  BY Ids DEF IInv, Answered, MailTypes, ActiveIs, TaskTypes, LoopTypes,
     Execute, Task, mailVars, procVars
<1>6. ActiveIs'
  BY Ids DEF IInv, ActiveIs, Answered, MailTypes, LoopTypes, TaskTypes,
     Execute, Task, mailVars, procVars
<1>7. Fresh'
  BY Ids DEF IInv, Fresh, LoopTypes, Execute, Task, mailVars, procVars
<1>8. Marks'
  BY Ids DEF IInv, Marks, ProcTypes, Callers, LoopTypes, Execute, Task,
     mailVars, procVars
<1> QED
  BY <1>1, <1>2, <1>3, <1>4, <1>5, <1>6, <1>7, <1>8 DEF IInv

LEMMA LoadAdapterStep ==
  ASSUME IInv, LoadAdapter
  PROVE  IInv'
<1>1. /\ MailTypes' /\ SetTypes' /\ Answered' /\ WorkedOn' /\ OneShutdown'
      /\ Drained' /\ Pinned'
  BY DEF IInv, MailTypes, SetTypes, Answered, WorkedOn, OneShutdown,
         Drained, Pinned, Published, Head, Shutting, LoadAdapter, Turn, Start,
         TakeHandle, Task, mailVars, procVars
<1>2. LoopTypes'
  BY Ids DEF IInv, LoopTypes, Awaiting, LoadAdapter, Turn, Start,
     TakeHandle, Task, mailVars, procVars
<1>3. TaskTypes'
  BY Ids DEF IInv, TaskTypes, MailTypes, LoopTypes, LoadAdapter, Turn,
     Start, TakeHandle, Task, mailVars, procVars
<1>4. Flags'
  BY Ids DEF IInv, Flags, LoadAdapter, Turn, Start, TakeHandle, Task,
     mailVars, procVars
<1>5. ProcTypes'
  BY Ids DEF IInv, ProcTypes, Callers, TaskTypes, LoopTypes, LoadAdapter,
     Turn, Start, TakeHandle, Task, mailVars, procVars
<1>6. ActiveIs'
  BY Ids DEF IInv, ActiveIs, Answered, MailTypes, LoopTypes, TaskTypes,
     LoadAdapter, Turn, Start, TakeHandle, Task, mailVars, procVars
<1>7. Fresh'
  BY Ids DEF IInv, Fresh, LoopTypes, LoadAdapter, Turn, Start, TakeHandle,
     Task, mailVars, procVars
<1>8. Marks'
  BY Ids DEF IInv, Marks, ProcTypes, Callers, LoopTypes, LoadAdapter, Turn,
     Start, TakeHandle, Task, mailVars, procVars
<1>9. Tracks'
  BY Ids DEF IInv, Tracks, Tracked, ProcTypes, Callers, Marks, LoadAdapter,
     Turn, Start, TakeHandle, Task, mailVars, procVars
<1> QED
  BY <1>1, <1>2, <1>3, <1>4, <1>5, <1>6, <1>7, <1>8, <1>9 DEF IInv

LEMMA StartAdapterStep ==
  ASSUME IInv, StartAdapter
  PROVE  IInv'
<1>1. /\ MailTypes' /\ SetTypes' /\ Answered' /\ WorkedOn' /\ OneShutdown'
      /\ Drained' /\ Pinned'
  BY DEF IInv, MailTypes, SetTypes, Answered, WorkedOn, OneShutdown,
         Drained, Pinned, Published, Head, Shutting, StartAdapter, Turn, Start,
         Task, mailVars
<1>2. LoopTypes'
  BY Ids DEF IInv, LoopTypes, Awaiting, StartAdapter, Turn, Start, Task,
     mailVars
<1>3. TaskTypes'
  BY Ids DEF IInv, TaskTypes, MailTypes, LoopTypes, StartAdapter, Turn,
     Start, Task, mailVars
<1>4. Flags'
  BY Ids DEF IInv, Flags, StartAdapter, Turn, Start, Task, mailVars
<1>5. ProcTypes'
  BY Ids DEF IInv, ProcTypes, Callers, TaskTypes, LoopTypes, StartAdapter,
     Turn, Start, Task, mailVars
<1>6. ActiveIs'
  BY Ids DEF IInv, ActiveIs, Answered, MailTypes, LoopTypes, TaskTypes,
     StartAdapter, Turn, Start, Task, mailVars
<1>7. Fresh'
  BY Ids DEF IInv, Fresh, LoopTypes, StartAdapter, Turn, Start, Task,
     mailVars
<1>8. Marks'
  BY Ids DEF IInv, Marks, ProcTypes, Callers, LoopTypes, StartAdapter, Turn,
     Start, Task, mailVars
<1>9. Tracks'
  BY Ids DEF IInv, Tracks, Tracked, ProcTypes, Callers, Marks, StartAdapter,
     Turn, Start, Task, mailVars
<1> QED
  BY <1>1, <1>2, <1>3, <1>4, <1>5, <1>6, <1>7, <1>8, <1>9 DEF IInv

LEMMA TaskEndsStep ==
  ASSUME IInv, TaskEnds
  PROVE  IInv'
<1>1. /\ active \in Cmds
      /\ result' \in [Cmds -> Final \cup {"none", "accepted"}]
      /\ \A c \in Cmds : result'[c] = result[c] \/ (c = active /\ result'[c] \in Final)
      /\ \A c \in Cmds : result[c] # "none" => result'[c] # "none"
      /\ closing => result' = result
      /\ ~closing => result'[active] \in Final
  <2>1. active \in Cmds /\ (~closing => result[active] = "accepted")
    BY Ids DEF IInv, LoopTypes, TaskTypes, TaskEnds
  <2>2. PICK status \in {"completed", "failed"} :
          result' = IF closing THEN result ELSE Answer(active, status)
    BY DEF TaskEnds
  <2>3. CASE closing
    BY <2>1, <2>2, <2>3 DEF IInv, MailTypes
  <2>4. CASE ~closing
    <3>1. result' = Answer(active, status) /\ status \in Final
      BY <2>2, <2>4 DEF Final
    <3>2. result' \in [Cmds -> Final \cup {"none", "accepted"}]
      BY <2>1, <3>1, AnswerIs DEF IInv
    <3>3. \A c \in Cmds : result'[c] = IF c = active THEN status ELSE result[c]
      BY <2>1, <2>4, <3>1, AnswerIs DEF IInv
    <3> QED
      BY <2>1, <2>4, <3>1, <3>2, <3>3 DEF Final
  <2> QED
    BY <2>3, <2>4
<1>2. SetTypes' /\ Flags'
  BY DEF IInv, SetTypes, Flags, Published, TaskEnds, Turn, Answer, Task,
         mailVars
<1>3. MailTypes'
  BY <1>1, Ids DEF IInv, MailTypes, Final, Fresh, TaskEnds, Turn, Task,
     mailVars
<1>4. LoopTypes'
  BY <1>1, Ids DEF IInv, LoopTypes, Awaiting, TaskEnds, Turn, Task, mailVars
<1>5. TaskTypes'
  BY <1>1, Ids DEF IInv, TaskTypes, MailTypes, LoopTypes, Final, Fresh,
     TaskEnds, Turn, Task, mailVars
<1>6. ProcTypes'
  BY <1>1, Ids DEF IInv, ProcTypes, Callers, TaskEnds, Turn, Task, mailVars
<1>7. Answered'
  <2>1. UNCHANGED <<command, runs>> /\ command[active] # "none"
    BY <1>1, Ids DEF IInv, ActiveIs, TaskEnds, Task, mailVars
  <2> QED
    BY <1>1, <2>1 DEF IInv, Answered
<1>8. ActiveIs'
  BY <1>1, Ids DEF IInv, ActiveIs, Answered, MailTypes, LoopTypes,
     TaskTypes, Final, Fresh, TaskEnds, Turn, Task, mailVars
<1>9. Fresh'
  BY <1>1, Ids DEF IInv, Fresh, LoopTypes, TaskEnds, Turn, Task, mailVars
<1>10. WorkedOn'
  <2>1. UNCHANGED <<loop, todo>>
    BY DEF TaskEnds, Task
  <2>2. ASSUME NEW c \in Cmds, result'[c] = "accepted"
        PROVE  result[c] = "accepted"
    BY <1>1, <2>2 DEF Final
  <2>3. ASSUME NEW c \in Cmds, result'[c] = "accepted", c = active
        PROVE  active' = active
    BY <1>1, <2>3 DEF Final, TaskEnds
  <2> QED
    BY <2>1, <2>2, <2>3 DEF IInv, WorkedOn, Head, Shutting, Serving
<1>11. OneShutdown'
  BY <1>1, Ids DEF IInv, OneShutdown, Shutting, MailTypes, LoopTypes, Final,
     Fresh, TaskEnds, Turn, Task, mailVars
<1>12. Drained'
  BY <1>1, Ids DEF IInv, Drained, MailTypes, Final, Fresh, SetTypes,
     Published, TaskEnds, Turn, Task, mailVars
<1>13. Pinned'
  BY <1>1, Ids DEF IInv, Pinned, Head, LoopTypes, TaskEnds, Turn, Task,
     mailVars
<1>14. Marks'
  BY <1>1, Ids DEF IInv, Marks, ProcTypes, Callers, LoopTypes, TaskEnds,
     Turn, Task, mailVars
<1>15. Tracks'
  BY <1>1, Ids DEF IInv, Tracks, Tracked, ProcTypes, Callers, Marks,
     TaskEnds, Turn, Task, mailVars
<1> QED
  BY <1>2, <1>3, <1>4, <1>5, <1>6, <1>7, <1>8, <1>9, <1>10, <1>11, <1>12,
     <1>13, <1>14, <1>15 DEF IInv

LEMMA SettleStep ==
  ASSUME IInv, Settle
  PROVE  IInv'
<1>1. /\ MailTypes' /\ SetTypes' /\ TaskTypes' /\ Flags' /\ ProcTypes'
      /\ Answered' /\ ActiveIs' /\ WorkedOn' /\ OneShutdown' /\ Drained'
      /\ Pinned' /\ Tracks'
  BY DEF IInv, MailTypes, SetTypes, TaskTypes, Flags, ProcTypes,
         Answered, ActiveIs, WorkedOn, OneShutdown, Drained, Pinned, Tracks,
         Published, Head, Shutting, Tracked, Settle, Turn, Others, mailVars,
         loopVars, procVars
<1>2. LoopTypes'
  BY Ids DEF IInv, LoopTypes, Awaiting, Settle, Turn, Others, mailVars,
     loopVars, procVars
<1>3. Fresh'
  BY Ids DEF IInv, Fresh, LoopTypes, Awaiting, Settle, Turn, Others,
     mailVars, loopVars, procVars
<1>4. Marks'
  BY Ids DEF IInv, Marks, ProcTypes, Callers, LoopTypes, Settle, Turn,
     Others, mailVars, loopVars, procVars
<1> QED
  BY <1>1, <1>2, <1>3, <1>4 DEF IInv

LEMMA SettleAdapterStep ==
  ASSUME IInv, SettleAdapter
  PROVE  IInv'
<1>1. /\ MailTypes' /\ SetTypes' /\ Answered' /\ ActiveIs' /\ WorkedOn'
      /\ OneShutdown' /\ Drained' /\ Pinned'
  BY DEF IInv, MailTypes, SetTypes, Answered, ActiveIs, WorkedOn,
         OneShutdown, Drained, Pinned, Published, Head, Shutting,
         SettleAdapter, Turn, TakeHandle, Others, mailVars, loopVars
<1>2. LoopTypes'
  BY Ids DEF IInv, LoopTypes, Awaiting, SettleAdapter, Turn, TakeHandle,
     Others, mailVars, loopVars
<1>3. TaskTypes'
  BY Ids DEF IInv, TaskTypes, MailTypes, LoopTypes, SettleAdapter, Turn,
     TakeHandle, Others, mailVars, loopVars
<1>4. Flags'
  BY Ids DEF IInv, Flags, SettleAdapter, Turn, TakeHandle, Others, mailVars,
     loopVars
<1>5. ProcTypes'
  BY Ids DEF IInv, ProcTypes, Callers, SettleAdapter, Turn, TakeHandle,
     Others, mailVars, loopVars
<1>6. Fresh'
  BY Ids DEF IInv, Fresh, LoopTypes, SettleAdapter, Turn, TakeHandle,
     Others, mailVars, loopVars
<1>7. Marks'
  BY Ids DEF IInv, Marks, ProcTypes, Callers, LoopTypes, SettleAdapter,
     Turn, TakeHandle, Others, mailVars, loopVars
<1>8. Tracks'
  BY Ids DEF IInv, Tracks, Tracked, ProcTypes, Callers, Marks,
     SettleAdapter, Turn, TakeHandle, Others, mailVars, loopVars
<1> QED
  BY <1>1, <1>2, <1>3, <1>4, <1>5, <1>6, <1>7, <1>8 DEF IInv

LEMMA ExitStep ==
  ASSUME IInv, Exit
  PROVE  IInv'
<1>1. Answered'
  BY DEF IInv, Answered, Exit, Gone
<1>2. MailTypes'
  BY Ids DEF IInv, MailTypes, Exit, Gone
<1>3. SetTypes'
  BY Ids DEF IInv, SetTypes, Published, Exit, Gone
<1>4. LoopTypes'
  BY Ids DEF IInv, LoopTypes, Awaiting, Exit, Gone
<1>5. TaskTypes'
  BY Ids DEF IInv, TaskTypes, MailTypes, LoopTypes, Exit, Gone
<1>6. Flags'
  BY Ids DEF IInv, Flags, Exit, Gone
<1>7. ProcTypes'
  BY Ids DEF IInv, ProcTypes, Callers, Nothing, Exit, Gone
<1>8. ActiveIs'
  BY Ids DEF IInv, ActiveIs, Answered, MailTypes, LoopTypes, TaskTypes,
     Exit, Gone
<1>9. Fresh'
  BY Ids DEF IInv, Fresh, LoopTypes, Exit, Gone
<1>10. WorkedOn'
  BY Ids DEF IInv, WorkedOn, Head, Shutting, Serving, MailTypes, LoopTypes,
     Exit, Gone
<1>11. OneShutdown'
  BY Ids DEF IInv, OneShutdown, Shutting, MailTypes, LoopTypes, Exit, Gone
<1>12. Drained'
  BY Ids DEF IInv, Drained, MailTypes, Exit, Gone
<1>13. Pinned'
  BY Ids DEF IInv, Pinned, Head, LoopTypes, Exit, Gone
<1>14. Marks'
  BY Ids DEF IInv, Marks, ProcTypes, Callers, LoopTypes, Nothing, Exit, Gone
<1>15. Tracks'
  BY Ids DEF IInv, Tracks, Tracked, ProcTypes, Callers, Marks, Exit, Gone
<1> QED
  BY <1>1, <1>2, <1>3, <1>4, <1>5, <1>6, <1>7, <1>8, <1>9, <1>10, <1>11,
     <1>12, <1>13, <1>14, <1>15 DEF IInv

LEMMA KilledStep ==
  ASSUME IInv, Killed
  PROVE  IInv'
<1>1. Answered'
  BY DEF IInv, Answered, Killed, Gone
<1>2. MailTypes'
  BY Ids DEF IInv, MailTypes, Killed, Gone
<1>3. SetTypes'
  BY Ids DEF IInv, SetTypes, Published, Killed, Gone
<1>4. LoopTypes'
  BY Ids DEF IInv, LoopTypes, Awaiting, Killed, Gone
<1>5. TaskTypes'
  BY Ids DEF IInv, TaskTypes, MailTypes, LoopTypes, Killed, Gone
<1>6. Flags'
  BY Ids DEF IInv, Flags, Killed, Gone
<1>7. ProcTypes'
  BY Ids DEF IInv, ProcTypes, Callers, Nothing, Killed, Gone
<1>8. ActiveIs'
  BY Ids DEF IInv, ActiveIs, Answered, MailTypes, LoopTypes, TaskTypes,
     Killed, Gone
<1>9. Fresh'
  BY Ids DEF IInv, Fresh, LoopTypes, Killed, Gone
<1>10. WorkedOn'
  BY Ids DEF IInv, WorkedOn, Head, Shutting, Serving, MailTypes, LoopTypes,
     Killed, Gone
<1>11. OneShutdown'
  BY Ids DEF IInv, OneShutdown, Shutting, MailTypes, LoopTypes, Killed, Gone
<1>12. Drained'
  BY Ids DEF IInv, Drained, MailTypes, Killed, Gone
<1>13. Pinned'
  BY Ids DEF IInv, Pinned, Head, LoopTypes, Killed, Gone
<1>14. Marks'
  BY Ids DEF IInv, Marks, ProcTypes, Callers, LoopTypes, Nothing, Killed,
     Gone
<1>15. Tracks'
  BY Ids DEF IInv, Tracks, Tracked, ProcTypes, Callers, Marks, Killed, Gone
<1> QED
  BY <1>1, <1>2, <1>3, <1>4, <1>5, <1>6, <1>7, <1>8, <1>9, <1>10, <1>11,
     <1>12, <1>13, <1>14, <1>15 DEF IInv
-----------------------------------------------------------------------------
LEMMA InitInv == Init => IInv
<1> SUFFICES ASSUME Init PROVE IInv
  OBVIOUS
<1>1. MailTypes /\ SetTypes
  BY Ids DEF Init, MailTypes, SetTypes, Published
<1>2. LoopTypes
  BY Ids, CommandAssumption DEF Init, LoopTypes, CommandAssumption
<1>3. TaskTypes /\ Flags
  BY DEF Init, TaskTypes, Flags
<1>4. ProcTypes
  BY Ids DEF Init, ProcTypes, Callers, Nothing
<1>5. Answered /\ ActiveIs /\ Fresh
  BY DEF Init, Answered, ActiveIs, Fresh
<1>6. WorkedOn /\ OneShutdown /\ Drained /\ Pinned
  BY DEF Init, WorkedOn, Serving, OneShutdown, Shutting, Drained, Pinned
<1>7. Marks /\ Tracks
  BY DEF Init, Marks, Tracks, Nothing, Callers
<1> QED
  BY <1>1, <1>2, <1>3, <1>4, <1>5, <1>6, <1>7 DEF IInv

LEMMA StutterStep == ASSUME IInv, UNCHANGED vars PROVE IInv'
<1>1. MailTypes' /\ SetTypes' /\ LoopTypes' /\ TaskTypes'
  BY DEF IInv, vars, mailVars, loopVars, procVars, MailTypes, SetTypes, LoopTypes,
         TaskTypes, Published
<1>2. Flags' /\ ProcTypes'
  BY DEF IInv, vars, loopVars, procVars, Flags, ProcTypes
<1>3. Answered' /\ ActiveIs' /\ Fresh'
  BY DEF IInv, vars, mailVars, loopVars, procVars, Answered, ActiveIs, Fresh
<1>4. WorkedOn' /\ OneShutdown' /\ Drained' /\ Pinned'
  BY DEF IInv, vars, loopVars, WorkedOn, OneShutdown, Drained, Pinned, Head, Shutting
<1>5. Marks' /\ Tracks'
  BY DEF IInv, vars, loopVars, procVars, Marks, Tracks, Tracked
<1> QED
  BY <1>1, <1>2, <1>3, <1>4, <1>5 DEF IInv

LEMMA NextInv == IInv /\ [Next]_vars => IInv'
<1> SUFFICES ASSUME IInv, [Next]_vars PROVE IInv'
  OBVIOUS
<1>1. CASE UNCHANGED vars
  BY <1>1, StutterStep
<1>2. CASE \E p \in Publishers : Submit(p)
  BY <1>2, SubmitStep
<1>3. CASE Boot \/ BootPublish \/ BootCheck
  BY <1>3, BootStep, BootPublishStep, BootCheckStep
<1>4. CASE Serve
  <2>1. CASE ReadCommands \/ Expired \/ Stopped \/ Rest
    BY <2>1, ReadCommandsStep, ExpiredStep, StoppedStep, RestStep
  <2>2. ASSUME NEW c \in Cmds,
               Skip(c) \/ Assign(c) \/ RejectSteer(c) \/ TakeSteer(c)
        PROVE  IInv'
    BY <2>2, SkipStep, AssignStep, RejectSteerStep, TakeSteerStep
  <2>3. ASSUME NEW c \in Cmds,
               SteerReturns(c) \/ TakeShutdown(c) \/ CancelQueued(c) \/ FinishShutdown(c)
        PROVE  IInv'
    BY <2>3, SteerReturnsStep, TakeShutdownStep, CancelQueuedStep, FinishShutdownStep
  <2> QED
    BY <1>4, <2>1, <2>2, <2>3 DEF Serve
<1>5. CASE Execute \/ LoadAdapter \/ StartAdapter \/ TaskEnds
  BY <1>5, ExecuteStep, LoadAdapterStep, StartAdapterStep, TaskEndsStep
<1>6. CASE Settle \/ SettleAdapter \/ Exit \/ Killed
  BY <1>6, SettleStep, SettleAdapterStep, ExitStep, KilledStep
<1> QED
  BY <1>1, <1>2, <1>3, <1>4, <1>5, <1>6 DEF Next

THEOREM MailboxInvariant == Spec => []IInv
  BY InitInv, NextInv, PTL DEF Spec

-----------------------------------------------------------------------------
(* The states are well typed, and an active task was accepted and is not   *)
(* answered before a shutdown (TypeOK).                                    *)
THEOREM MailboxTypeCorrect == Spec => []TypeOK
<1>1. IInv => TypeOK
  BY DEF IInv, TypeOK, MailTypes, SetTypes, LoopTypes, TaskTypes, Flags, ProcTypes
<1> QED
  BY <1>1, MailboxInvariant, PTL

(* The handler of a steer command acts while the task it names is active,  *)
(* or none is.                                                             *)
THEOREM SteersThePinnedTask == Spec => []PinnedTask
<1>1. IInv => PinnedTask
  BY DEF IInv, Pinned, Head, PinnedTask, Handled
<1> QED
  BY <1>1, MailboxInvariant, PTL

(* After a shutdown command nothing that was published before the adapter  *)
(* had stopped is without a final answer.                                  *)
THEOREM ShutdownAnswersAll == Spec => ShutdownAnswers
<1>1. ASSUME IInv, [Next]_vars, loop = "drain", loop' = "returned", NEW c \in before
      PROVE  result'[c] \in Final
  <2>1. PICK s \in Cmds : FinishShutdown(s)
    BY <1>1 DEF Next, vars, loopVars, Serve, Submit, Submits, Boot, BootPublish, BootCheck,
         ReadCommands, Expired, Stopped, Rest, Skip, Assign, RejectSteer, TakeSteer,
         SteerReturns, Handled, TakeShutdown, CancelQueued, Visits, Execute, Awaiting,
         LoadAdapter, StartAdapter, TaskEnds, Turn, Settle, SettleAdapter, Exit, Gone, Killed
  <2>2. c \in Cmds /\ result[c] # "none"
    BY <1>1, <2>1 DEF IInv, SetTypes, Published, Drained, FinishShutdown
  <2>3. result[c] = "accepted" => c = s
    BY <1>1, <2>1, <2>2 DEF IInv, WorkedOn, Serving, OneShutdown, Shutting, FinishShutdown
  <2> QED
    BY <1>1, <2>1, <2>2, <2>3, AnswerIs DEF IInv, MailTypes, FinishShutdown, Final
<1>2. IInv /\ [Next]_vars =>
        [loop = "drain" /\ loop' = "returned" => \A c \in before : result'[c] \in Final]_vars
  BY <1>1
<1> QED
  BY <1>2, MailboxInvariant, PTL DEF Spec, ShutdownAnswers

(* Workers that shut down the adapter before they start another leave none *)
(* behind but one that the command loop was shutting down.                 *)
THEOREM NoAdapterIsLeft == ASSUME "session" \notin Kinds PROVE Spec => ExitLeavesNothing
<1>1. ASSUME IInv, [Next]_vars, loop # "down", loop' = "down"
      PROVE  adapters' \subseteq {shut["loop"], shut["task"]}
  <2>1. Exit \/ Killed
    BY <1>1 DEF Next, vars, loopVars, Serve, Submit, Submits, Boot, BootPublish, BootCheck,
         ReadCommands, Expired, Stopped, Rest, Skip, Assign, RejectSteer, TakeSteer,
         SteerReturns, TakeShutdown, CancelQueued, FinishShutdown, Execute, Task,
         LoadAdapter, StartAdapter, TaskEnds, Settle, SettleAdapter
  <2>2. adapters \subseteq {pid, shut["loop"], shut["task"], shut["settle"]}
    BY <1>1 DEF IInv, Tracks, Tracked, ProcTypes
  <2> QED
    BY <2>1, <2>2 DEF Exit, Killed
<1>2. IInv /\ [Next]_vars =>
        [loop # "down" /\ loop' = "down" =>
           adapters' \subseteq {shut["loop"], shut["task"]}]_vars
  BY <1>1
<1> QED
  BY <1>2, MailboxInvariant, PTL DEF Spec, ExitLeavesNothing

-----------------------------------------------------------------------------
(* The mailbox and its worker implement CommandContract.                   *)

LEMMA PublishRefines ==
  ASSUME MailTypes, NEW p \in Publishers \cup {Self}, PublishId(p),
         UNCHANGED <<result, runs>>
  PROVE  [Contract!Next]_(Contract!vars)
<1> DEFINE c == pub[p]
<1>1. c \in Cmds
  BY Ids DEF MailTypes, PublishId
<1>2. CASE command[c] = "none"
  <2>1. Contract!Publish(c)
    BY <1>2 DEF PublishId, Contract!Publish
  <2> QED
    BY <1>1, <2>1 DEF Contract!Next
<1>3. CASE command[c] # "none"
  <2>1. command' = command
    BY <1>1, <1>3 DEF MailTypes, PublishId
  <2> QED
    BY <2>1 DEF Contract!vars
<1> QED
  BY <1>2, <1>3

LEMMA ConcludeRefines ==
  ASSUME MailTypes, NEW c \in Cmds, command[c] # "none", NEW status \in Final,
         result' = Answer(c, status), UNCHANGED <<command, runs>>
  PROVE  [Contract!Next]_(Contract!vars)
<1>1. CASE result[c] \in Final
  BY <1>1 DEF Answer, Final, Contract!vars
<1>2. CASE result[c] \notin Final
  <2>1. result' = [result EXCEPT ![c] = status]
    BY <1>2 DEF MailTypes, Answer
  <2>2. Contract!Conclude(c)
    BY <1>2, <2>1 DEF Contract!Conclude, Contract!Final, Final
  <2> QED
    BY <2>2 DEF Contract!Next
<1> QED
  BY <1>1, <1>2

LEMMA AcceptRefines ==
  ASSUME MailTypes, NEW c \in Cmds, command[c] # "none", result[c] = "none",
         result' = Answer(c, "accepted"), UNCHANGED <<command, runs>>
  PROVE  [Contract!Next]_(Contract!vars)
<1>1. Contract!Accept(c)
  BY DEF Answer, Contract!Accept
<1> QED
  BY <1>1 DEF Contract!Next

LEMMA ContractStep ==
  ASSUME IInv, [Next]_vars PROVE [Contract!Next]_(Contract!vars)
<1> DEFINE Same == UNCHANGED <<command, result, runs>>
           Refined == [Contract!Next]_(Contract!vars)
<1>0. MailTypes /\ (Same => Refined)
  BY DEF IInv, Contract!vars
<1>1. CASE \E p \in Publishers : Submit(p)
  <2> SUFFICES ASSUME NEW p \in Publishers, Submit(p) PROVE Refined
    BY <1>1
  <2>1. PublishId(p) \/ command' = command
    BY DEF Submit, Submits, LockId, PublisherDies
  <2> QED
    BY <1>0, <2>1, PublishRefines DEF Submit
<1>2. CASE BootPublish
  <2>1. PublishId(Self) \/ command' = command
    BY <1>2 DEF BootPublish, LockId, mailVars
  <2> QED
    BY <1>0, <1>2, <2>1, PublishRefines DEF BootPublish
<1>3. CASE \/ Boot \/ BootCheck \/ ReadCommands \/ Expired \/ Rest
           \/ \E c \in Cmds : Skip(c)
  BY <1>0, <1>3 DEF Boot, BootCheck, ReadCommands, Expired, Rest, Skip, Loop, mailVars
<1>4. CASE Stopped
  <2>1. UNCHANGED <<command, runs>>
    BY <1>4 DEF Stopped, Loop, mailVars
  <2>2. CASE active = 0
    BY <1>0, <1>4, <2>1, <2>2 DEF Stopped
  <2>3. CASE active # 0
    <3>1. active \in Cmds /\ command[active] # "none"
      BY <2>3, Ids DEF IInv, LoopTypes, ActiveIs
    <3> QED
      BY <1>0, <1>4, <2>1, <2>3, <3>1, ConcludeRefines DEF Stopped, Final
  <2> QED
    BY <2>2, <2>3
<1>5. ASSUME NEW c \in Cmds, Assign(c) \/ TakeSteer(c) \/ TakeShutdown(c) PROVE Refined
  <2>1. command[c] # "none" /\ result[c] = "none"
    BY <1>5 DEF IInv, SetTypes, Published, Assign, TakeSteer, TakeShutdown, Visits
  <2>2. result' = Answer(c, "accepted") /\ UNCHANGED <<command, runs>>
    BY <1>5 DEF Assign, TakeSteer, TakeShutdown, Loop, mailVars
  <2> QED
    BY <1>0, <2>1, <2>2, AcceptRefines
<1>6. ASSUME NEW c \in Cmds, RejectSteer(c) \/ SteerReturns(c) PROVE Refined
  <2>1. command[c] # "none" /\ UNCHANGED <<command, runs>>
    BY <1>6 DEF IInv, SetTypes, Published, RejectSteer, SteerReturns, Visits, Handled,
       Loop, mailVars
  <2>2. PICK status \in Final : result' = Answer(c, status)
    BY <1>6 DEF RejectSteer, SteerReturns, Final
  <2> QED
    BY <1>0, <2>1, <2>2, ConcludeRefines
<1>7. ASSUME NEW c \in Cmds, CancelQueued(c) PROVE Refined
  <2>1. command[c] # "none" /\ UNCHANGED <<command, runs>>
    BY <1>7 DEF IInv, SetTypes, Published, CancelQueued, Loop, mailVars
  <2>2. result' = result \/ result' = Answer(c, "cancelled")
    BY <1>7 DEF CancelQueued
  <2> QED
    BY <1>0, <2>1, <2>2, ConcludeRefines DEF Final
<1>8. ASSUME NEW c \in Cmds, FinishShutdown(c) PROVE Refined
  <2>1. command[c] # "none" /\ UNCHANGED <<command, runs>>
    BY <1>8 DEF IInv, Answered, FinishShutdown, Loop, mailVars
  <2>2. result' = Answer(c, "completed")
    BY <1>8 DEF FinishShutdown
  <2> QED
    BY <1>0, <2>1, <2>2, ConcludeRefines DEF Final
<1>9. CASE Execute
  <2>1. active \in Cmds /\ result[active] = "accepted" /\ runs[active] = 0
    BY <1>9, Ids DEF IInv, LoopTypes, TaskTypes, ActiveIs, Execute
  <2>2. Contract!Run(active)
    BY <1>0, <1>9, <2>1 DEF MailTypes, Execute, Task, mailVars, Contract!Run
  <2> QED
    BY <2>1, <2>2 DEF Contract!Next
<1>10. CASE LoadAdapter \/ StartAdapter
  BY <1>0, <1>10 DEF LoadAdapter, StartAdapter, Task, mailVars
<1>11. CASE TaskEnds
  <2>1. UNCHANGED <<command, runs>> /\ active \in Cmds /\ command[active] # "none"
    BY <1>11, Ids DEF IInv, LoopTypes, TaskTypes, ActiveIs, TaskEnds, Task, mailVars
  <2>2. PICK status \in Final :
          result' = IF closing THEN result ELSE Answer(active, status)
    BY <1>11 DEF TaskEnds, Final
  <2>3. result' = result \/ result' = Answer(active, status)
    BY <2>2
  <2> QED
    BY <1>0, <2>1, <2>3, ConcludeRefines
<1>12. CASE Settle \/ SettleAdapter \/ Exit \/ Killed
  BY <1>0, <1>12 DEF Settle, SettleAdapter, Exit, Killed, Gone, Others, mailVars
<1>13. CASE UNCHANGED vars
  BY <1>0, <1>13 DEF vars, mailVars
<1> QED
  BY <1>1, <1>2, <1>3, <1>4, <1>5, <1>6, <1>7, <1>8, <1>9, <1>10, <1>11, <1>12, <1>13
  DEF Next, Serve

(* Whatever the publishers do and whenever a supervisor is killed: what    *)
(* was published under an id stays, it is run at most once and after its   *)
(* acceptance, and its answer is final.                                    *)
THEOREM MailboxKeepsContract == Spec => KeepsContract
<1>1. Init => Contract!Init
  BY DEF Init, Contract!Init
<1>2. IInv /\ [Next]_vars => [Contract!Next]_(Contract!vars)
  BY ContractStep
<1> QED
  BY <1>1, <1>2, MailboxInvariant, PTL DEF Spec, KeepsContract, Contract!Spec
-----------------------------------------------------------------------------
(***************************************************************************)
(* The plan of a project.                                                  *)
(***************************************************************************)
(* Who is where: under the lock, at a swap, at a transaction.              *)
AtSwap    == {"read", "check", "swap", "confirm"}
AtTxn     == {"stage", "move", "install", "validate", "close", "undo"}
AtPair    == {"recover", "restore", "sweep", "open"} \cup AtTxn
Ending    == {"release", "unlock"}
InLock    == AtSwap \cup AtPair \cup Ending
Places    == InLock \cup {"start", "acquire", "fill", "verify", "judge",
                          "recheck", "unlink", "reread", "done", "dead"}
Owns(p)   == pc[p] \in AtTxn /\ ~(pc[p] = "validate" /\ Kind(p) = "check")

PlanTypeOK ==
  /\ scene \in [kind : [Procs -> Commands],
                arg : [Procs -> DOMAIN TextOf \cup Stories \cup {None}],
                after : [Procs -> SUBSET Procs], start : Pairs,
                deaths : Nat, faults : Nat]
  /\ lock \in Locks \cup {None} /\ aged \in BOOLEAN
  /\ judged \in [Procs -> {None, "same", "changed"}] /\ tries \in [Procs -> {0, 1}]
  /\ file \in Pairs /\ txn \in [Procs -> Txns \cup {None}]
  /\ pc \in [Procs -> Places] /\ part \in [Procs -> {"write", "set"}]
  /\ got \in [Procs -> Prds \cup {None}] /\ cur = [p \in Procs |-> cur[p]]
  /\ told \in [Procs -> {"no", "ok", "again", "refused"}]
  /\ dead \in SUBSET Procs /\ served \in SUBSET Procs

(* The lock.                                                               *)
HolderLocked(p) ==
  /\ pc[p] \in InLock => Holds(p) /\ lock.written
  /\ pc[p] = "verify" /\ Holds(p) => lock.written
  /\ pc[p] \in {"recheck", "unlink"} => judged[p] # None
  /\ judged[p] = "same" => Stale
  /\ p \in dead => pc[p] = "dead"

(* What a command is at, and what it is told.                              *)
CommandOK(p) ==
  /\ Kind(p) \in {"plan", "trivial"} => Arg(p) \in DOMAIN TextOf
  /\ Kind(p) = "pass" => Arg(p) \in Stories
  /\ Kind(p) \in {"plan", "check"} => part[p] = "write"
  /\ Kind(p) \in {"enrich", "pass", "rollback", "idle"} => part[p] = "set"
  /\ pc[p] \notin {"start", "dead"} => Kind(p) # "idle"
  /\ part[p] = "write" => got[p] = None
  /\ pc[p] \in AtPair => part[p] = "write"
  /\ pc[p] \in AtSwap => part[p] = "set"
  /\ pc[p] = "open" \/ Owns(p) => Kind(p) # "check"
  /\ pc[p] = "reread" => Kind(p) = "trivial"
  /\ pc[p] \notin {"release", "unlock", "done"} => told[p] = "no"
  /\ told[p] = "no" /\ pc[p] \in Ending => Kind(p) = "trivial"
  /\ told[p] = "ok" => p \in served
  /\ pc[p] = "confirm" => p \in served
  /\ pc[p] \in {"validate", "close"} /\ Kind(p) = "plan" => p \in served
  /\ told[p] = "again" \/ (told[p] = "no" /\ pc[p] \in Ending) => p \notin served
  /\ p \in served => \/ pc[p] \in {"confirm", "release", "unlock", "done"}
                     \/ /\ Kind(p) = "plan" /\ Owns(p)
                        /\ txn[p] # None /\ txn[p].staged["prd"] = "gone"
  /\ pc[p] \in {"check", "swap"} =>
       /\ cur[p] = file["prd"] /\ cur[p] = got[p]
       /\ Valid(p, cur[p]) /\ Valid(p, Changed(p, cur[p]))

(* What recovery reads in the files f of the transaction t.                *)
ClassIn(f, i, t) ==
  IF f[i] = None THEN "missing"
  ELSE IF f[i] = t.next[i] THEN IF t.init[i] = t.next[i] THEN "same" ELSE "next"
  ELSE IF f[i] = t.init[i] THEN "initial" ELSE "unknown"
DisplacedIn(f, i, t) ==
  ClassIn(f, i, t) = "next" \/ (ClassIn(f, i, t) = "missing" /\ t.init[i] # None)
CommittedIn(f, t) == \A i \in Names : ClassIn(f, i, t) \in {"next", "same"}
ReadableIn(f, t) ==
  \/ t.manifest = "no"
  \/ /\ t.manifest = "whole"
     /\ \A i \in Names :
          /\ ClassIn(f, i, t) # "unknown" /\ t.staged[i] # "part"
          /\ ~(t.backup[i] /\ ClassIn(f, i, t) = "initial")
          /\ ~CommittedIn(f, t) /\ t.init[i] # None /\ DisplacedIn(f, i, t)
               => t.backup[i]
SettledIn(f, i, t) ==
  IF /\ t.manifest = "whole" /\ ReadableIn(f, t) /\ ~CommittedIn(f, t)
     /\ DisplacedIn(f, i, t)
  THEN t.init[i] ELSE f[i]

(* The files f and the transaction t that is open.                         *)
Old(f, i, t)  == f[i] = t.init[i] /\ ~t.backup[i]
Away(f, i, t) == f[i] = None /\ (t.backup[i] <=> t.init[i] # None)
New(f, i, t)  == f[i] = t.next[i] /\ (t.backup[i] <=> t.init[i] # None)
Kept(d, t) ==
  \/ d = t.init["prd"]
  \/ /\ d # None /\ d.assigned # None
     /\ t.init["prd"] # None /\ d.plan = t.init["prd"].plan

SpecPlace(f, t) == Old(f, "spec", t) \/ Away(f, "spec", t) \/ New(f, "spec", t)
PrdPlace(f, t) ==
  \/ /\ t.staged["prd"] # "gone"
     /\ \/ Kept(f["prd"], t) /\ ~t.backup["prd"]
        \/ Away(f, "prd", t)
  \/ /\ t.staged["prd"] = "gone" /\ t.staged["spec"] = "gone" /\ New(f, "spec", t)
     /\ t.backup["prd"] <=> t.init["prd"] # None
     /\ \/ f["prd"] = t.next["prd"]
        \/ f["prd"] # None /\ f["prd"].assigned # None
TxnOK(f, t) ==
  /\ \E n \in DOMAIN TextOf : t.next = [spec |-> TextOf[n], prd |-> Prd(n)]
  /\ Whole(t.init)
  /\ SpecPlace(f, t) /\ PrdPlace(f, t)
  /\ (t.manifest # "whole" \/ \E i \in Names : t.staged[i] = "part") =>
       /\ Old(f, "spec", t) /\ Kept(f["prd"], t) /\ ~t.backup["prd"]
       /\ \A i \in Names : t.staged[i] # "gone"
  /\ t.manifest # "whole" => \A i \in Names : t.staged[i] = "no"

TxnsOK ==
  /\ \A q, r \in OpenTxns : q = r
  /\ OpenTxns = {} => Whole(file)
  /\ \A q \in OpenTxns : Kind(q) # "check"
  /\ \A q \in OpenTxns : TxnOK(file, txn[q])

(* The command at a transaction of its own knows where it is with it.      *)
OwnerOK(p, t) ==
  /\ t.next = Content(p)
  /\ pc[p] = "stage" =>
       /\ Old(file, "spec", t) /\ Old(file, "prd", t)
       /\ \A i \in Names : t.staged[i] # "gone"
  /\ pc[p] \in {"move", "install", "validate", "close"} => t.manifest = "whole"
  /\ pc[p] = "move" =>
       \A i \in Names : t.staged[i] = "whole" /\ (Old(file, i, t) \/ Away(file, i, t))
  /\ pc[p] = "install" =>
       /\ t.staged["prd"] = "whole" /\ Away(file, "prd", t)
       /\ \/ t.staged["spec"] = "whole" /\ Away(file, "spec", t)
          \/ t.staged["spec"] = "gone" /\ New(file, "spec", t)
  /\ pc[p] \in {"validate", "close"} =>
       \A i \in Names : t.staged[i] = "gone" /\ New(file, i, t)
  /\ pc[p] = "undo" =>
       /\ \A i \in Names :
            /\ t.staged[i] # "part"
            /\ IF t.staged[i] = "gone" THEN New(file, i, t)
               ELSE Old(file, i, t) \/ Away(file, i, t)

(* A command that recovers the transaction t.                              *)
RecoverOK(p) ==
  /\ pc[p] \in {"restore", "sweep"} =>
       cur[p] \in Procs /\ txn[cur[p]] # None /\ txn[cur[p]].manifest = "whole"
  /\ pc[p] = "restore" =>
       ReadableIn(file, txn[cur[p]]) /\ txn[cur[p]].staged["prd"] # "gone"
  /\ pc[p] = "sweep" =>
       \/ CommittedIn(file, txn[cur[p]])
       \/ /\ ReadableIn(file, txn[cur[p]])
          /\ \A i \in Names : ~DisplacedIn(file, i, txn[cur[p]])

AtWork(p) ==
  /\ pc[p] = "open" => OpenTxns = {}
  /\ Owns(p) => txn[p] # None /\ OwnerOK(p, txn[p])
  /\ RecoverOK(p)

PairInv ==
  /\ PlanTypeOK
  /\ \A p \in Procs : HolderLocked(p)
  /\ \A p \in Procs : CommandOK(p)
  /\ TxnsOK
  /\ \A p \in Procs : AtWork(p)

PairKept == stolen \/ PairInv
-----------------------------------------------------------------------------
(* What recovery reads.                                                    *)

LEMMA NextPlan ==
  ASSUME NEW n \in DOMAIN TextOf
  PROVE  /\ [spec |-> TextOf[n], prd |-> Prd(n)] \in Pairs
         /\ Whole([spec |-> TextOf[n], prd |-> Prd(n)])
         /\ TextOf[n] # None /\ Prd(n) # None /\ Prd(n) \in Prds
         /\ Prd(n).assigned = None /\ Prd(n).plan = n
<1>1. Prd(n) \in Prds BY DEF Prd, Prds
<1>2. Prd(n) # None BY <1>1, NoneAssumption
<1>3. QED BY <1>1, <1>2, NoneAssumption DEF Prd, Pairs, Texts, Whole

LEMMA Classes ==
  ASSUME NEW f, NEW t, NEW i
  PROVE  /\ f[i] = None <=> ClassIn(f, i, t) = "missing"
         /\ f[i] # None /\ f[i] = t.next[i] =>
              ClassIn(f, i, t) = IF t.init[i] = t.next[i] THEN "same" ELSE "next"
         /\ f[i] # None /\ f[i] # t.next[i] =>
              ClassIn(f, i, t) = IF f[i] = t.init[i] THEN "initial" ELSE "unknown"
BY DEF ClassIn

LEMMA SettledAsIs ==
  ASSUME NEW f \in Pairs, NEW t \in Txns,
         t.next["spec"] # None /\ t.next["prd"] # None,
         \/ t.manifest # "whole"
         \/ \A i \in Names : f[i] = t.init[i]
         \/ \A i \in Names : f[i] = t.next[i]
  PROVE  \A i \in Names : SettledIn(f, i, t) = f[i]
<1>1. CASE t.manifest # "whole" BY <1>1 DEF SettledIn
<1>2. CASE \A i \in Names : f[i] = t.init[i]
  <2>1. \A i \in Names : SettledIn(f, i, t) \in {t.init[i], f[i]} BY DEF SettledIn
  <2>2. QED BY <1>2, <2>1
<1>3. CASE \A i \in Names : f[i] = t.next[i]
  <2>1. \A i \in Names : ClassIn(f, i, t) \in {"same", "next"}
    BY <1>3, Classes DEF Names
  <2>2. QED BY <2>1 DEF SettledIn, CommittedIn
<1>4. QED BY <1>1, <1>2, <1>3

LEMMA SamePlan ==
  ASSUME NEW t \in Txns, Whole(t.init), NEW n \in DOMAIN TextOf,
         t.next = [spec |-> TextOf[n], prd |-> Prd(n)],
         t.init["prd"] = t.next["prd"]
  PROVE  t.init["spec"] = t.next["spec"]
BY NextPlan DEF Whole

LEMMA PlacedReadable ==
  ASSUME NEW f \in Pairs, NEW t \in Txns, t.next["spec"] # None, t.next["prd"] # None,
         t.manifest = "whole", \A i \in Names : t.staged[i] # "part",
         \A i \in Names : Old(f, i, t) \/ Away(f, i, t) \/ New(f, i, t)
  PROVE  ReadableIn(f, t)
<1>1. ASSUME NEW j \in Names
      PROVE  /\ ClassIn(f, j, t) # "unknown"
             /\ ~(t.backup[j] /\ ClassIn(f, j, t) = "initial")
             /\ t.init[j] # None /\ DisplacedIn(f, j, t) => t.backup[j]
  <2>1. t.next[j] # None BY DEF Names
  <2>2. CASE Old(f, j, t) BY <2>1, <2>2, Classes DEF Old, DisplacedIn
  <2>3. CASE Away(f, j, t) BY <2>1, <2>3, Classes DEF Away, DisplacedIn
  <2>4. CASE New(f, j, t) BY <2>1, <2>4, Classes DEF New, DisplacedIn
  <2>5. QED BY <2>2, <2>3, <2>4
<1>2. QED BY <1>1 DEF ReadableIn

(* While prd.json is the old one or away, the old pair is what counts.     *)
LEMMA SettledOld ==
  ASSUME NEW f \in Pairs, NEW t \in Txns, Whole(t.init), NEW n \in DOMAIN TextOf,
         t.next = [spec |-> TextOf[n], prd |-> Prd(n)],
         t.manifest = "whole", \A i \in Names : t.staged[i] # "part",
         SpecPlace(f, t), Old(f, "prd", t) \/ Away(f, "prd", t)
  PROVE  \A i \in Names : SettledIn(f, i, t) = t.init[i]
<1> SUFFICES ASSUME NEW i \in Names PROVE SettledIn(f, i, t) = t.init[i]
  OBVIOUS
<1>0. t.next["spec"] # None /\ t.next["prd"] # None BY NextPlan
<1>1. CASE CommittedIn(f, t)
  <2>1. f["prd"] = t.init["prd"] /\ f["prd"] = t.next["prd"]
    BY <1>1, <1>0 DEF CommittedIn, ClassIn, Names, Old, Away
  <2>2. t.init["spec"] = t.next["spec"] BY <2>1, SamePlan
  <2>3. f["spec"] = t.init["spec"]
    BY <1>1, <2>2 DEF CommittedIn, ClassIn, Names
  <2>4. QED BY <2>1, <2>3 DEF SettledIn, Names
<1>2. CASE ~CommittedIn(f, t)
  <2>1. ReadableIn(f, t)
    BY <1>0, PlacedReadable DEF Names, SpecPlace
  <2>2. ~DisplacedIn(f, i, t) => f[i] = t.init[i]
    BY <1>0 DEF DisplacedIn, ClassIn, Names, SpecPlace, Old, Away, New
  <2>3. QED BY <1>2, <2>1, <2>2 DEF SettledIn
<1>3. QED BY <1>1, <1>2

(* A prd.json that is there is the one that counts.                        *)
LEMMA SettledPrd ==
  ASSUME NEW f \in Pairs, NEW t \in Txns, TxnOK(f, t), f["prd"] # None
  PROVE  SettledIn(f, "prd", t) = f["prd"]
<1>1. PICK n \in DOMAIN TextOf : t.next = [spec |-> TextOf[n], prd |-> Prd(n)]
  BY DEF TxnOK
<1>2. t.next["spec"] # None /\ t.next["prd"] # None /\ t.next["prd"].assigned = None
  BY <1>1, NextPlan
<1>3. SUFFICES ASSUME DisplacedIn(f, "prd", t) PROVE CommittedIn(f, t)
  BY DEF SettledIn
<1>4. f["prd"] = t.next["prd"] /\ t.init["prd"] # t.next["prd"]
  BY <1>3 DEF DisplacedIn, ClassIn
<1>5. f["spec"] = t.next["spec"]
  <2>1. PrdPlace(f, t) BY DEF TxnOK
  <2>2. ~Kept(f["prd"], t) BY <1>4, <1>2 DEF Kept
  <2>3. ~Away(f, "prd", t) BY DEF Away
  <2>4. New(f, "spec", t) BY <2>1, <2>2, <2>3 DEF PrdPlace
  <2>5. QED BY <2>4 DEF New
<1>6. QED BY <1>2, <1>4, <1>5, Classes DEF CommittedIn, Names

(* A setter changes prd.json and, unless the transaction was torn, nothing *)
(* else.                                                                   *)
LEMMA SettledSet ==
  ASSUME NEW f \in Pairs, NEW t \in Txns, TxnOK(f, t), f["prd"] # None,
         NEW d \in Prds, d.assigned # None,
         ~DisplacedIn(f, "spec", t) \/ CommittedIn(f, t)
  PROVE  LET g == [f EXCEPT !["prd"] = d]
         IN  /\ SettledIn(f, "spec", t) = f["spec"]
             /\ SettledIn(g, "spec", t) = f["spec"]
             /\ SettledIn(g, "prd", t) = d
<1> DEFINE g == [f EXCEPT !["prd"] = d]
<1>1. PICK n \in DOMAIN TextOf : t.next = [spec |-> TextOf[n], prd |-> Prd(n)]
  BY DEF TxnOK
<1>2. t.next["spec"] # None /\ t.next["prd"] # None /\ t.next["prd"].assigned = None
  BY <1>1, NextPlan
<1>3. d # None BY NoneAssumption
<1>4. g["spec"] = f["spec"] /\ g["prd"] = d BY DEF Pairs
<1>5. SettledIn(f, "spec", t) = f["spec"] BY DEF SettledIn
<1>6. ClassIn(g, "prd", t) \in {"initial", "unknown"}
  BY <1>2, <1>3, <1>4 DEF ClassIn
<1>7. SettledIn(g, "prd", t) = d
  BY <1>4, <1>6 DEF SettledIn, DisplacedIn
<1>8. SettledIn(g, "spec", t) = f["spec"]
  <2>1. CASE ~DisplacedIn(f, "spec", t)
    BY <1>4, <2>1 DEF SettledIn, DisplacedIn, ClassIn
  <2>2. CASE DisplacedIn(f, "spec", t) /\ CommittedIn(f, t)
    <3>1. f["prd"] = t.next["prd"] /\ f["spec"] = t.next["spec"]
      BY <2>2 DEF CommittedIn, ClassIn, Names
    <3>2. t.init["spec"] # t.next["spec"]
      BY <2>2, <3>1, <1>2 DEF DisplacedIn, ClassIn
    <3>3. t.init["prd"] # t.next["prd"] BY <1>1, <3>2, SamePlan DEF TxnOK
    <3>4. t.backup["prd"] <=> t.init["prd"] # None
      BY <3>1, <3>3, <1>2 DEF TxnOK, PrdPlace, Kept, Away
    <3>5. ClassIn(g, "prd", t) = "initial" => t.backup["prd"]
      BY <1>3, <1>4, <3>4, <1>6 DEF ClassIn
    <3>6. t.manifest = "whole" => ~ReadableIn(g, t)
      BY <1>6, <3>5 DEF ReadableIn, Names
    <3>7. QED BY <1>4, <3>6 DEF SettledIn
  <2>3. QED BY <2>1, <2>2
<1>9. QED BY <1>5, <1>7, <1>8
-----------------------------------------------------------------------------
(* The state, in those terms.                                              *)

LEMMA AsIn ==
  ASSUME NEW t
  PROVE  /\ \A i : Class(i, t) = ClassIn(file, i, t)
         /\ \A i : Displaced(i, t) = DisplacedIn(file, i, t)
         /\ Committed(t) = CommittedIn(file, t)
         /\ Readable(t) = ReadableIn(file, t)
<1>1. \A j : Class(j, t) = ClassIn(file, j, t) BY DEF Class, ClassIn
<1>2. \A j : Displaced(j, t) = DisplacedIn(file, j, t)
  BY DEF Displaced, DisplacedIn, Class, ClassIn
<1>3. Committed(t) = CommittedIn(file, t)
  BY DEF Committed, CommittedIn, Class, ClassIn
<1>4. Readable(t) = ReadableIn(file, t)
  BY DEF Readable, ReadableIn, Committed, CommittedIn, Displaced, DisplacedIn, Class, ClassIn
<1>5. QED BY <1>1, <1>2, <1>3, <1>4

LEMMA SettledNone ==
  ASSUME OpenTxns = {}
  PROVE  \A i : Settled(i) = file[i]
BY DEF Settled

LEMMA SettledOne ==
  ASSUME NEW q \in OpenTxns, \A r \in OpenTxns : r = q
  PROVE  \A i : Settled(i) = SettledIn(file, i, txn[q])
<1>1. (CHOOSE r \in OpenTxns : TRUE) = q OBVIOUS
<1>2. QED BY <1>1, AsIn DEF Settled, SettledIn

LEMMA SettledNoneNext ==
  ASSUME OpenTxns' = {}
  PROVE  \A i : Settled(i)' = file'[i]
BY DEF Settled

LEMMA SettledOneNext ==
  ASSUME NEW q, q \in OpenTxns', \A r \in OpenTxns' : r = q
  PROVE  \A i : Settled(i)' = SettledIn(file', i, txn'[q])
<1>1. (CHOOSE r \in OpenTxns' : TRUE) = q OBVIOUS
<1>2. QED BY <1>1 DEF Settled, SettledIn, Readable, ReadableIn, Committed, CommittedIn,
                      Displaced, DisplacedIn, Class, ClassIn
-----------------------------------------------------------------------------
(* Types.                                                                  *)

LEMMA Changes ==
  ASSUME PlanTypeOK, NEW p \in Procs, CommandOK(p),
         Kind(p) \in {"trivial", "enrich", "pass", "rollback"},
         NEW d \in Prds, Valid(p, d)
  PROVE  /\ Changed(p, d) \in Prds /\ Changed(p, d).assigned # None
         /\ Changed(p, d).plan = d.plan
<1>1. d = [plan |-> d.plan, assigned |-> d.assigned, passed |-> d.passed]
      /\ d.plan \in DOMAIN TextOf /\ d.passed \subseteq Stories
      /\ d.assigned \in DOMAIN TextOf \cup Procs \cup {None}
  BY DEF Prds
<1>2. CASE Kind(p) \in {"enrich", "trivial"}
  <2>1. Changed(p, d) = [d EXCEPT !.assigned = Assignment(p)]
    BY <1>2 DEF Changed
  <2>2. Assignment(p) \in DOMAIN TextOf \cup Procs /\ Assignment(p) # None
    BY <1>2, NoneAssumption DEF Assignment, CommandOK
  <2>3. QED BY <1>1, <2>1, <2>2 DEF Prds
<1>3. CASE Kind(p) = "pass"
  <2>1. Changed(p, d) = [d EXCEPT !.passed = d.passed \cup {Arg(p)}]
    BY <1>3 DEF Changed
  <2>2. Arg(p) \in Stories BY <1>3 DEF CommandOK
  <2>3. d.assigned # None BY <1>3 DEF Valid, IsExecution
  <2>4. QED BY <1>1, <2>1, <2>2, <2>3 DEF Prds
<1>4. CASE Kind(p) = "rollback"
  <2>1. Changed(p, d) = [d EXCEPT !.passed = d.passed \ Dependents(d.passed)]
    BY <1>4 DEF Changed
  <2>2. d.assigned # None BY <1>4 DEF Valid, IsExecution
  <2>3. QED BY <1>1, <2>1, <2>2 DEF Prds
<1>5. QED BY <1>2, <1>3, <1>4

LEMMA LockTypes ==
  ASSUME PlanTypeOK, NEW p \in Procs, Lock(p) \/ LockAges
  PROVE  PlanTypeOK'
<1> USE DEF Goto, Stop, Leave, Forget, PutLock, Holds, lockVars, pairVars, mine, history,
            Another, Locks, Places, AtSwap, AtPair, AtTxn, InLock, Ending
<1>1. CASE CreateLock(p)  BY <1>1 DEF CreateLock, PlanTypeOK
<1>2. CASE FillLock(p)
  <2>1. lock' \in Locks \cup {None}
    <3>1. CASE Holds(p)
      <4>1. lock \in [by : Procs, written : BOOLEAN] BY <3>1 DEF PlanTypeOK
      <4>2. [lock EXCEPT !.written = TRUE] \in [by : Procs, written : BOOLEAN] BY <4>1
      <4>3. QED BY <1>2, <3>1, <4>2 DEF FillLock
    <3>2. QED BY <1>2, <3>1 DEF FillLock, PlanTypeOK
  <2>2. judged' \in [Procs -> {None, "same", "changed"}]
    BY <1>2 DEF FillLock, PlanTypeOK
  <2>3. QED BY <1>2, <2>1, <2>2 DEF FillLock, PlanTypeOK
<1>3. CASE VerifyLock(p)  BY <1>3 DEF VerifyLock, PlanTypeOK
<1>4. CASE FindLock(p)    BY <1>4 DEF FindLock, PlanTypeOK
<1>5. CASE JudgeLock(p)   BY <1>5 DEF JudgeLock, PlanTypeOK
<1>6. CASE RecheckLock(p) BY <1>6, SMTT(30) DEF RecheckLock, PlanTypeOK
<1>7. CASE UnlinkStale(p)
  <2>1. judged' \in [Procs -> {None, "same", "changed"}]
    BY <1>7 DEF UnlinkStale, PlanTypeOK
  <2>2. tries' \in [Procs -> {0, 1}] /\ got' \in [Procs -> Prds \cup {None}]
    BY <1>7 DEF UnlinkStale, PlanTypeOK
  <2>3. pc' \in [Procs -> Places] /\ told' \in [Procs -> {"no", "ok", "again", "refused"}]
    BY <1>7 DEF UnlinkStale, PlanTypeOK
  <2>4. lock' \in Locks \cup {None} /\ aged' \in BOOLEAN
    BY <1>7 DEF UnlinkStale
  <2>5. QED BY <1>7, <2>1, <2>2, <2>3, <2>4 DEF UnlinkStale, PlanTypeOK
<1>8. CASE Release(p)     BY <1>8 DEF Release, PlanTypeOK
<1>9. CASE RemoveLock(p)  BY <1>9 DEF RemoveLock, PlanTypeOK
<1>10. CASE LockAges      BY <1>10 DEF LockAges, PlanTypeOK
<1>11. QED BY <1>1, <1>2, <1>3, <1>4, <1>5, <1>6, <1>7, <1>8, <1>9, <1>10 DEF Lock

LEMMA AskTypes ==
  ASSUME PlanTypeOK, NEW p \in Procs, Ask(p)
  PROVE  PlanTypeOK'
<1> USE DEF Goto, Stop, Leave, Forget, lockVars, pairVars, mine, history, MayStart,
            Places, AtSwap, AtPair, AtTxn, InLock, Ending, Took
<1>0. file["prd"] \in Prds \cup {None} BY DEF PlanTypeOK, Pairs
<1>1. CASE Begin(p)       BY <1>1 DEF Begin, PlanTypeOK
<1>2. CASE ReadFirst(p)   BY <1>0, <1>2 DEF ReadFirst, PlanTypeOK
<1>3. CASE LookTrivial(p) BY <1>0, <1>3 DEF LookTrivial, PlanTypeOK
<1>4. CASE Reread(p)      BY <1>0, <1>4 DEF Reread, PlanTypeOK
<1>5. CASE Retry(p)       BY <1>5 DEF Retry, PlanTypeOK
<1>6. QED BY <1>1, <1>2, <1>3, <1>4, <1>5 DEF Ask

LEMMA ChangeTypes ==
  ASSUME PlanTypeOK, NEW p \in Procs, CommandOK(p), Change(p)
  PROVE  PlanTypeOK'
<1> USE DEF Goto, Leave, Hold, Forget, lockVars, pairVars, mine, history,
            Places, AtSwap, AtPair, AtTxn, InLock, Ending, Took
<1>1. CASE ReadCurrent(p)  BY <1>1 DEF ReadCurrent, PlanTypeOK
<1>2. CASE CheckCurrent(p) BY <1>2 DEF CheckCurrent, PlanTypeOK
<1>3. CASE Swap(p)
  <2>1. Kind(p) \in {"trivial", "enrich", "pass", "rollback"}
    BY <1>3 DEF Swap, CommandOK, PlanTypeOK, Kind, Commands
  <2>2. cur[p] \in Prds /\ Valid(p, cur[p])
    BY <1>3, <2>1 DEF Swap, CommandOK, Valid, IsPlanning, IsExecution, PlanTypeOK, Pairs
  <2>3. Changed(p, cur[p]) \in Prds BY <2>1, <2>2, Changes
  <2>4. file' \in Pairs BY <1>3, <2>3 DEF Swap, Put, PlanTypeOK, Pairs
  <2>5. QED BY <1>3, <2>4 DEF Swap, PlanTypeOK
<1>4. CASE Confirm(p)      BY <1>4 DEF Confirm, PlanTypeOK
<1>5. QED BY <1>1, <1>2, <1>3, <1>4 DEF Change

LEMMA TxnUpdates ==
  ASSUME NEW t \in Txns, NEW i \in Names
  PROVE  /\ \A b \in BOOLEAN : [t EXCEPT !.backup[i] = b] \in Txns
         /\ \A s \in {"no", "part", "whole", "gone"} : [t EXCEPT !.staged[i] = s] \in Txns
         /\ \A s \in {"no", "part", "whole"} : [t EXCEPT !.manifest = s] \in Txns
<1> DEFINE R == [manifest : {"no", "part", "whole"}, init : Pairs, next : Pairs,
                 staged : [Names -> {"no", "part", "whole", "gone"}],
                 backup : [Names -> BOOLEAN]]
<1>1. R = Txns BY DEF Txns
<1>2. t \in R BY <1>1
<1>3. \A b \in BOOLEAN : [t EXCEPT !.backup[i] = b] \in R
  <2> SUFFICES ASSUME NEW b \in BOOLEAN PROVE [t EXCEPT !.backup[i] = b] \in R
    OBVIOUS
  <2>1. [t.backup EXCEPT ![i] = b] \in [Names -> BOOLEAN] BY <1>2
  <2>2. QED BY <1>2, <2>1
<1>4. \A s \in {"no", "part", "whole", "gone"} : [t EXCEPT !.staged[i] = s] \in R
  <2> SUFFICES ASSUME NEW s \in {"no", "part", "whole", "gone"}
               PROVE  [t EXCEPT !.staged[i] = s] \in R
    OBVIOUS
  <2>1. [t.staged EXCEPT ![i] = s] \in [Names -> {"no", "part", "whole", "gone"}] BY <1>2
  <2>2. QED BY <1>2, <2>1
<1>5. \A s \in {"no", "part", "whole"} : [t EXCEPT !.manifest = s] \in R
  BY <1>2
<1>6. QED BY <1>1, <1>3, <1>4, <1>5

LEMMA TxnsUpdate ==
  ASSUME PlanTypeOK, NEW p \in Procs, txn[p] # None, NEW i \in Names
  PROVE  /\ \A b \in BOOLEAN :
              [txn EXCEPT ![p].backup[i] = b] \in [Procs -> Txns \cup {None}]
         /\ \A s \in {"no", "part", "whole", "gone"} :
              [txn EXCEPT ![p].staged[i] = s] \in [Procs -> Txns \cup {None}]
         /\ \A s \in {"no", "part", "whole"} :
              [txn EXCEPT ![p].manifest = s] \in [Procs -> Txns \cup {None}]
BY TxnUpdates DEF PlanTypeOK

LEMMA ContentType ==
  ASSUME PlanTypeOK, NEW p \in Procs, CommandOK(p), Kind(p) \in {"plan", "trivial"}
  PROVE  Content(p) \in Pairs
BY NextPlan DEF CommandOK, Content

LEMMA ReplaceTypes ==
  ASSUME PlanTypeOK, NEW p \in Procs, CommandOK(p), RecoverOK(p), Replace(p)
  PROVE  PlanTypeOK'
<1> USE DEF Goto, Leave, Hold, Forget, lockVars, pairVars, mine, history,
            Places, AtSwap, AtPair, AtTxn, InLock, Ending, Took
<1>g. file \in Pairs BY DEF PlanTypeOK
<1>f. file["prd"] \in Prds \cup {None} /\ \A i \in Names : \A v :
        (i = "spec" /\ v \in Texts \cup {None}) \/ (i = "prd" /\ v \in Prds \cup {None})
          => [file EXCEPT ![i] = v] \in Pairs
  BY DEF PlanTypeOK, Pairs, Names
<1>s. First({}) = "prd" /\ \A S \in SUBSET Names : First(S) \in Names
  BY DEF First, Names
<1>t. \A q \in Procs : txn[q] # None => txn[q] \in Txns BY DEF PlanTypeOK
<1>1. CASE Recover(p) BY <1>1 DEF Recover, PlanTypeOK, Ahead
<1>2. CASE Restore(p)
  <2>1. cur[p] \in Procs /\ txn[cur[p]] \in Txns
    BY <1>2, <1>t DEF Restore, RecoverOK
  <2>2. PICK i \in Names : 
           \/ UNCHANGED <<file, txn>>
           \/ file' = [file EXCEPT ![i] = None] /\ UNCHANGED txn
           \/ /\ file' = [file EXCEPT ![i] = txn[cur[p]].init[i]]
              /\ txn' = [txn EXCEPT ![cur[p]].backup[i] = FALSE]
    BY <1>2, <1>s DEF Restore, Put
  <2>3. file' \in Pairs BY <1>f, <2>1, <2>2 DEF PlanTypeOK, Txns, Pairs, Names
  <2>4. txn' \in [Procs -> Txns \cup {None}]
    <3>1. txn[cur[p]] # None BY <2>1, NoneAssumption
    <3>2. CASE UNCHANGED txn BY <3>2 DEF PlanTypeOK
    <3>3. CASE txn' = [txn EXCEPT ![cur[p]].backup[i] = FALSE]
      BY <2>1, <3>1, <3>3, TxnsUpdate
    <3>4. QED BY <2>2, <3>2, <3>3
  <2>5. QED BY <1>2, <2>3, <2>4 DEF Restore, PlanTypeOK
<1>3. CASE Sweep(p) BY <1>3 DEF Sweep, PlanTypeOK, Ahead
<1>4. CASE ValidatePair(p) BY <1>4, SMTT(30) DEF ValidatePair, PlanTypeOK
<1>5. CASE OpenTxn(p)
  <2>1. Kind(p) \in {"plan", "trivial"}
    BY <1>5 DEF OpenTxn, CommandOK, PlanTypeOK, Kind, Commands
  <2>2. [manifest |-> "no", init |-> file, next |-> Content(p),
         staged |-> Both("no"), backup |-> Both(FALSE)] \in Txns
    BY <2>1, ContentType DEF Txns, Both, PlanTypeOK
  <2>3. QED BY <1>5, <2>2 DEF OpenTxn, PlanTypeOK
<1>6. CASE Stage(p)
  <2>1. txn[p] \in Txns BY <1>6, <1>t DEF Stage
  <2>2. PICK i \in Names :
           \/ UNCHANGED txn
           \/ txn' = [txn EXCEPT ![p].manifest = Half(txn[p].manifest)]
           \/ txn' = [txn EXCEPT ![p].staged[i] = Half(txn[p].staged[i])]
    BY <1>6, <1>s, <2>1 DEF Stage
  <2>3. txn' \in [Procs -> Txns \cup {None}]
    <3>1. txn[p] # None BY <2>1, NoneAssumption
    <3>2. CASE UNCHANGED txn BY <3>2 DEF PlanTypeOK
    <3>3. CASE txn' = [txn EXCEPT ![p].manifest = Half(txn[p].manifest)]
      BY <2>1, <3>1, <3>3, TxnsUpdate DEF Half
    <3>4. CASE txn' = [txn EXCEPT ![p].staged[i] = Half(txn[p].staged[i])]
      BY <2>1, <3>1, <3>4, TxnsUpdate DEF Half
    <3>5. QED BY <2>2, <3>2, <3>3, <3>4
  <2>4. QED BY <1>6, <2>3 DEF Stage, PlanTypeOK
<1>7. CASE MoveToBackup(p)
  <2>1. txn[p] \in Txns BY <1>7, <1>t DEF MoveToBackup
  <2>2. PICK i \in Names :
           \/ UNCHANGED <<file, txn>>
           \/ /\ file' = [file EXCEPT ![i] = None]
              /\ txn' = [txn EXCEPT ![p].backup[i] = TRUE]
    <3> DEFINE L == {j \in Names : txn[p].init[j] # None /\ ~txn[p].backup[j]}
               i == First(L)
    <3>1. i \in Names BY <1>s
    <3>2. \/ UNCHANGED <<file, txn>>
          \/ /\ file' = [file EXCEPT ![i] = None]
             /\ txn' = [txn EXCEPT ![p].backup[i] = TRUE]
      BY <1>7 DEF MoveToBackup, Put
    <3> HIDE DEF i
    <3>3. QED BY <3>1, <3>2
  <2>3. file' \in Pairs
    <3>1. CASE UNCHANGED file BY <1>g, <3>1
    <3>2. CASE file' = [file EXCEPT ![i] = None] BY <1>f, <3>2 DEF Names
    <3>3. QED BY <2>2, <3>1, <3>2
  <2>4. txn' \in [Procs -> Txns \cup {None}]
    <3>1. txn[p] # None BY <2>1, NoneAssumption
    <3>2. CASE UNCHANGED txn BY <3>2 DEF PlanTypeOK
    <3>3. CASE txn' = [txn EXCEPT ![p].backup[i] = TRUE]
      BY <2>1, <3>1, <3>3, TxnsUpdate
    <3>4. QED BY <2>2, <3>2, <3>3
  <2>5. QED BY <1>7, <2>3, <2>4 DEF MoveToBackup, PlanTypeOK
<1>8. CASE Install(p)
  <2>1. txn[p] \in Txns BY <1>8, <1>t DEF Install
  <2>2. PICK i \in Names :
           \/ UNCHANGED <<file, txn>>
           \/ /\ file' = [file EXCEPT ![i] = txn[p].next[i]]
              /\ txn' = [txn EXCEPT ![p].staged[i] = "gone"]
    BY <1>8, <1>s DEF Install, Put
  <2>3. file' \in Pairs BY <1>f, <2>1, <2>2 DEF PlanTypeOK, Txns, Pairs, Names
  <2>4. txn' \in [Procs -> Txns \cup {None}]
    <3>1. txn[p] # None BY <2>1, NoneAssumption
    <3>2. CASE UNCHANGED txn BY <3>2 DEF PlanTypeOK
    <3>3. CASE txn' = [txn EXCEPT ![p].staged[i] = "gone"]
      BY <2>1, <3>1, <3>3, TxnsUpdate
    <3>4. QED BY <2>2, <3>2, <3>3
  <2>5. QED BY <1>8, <2>3, <2>4 DEF Install, PlanTypeOK
<1>9. CASE ValidateInstalled(p) BY <1>9 DEF ValidateInstalled, PlanTypeOK
<1>10. CASE CloseTxn(p) BY <1>10 DEF CloseTxn, PlanTypeOK
<1>11. CASE Undo(p)
  <2>1. txn[p] \in Txns BY <1>11, <1>t DEF Undo
  <2>2. PICK i \in Names :
           \/ UNCHANGED <<file, txn>>
           \/ UNCHANGED file /\ txn' = [txn EXCEPT ![p] = None]
           \/ /\ file' = [file EXCEPT ![i] = None]
              /\ txn' = [txn EXCEPT ![p].staged[i] = "whole"]
           \/ /\ file' = [file EXCEPT ![i] = txn[p].init[i]]
              /\ txn' = [txn EXCEPT ![p].backup[i] = FALSE]
    BY <1>11 DEF Undo, Put, Names
  <2>3. file' \in Pairs BY <1>f, <2>1, <2>2 DEF PlanTypeOK, Txns, Pairs, Names
  <2>4. txn' \in [Procs -> Txns \cup {None}]
    <3>1. txn[p] # None BY <2>1, NoneAssumption
    <3>2. CASE UNCHANGED txn BY <3>2 DEF PlanTypeOK
    <3>3. CASE txn' = [txn EXCEPT ![p] = None]
      BY <2>1, <3>1, <3>3, TxnsUpdate DEF PlanTypeOK
    <3>4. CASE txn' = [txn EXCEPT ![p].staged[i] = "whole"]
      BY <2>1, <3>1, <3>4, TxnsUpdate
    <3>5. CASE txn' = [txn EXCEPT ![p].backup[i] = FALSE]
      BY <2>1, <3>1, <3>5, TxnsUpdate
    <3>6. QED BY <2>2, <3>2, <3>3, <3>4, <3>5
  <2>5. QED BY <1>11, <2>3, <2>4 DEF Undo, PlanTypeOK
<1>12. CASE LoseTxn(p) BY <1>12 DEF LoseTxn, PlanTypeOK
<1>13. QED BY <1>1, <1>2, <1>3, <1>4, <1>5, <1>6, <1>7, <1>8, <1>9, <1>10, <1>11, <1>12
           DEF Replace

LEMMA MishapTypes ==
  ASSUME PlanTypeOK, NEW p \in Procs, Fault(p) \/ Die(p)
  PROVE  PlanTypeOK'
<1> USE DEF Goto, Leave, Hold, Forget, lockVars, pairVars, mine, history,
            Places, AtSwap, AtPair, AtTxn, InLock, Ending
<1>1. CASE Fault(p)
  <2>1. scene' \in [kind : [Procs -> Commands],
                arg : [Procs -> DOMAIN TextOf \cup Stories \cup {None}],
                after : [Procs -> SUBSET Procs], start : Pairs,
                deaths : Nat, faults : Nat]
    <3>1. scene' = [scene EXCEPT !.faults = scene.faults - 1]
          /\ scene.faults \in Nat /\ scene.faults > 0
      BY <1>1 DEF Fault, PlanTypeOK
    <3>2. QED BY <3>1 DEF PlanTypeOK
  <2>2. txn' \in [Procs -> Txns \cup {None}]
    <3> DEFINE t == txn[p]
               u == [t EXCEPT !.manifest = Removed(t.manifest),
                              !.staged = [i \in Names |-> Removed(t.staged[i])]]
    <3>1. CASE UNCHANGED txn BY <3>1 DEF PlanTypeOK
    <3>2. CASE txn[p] # None /\ txn' = [txn EXCEPT ![p] = u]
      <4>1. t \in Txns BY <3>2 DEF PlanTypeOK
      <4>2. Removed(t.manifest) \in {"no", "part", "whole"}
        BY <4>1 DEF Removed, Txns
      <4>3. [i \in Names |-> Removed(t.staged[i])] \in [Names -> {"no", "part", "whole", "gone"}]
        BY <4>1 DEF Removed, Txns
      <4>4. u \in Txns BY <4>1, <4>2, <4>3 DEF Txns
      <4>5. QED BY <3>2, <4>4 DEF PlanTypeOK
    <3>3. ASSUME txn[p] # None,
                 txn' = [txn EXCEPT ![p].manifest = Removed(@),
                           ![p].staged = [i \in Names |-> Removed(@[i])]]
          PROVE  txn' = [txn EXCEPT ![p] = u]
      <4>1. txn[p] \in Txns BY <3>3 DEF PlanTypeOK
      <4>2. QED BY <3>3, <4>1, ZenonT(40) DEF PlanTypeOK, Txns
    <3>4. \/ UNCHANGED txn
          \/ /\ txn[p] # None
             /\ txn' = [txn EXCEPT ![p].manifest = Removed(@),
                           ![p].staged = [i \in Names |-> Removed(@[i])]]
      BY <1>1 DEF Fault
    <3> HIDE DEF u
    <3>5. QED BY <3>1, <3>2, <3>3, <3>4
  <2>3. pc' \in [Procs -> Places] /\ told' \in [Procs -> {"no", "ok", "again", "refused"}]
    BY <1>1 DEF Fault, PlanTypeOK
  <2>4. /\ got' \in [Procs -> Prds \cup {None}] /\ cur' = [q \in Procs |-> cur'[q]]
        /\ tries' \in [Procs -> {0, 1}]
    BY <1>1, SMTT(30) DEF Fault, PlanTypeOK
  <2>5. UNCHANGED <<lock, aged, judged, file, part, dead, served>> BY <1>1 DEF Fault
  <2>6. QED BY <2>1, <2>2, <2>3, <2>4, <2>5 DEF PlanTypeOK
<1>2. CASE Die(p)
  <2>1. scene' \in [kind : [Procs -> Commands],
                arg : [Procs -> DOMAIN TextOf \cup Stories \cup {None}],
                after : [Procs -> SUBSET Procs], start : Pairs,
                deaths : Nat, faults : Nat]
    BY <1>2 DEF Die, PlanTypeOK
  <2>2. QED BY <1>2, <2>1 DEF Die, PlanTypeOK
<1>3. QED BY <1>1, <1>2
-----------------------------------------------------------------------------
(* What one command leaves of the others.                                  *)

Does(p) == Step(p) \/ Fault(p) \/ Die(p)
Unmoved(q) ==
  /\ pc'[q] = pc[q] /\ part'[q] = part[q] /\ got'[q] = got[q] /\ cur'[q] = cur[q]
  /\ told'[q] = told[q] /\ (q \in served' <=> q \in served)
Frame(p) ==
  /\ scene'.kind = scene.kind /\ scene'.arg = scene.arg
  /\ \A q \in Procs : q # p => Unmoved(q)

LEMMA Frames ==
  ASSUME PlanTypeOK, NEW p \in Procs, Does(p)
  PROVE  Frame(p)
<1> USE DEF Goto, Stop, Leave, Hold, Forget, PutLock, lockVars, pairVars, mine, history, Took,
            Another, Put, Unmoved, Frame, PlanTypeOK
<1>1. CASE Lock(p)
  <2>1. CASE CreateLock(p)  BY <2>1 DEF CreateLock
  <2>2. CASE FillLock(p)    BY <2>2 DEF FillLock
  <2>3. CASE VerifyLock(p)  BY <2>3 DEF VerifyLock
  <2>4. CASE FindLock(p)    BY <2>4 DEF FindLock
  <2>5. CASE JudgeLock(p)   BY <2>5 DEF JudgeLock
  <2>6. CASE RecheckLock(p) BY <2>6 DEF RecheckLock
  <2>7. CASE UnlinkStale(p) BY <2>7 DEF UnlinkStale
  <2>8. CASE Release(p)     BY <2>8 DEF Release
  <2>9. CASE RemoveLock(p)  BY <2>9 DEF RemoveLock
  <2>10. QED BY <1>1, <2>1, <2>2, <2>3, <2>4, <2>5, <2>6, <2>7, <2>8, <2>9 DEF Lock
<1>2. CASE Ask(p)
  <2>1. CASE Begin(p)       BY <2>1 DEF Begin
  <2>2. CASE ReadFirst(p)   BY <2>2 DEF ReadFirst
  <2>3. CASE LookTrivial(p) BY <2>3 DEF LookTrivial
  <2>4. CASE Reread(p)      BY <2>4 DEF Reread
  <2>5. CASE Retry(p)       BY <2>5 DEF Retry
  <2>6. QED BY <1>2, <2>1, <2>2, <2>3, <2>4, <2>5 DEF Ask
<1>3. CASE Change(p)
  BY <1>3 DEF Change, ReadCurrent, CheckCurrent, Swap, Confirm
<1>4. CASE Replace(p)
  <2>1. CASE Recover(p) BY <2>1 DEF Recover
  <2>2. CASE Restore(p) BY <2>2 DEF Restore
  <2>3. CASE Sweep(p) BY <2>3 DEF Sweep
  <2>4. CASE ValidatePair(p) BY <2>4 DEF ValidatePair
  <2>5. CASE OpenTxn(p) BY <2>5 DEF OpenTxn
  <2>6. CASE Stage(p) BY <2>6 DEF Stage
  <2>7. CASE MoveToBackup(p) BY <2>7 DEF MoveToBackup
  <2>8. CASE Install(p) BY <2>8 DEF Install
  <2>9. CASE ValidateInstalled(p) BY <2>9 DEF ValidateInstalled
  <2>10. CASE CloseTxn(p) BY <2>10 DEF CloseTxn
  <2>11. CASE Undo(p) BY <2>11 DEF Undo
  <2>12. CASE LoseTxn(p) BY <2>12 DEF LoseTxn
  <2>13. QED BY <1>4, <2>1, <2>2, <2>3, <2>4, <2>5, <2>6, <2>7, <2>8, <2>9, <2>10,
                <2>11, <2>12 DEF Replace
<1>5. CASE Fault(p) BY <1>5 DEF Fault
<1>6. CASE Die(p) BY <1>6 DEF Die
<1>7. QED BY <1>1, <1>2, <1>3, <1>4, <1>5, <1>6 DEF Does, Step

(* The lock has one holder, and nobody else touches the files.             *)
LEMMA OneHolder ==
  ASSUME \A q \in Procs : HolderLocked(q), NEW p \in Procs, NEW q \in Procs,
         pc[p] \in InLock, pc[q] \in InLock
  PROVE  p = q
BY DEF HolderLocked, Holds

LEMMA OutsideTheLock ==
  ASSUME NEW p \in Procs, Does(p), ~(Replace(p) \/ Change(p) \/ Fault(p))
  PROVE  UNCHANGED <<file, txn>>
<1> USE DEF pairVars, mine, history
<1>1. CASE Lock(p)
  BY <1>1 DEF Lock, CreateLock, FillLock, VerifyLock, FindLock, JudgeLock, RecheckLock,
              UnlinkStale, Release, RemoveLock
<1>2. CASE Ask(p)
  BY <1>2 DEF Ask, Begin, ReadFirst, LookTrivial, Reread, Retry
<1>3. CASE Die(p) BY <1>3 DEF Die
<1>4. QED BY <1>1, <1>2, <1>3 DEF Does, Step

LEMMA InTheLock ==
  ASSUME PlanTypeOK, NEW p \in Procs, Replace(p) \/ Change(p) \/ Fault(p)
  PROVE  /\ pc[p] \in InLock /\ pc'[p] \in InLock
         /\ UNCHANGED <<lock, aged, judged, dead, stolen>>
<1> USE DEF Goto, Leave, Forget, lockVars, pairVars, mine, history, InLock, AtSwap, AtPair,
            AtTxn, Ending, PlanTypeOK
<1>1. CASE Change(p)
  BY <1>1 DEF Change, ReadCurrent, CheckCurrent, Swap, Confirm
<1>2. CASE Fault(p) BY <1>2 DEF Fault
<1>4. CASE Replace(p)
  <2>1. CASE Recover(p) BY <2>1 DEF Recover, Ahead
  <2>2. CASE Restore(p) BY <2>2 DEF Restore
  <2>3. CASE Sweep(p) BY <2>3 DEF Sweep, Ahead
  <2>4. CASE ValidatePair(p) BY <2>4 DEF ValidatePair
  <2>5. CASE OpenTxn(p) BY <2>5 DEF OpenTxn
  <2>6. CASE Stage(p) BY <2>6 DEF Stage
  <2>7. CASE MoveToBackup(p) BY <2>7 DEF MoveToBackup
  <2>8. CASE Install(p) BY <2>8 DEF Install
  <2>9. CASE ValidateInstalled(p) BY <2>9 DEF ValidateInstalled
  <2>10. CASE CloseTxn(p) BY <2>10 DEF CloseTxn
  <2>11. CASE Undo(p) BY <2>11 DEF Undo
  <2>12. CASE LoseTxn(p) BY <2>12 DEF LoseTxn
  <2>13. QED BY <1>4, <2>1, <2>2, <2>3, <2>4, <2>5, <2>6, <2>7, <2>8, <2>9, <2>10,
                <2>11, <2>12 DEF Replace
<1>5. QED BY <1>1, <1>2, <1>4
-----------------------------------------------------------------------------
(* The lock does its work.                                                 *)

LEMMA LockKept ==
  ASSUME PlanTypeOK, \A q \in Procs : HolderLocked(q), NEW p \in Procs,
         Does(p) \/ LockAges, stolen \in BOOLEAN, ~stolen'
  PROVE  ~stolen /\ \A q \in Procs : HolderLocked(q)'
<1> USE DEF PlanTypeOK, HolderLocked, Holds, Stale
<1>a. None \notin {"same", "changed"} BY NoneAssumption
<1>l. lock # None => lock \in [by : Procs, written : BOOLEAN] BY DEF Locks
<1>p. ASSUME NEW q \in Procs, q # p, Does(p) PROVE pc'[q] = pc[q]
  BY <1>p, Frames DEF Frame, Unmoved
<1>1. CASE LockAges
  BY <1>1 DEF LockAges, lockVars, pairVars, mine, history
<1>2. CASE Replace(p) \/ Change(p) \/ Fault(p)
  <2>1. UNCHANGED <<lock, aged, judged, dead, stolen>> BY <1>2, InTheLock
  <2>2. pc[p] \in InLock /\ pc'[p] \in InLock BY <1>2, InTheLock
  <2>3. \A q \in Procs : q # p => pc'[q] = pc[q] BY <1>2, <1>p DEF Does, Step
  <2>4. p \notin dead
    BY <2>2 DEF InLock, AtSwap, AtPair, AtTxn, Ending
  <2>5. pc'[p] \notin {"verify", "recheck", "unlink"}
    BY <2>2 DEF InLock, AtSwap, AtPair, AtTxn, Ending
  <2>6. ~stolen BY <2>1
  <2>7. ASSUME NEW q \in Procs PROVE HolderLocked(q)'
    BY <2>1, <2>2, <2>3, <2>4, <2>5
  <2>8. QED BY <2>6, <2>7
<1>3. CASE Ask(p)
  <2>1. UNCHANGED <<lock, aged, judged, dead, stolen>>
        /\ pc[p] \in {"start", "reread", "done"}
        /\ pc'[p] \in {"acquire", "done", "start"}
    BY <1>3 DEF Ask, Begin, ReadFirst, LookTrivial, Reread, Retry, MayStart, Goto, Stop,
                lockVars, pairVars, mine, history
  <2>2. \A q \in Procs : q # p => pc'[q] = pc[q] BY <1>3, <1>p DEF Does, Step
  <2>3. ASSUME NEW q \in Procs PROVE HolderLocked(q)'
    BY <2>1, <2>2 DEF InLock, AtSwap, AtPair, AtTxn, Ending
  <2>4. QED BY <2>1, <2>3
<1>4. CASE Die(p)
  <2>1. /\ UNCHANGED <<lock, aged, stolen>> /\ judged' = [judged EXCEPT ![p] = None]
        /\ pc'[p] = "dead" /\ dead' = dead \cup {p}
    BY <1>4 DEF Die
  <2>2. \A q \in Procs : q # p => pc'[q] = pc[q] BY <1>4, <1>p DEF Does
  <2>3. ASSUME NEW q \in Procs PROVE HolderLocked(q)'
    BY <2>1, <2>2, <1>a DEF InLock, AtSwap, AtPair, AtTxn, Ending
  <2>4. QED BY <2>1, <2>3
<1>5. CASE Lock(p)
  <2> USE DEF Goto, Stop, PutLock, lockVars, pairVars, mine, history, Forget,
              Another, InLock, AtSwap, AtPair, AtTxn, Ending
  <2>p. \A q \in Procs : q # p => pc'[q] = pc[q] BY <1>5, <1>p DEF Does, Step
  <2>s. ~stolen
    BY <1>5 DEF Lock, CreateLock, FillLock, VerifyLock, FindLock, JudgeLock, RecheckLock,
                UnlinkStale, Release, RemoveLock
  <2>1. CASE CreateLock(p)
    <3>1. lock = None /\ lock' = [by |-> p, written |-> FALSE] /\ pc'[p] = "fill"
          /\ UNCHANGED dead /\ pc[p] = "acquire"
      BY <2>1 DEF CreateLock
    <3>2. \A q \in Procs : judged'[q] # "same" /\ (judged[q] # None => judged'[q] # None)
      BY <2>1, <1>a DEF CreateLock
    <3>3. ASSUME NEW q \in Procs PROVE HolderLocked(q)' BY <2>p, <3>1, <3>2
    <3>4. QED BY <2>s, <3>3
  <2>2. CASE FillLock(p)
    <3>1. CASE Holds(p)
      <4>1. lock' = [lock EXCEPT !.written = TRUE] /\ pc'[p] = "verify" /\ UNCHANGED dead
            /\ pc[p] = "fill"
        BY <2>2, <3>1 DEF FillLock
      <4>2. lock' # None /\ lock'.by = p /\ lock'.written
        BY <3>1, <4>1, <1>l, NoneAssumption, ZenonT(40) DEF Locks
      <4>3. \A q \in Procs : judged'[q] # "same" /\ (judged[q] # None => judged'[q] # None)
        BY <2>2, <3>1, <1>a DEF FillLock
      <4>4. ASSUME NEW q \in Procs PROVE HolderLocked(q)'
        BY <2>p, <3>1, <4>1, <4>2, <4>3
      <4>5. QED BY <2>s, <4>4
    <3>2. CASE ~Holds(p)
      <4>1. UNCHANGED <<lock, judged, aged, dead>> /\ pc'[p] = "verify" /\ pc[p] = "fill"
        BY <2>2, <3>2 DEF FillLock
      <4>2. ASSUME NEW q \in Procs PROVE HolderLocked(q)' BY <2>p, <3>2, <4>1
      <4>3. QED BY <2>s, <4>2
    <3>3. QED BY <3>1, <3>2
  <2>3. CASE VerifyLock(p) BY <2>3, <2>p, <2>s DEF VerifyLock
  <2>4. CASE FindLock(p) BY <2>4, <2>p, <2>s DEF FindLock
  <2>5. CASE JudgeLock(p)
    <3>1. /\ UNCHANGED <<lock, aged, dead>> /\ pc[p] = "judge"
          /\ pc'[p] \in {"recheck", "done"}
          /\ \/ Stale /\ judged' = [judged EXCEPT ![p] = "same"] 
             \/ judged' = judged /\ pc'[p] = "done"
      BY <2>5 DEF JudgeLock
    <3>2. ASSUME NEW q \in Procs PROVE HolderLocked(q)' BY <2>p, <3>1, <1>a
    <3>3. QED BY <2>s, <3>2
  <2>6. CASE RecheckLock(p)
    <3>1. /\ UNCHANGED <<lock, aged, dead>> /\ pc[p] = "recheck"
          /\ \/ pc'[p] = "unlink" /\ judged' = judged
             \/ judged' = [judged EXCEPT ![p] = None] /\ pc'[p] \in {"done", "acquire"}
      BY <2>6 DEF RecheckLock
    <3>2. ASSUME NEW q \in Procs PROVE HolderLocked(q)' BY <2>p, <3>1, <1>a
    <3>3. QED BY <2>s, <3>2
  <2>7. CASE UnlinkStale(p)
    <3>1. /\ lock' = None /\ UNCHANGED dead /\ pc[p] = "unlink"
          /\ pc'[p] \in {"done", "acquire"}
          /\ ~(lock # None /\ judged[p] = "changed")
      <4>1. stolen' = (stolen \/ (lock # None /\ judged[p] = "changed"))
        BY <2>7 DEF UnlinkStale
      <4>2. ~(lock # None /\ judged[p] = "changed") BY <4>1, Zenon
      <4>3. QED BY <2>7, <4>2 DEF UnlinkStale
    <3>2. \A q \in Procs : judged'[q] # "same" /\ (q # p /\ judged[q] # None => judged'[q] # None)
      BY <2>7, <1>a DEF UnlinkStale
    <3>3. ASSUME NEW q \in Procs, pc[q] \in InLock PROVE FALSE
      <4>1. lock # None /\ lock.by = q /\ lock.written BY <3>3
      <4>2. judged[p] = "same" BY <3>1, <4>1
      <4>3. lock.by \in dead BY <4>1, <4>2
      <4>4. QED BY <4>1, <4>3, <3>3
    <3>4. ASSUME NEW q \in Procs PROVE HolderLocked(q)'
      BY <2>p, <3>1, <3>2, <3>3
    <3>5. QED BY <2>s, <3>4
  <2>8. CASE Release(p) BY <2>8, <2>p, <2>s DEF Release
  <2>9. CASE RemoveLock(p)
    <3>1. lock' = None /\ UNCHANGED dead /\ pc[p] = "unlock" /\ pc'[p] \in {"reread", "done"}
      BY <2>9 DEF RemoveLock
    <3>2. \A q \in Procs : judged'[q] # "same" /\ (judged[q] # None => judged'[q] # None)
      BY <2>9, <1>a DEF RemoveLock
    <3>3. ASSUME NEW q \in Procs, q # p PROVE pc[q] \notin InLock
      BY <3>1, <3>3, OneHolder
    <3>4. ASSUME NEW q \in Procs PROVE HolderLocked(q)' BY <2>p, <3>1, <3>2, <3>3
    <3>5. QED BY <2>s, <3>4
  <2>10. QED BY <1>5, <2>1, <2>2, <2>3, <2>4, <2>5, <2>6, <2>7, <2>8, <2>9 DEF Lock
<1>6. QED BY <1>1, <1>2, <1>3, <1>4, <1>5 DEF Does, Step
-----------------------------------------------------------------------------
(* Each command.                                                           *)

LEMMA OtherCommands ==
  ASSUME PlanTypeOK, \A q \in Procs : HolderLocked(q), NEW p \in Procs, Does(p),
         NEW q \in Procs, q # p
  PROVE  /\ Unmoved(q) /\ Kind(q)' = Kind(q) /\ Arg(q)' = Arg(q)
         /\ Owns(q)' = Owns(q)
         /\ pc[q] \in InLock => UNCHANGED <<file, txn>>
<1>1. Frame(p) BY Frames
<1>2. Kind(q)' = Kind(q) /\ Arg(q)' = Arg(q) BY <1>1 DEF Frame, Kind, Arg
<1>3. Unmoved(q) BY <1>1 DEF Frame
<1>4. Owns(q)' = Owns(q) BY <1>2, <1>3 DEF Owns, Unmoved
<1>5. pc[q] \in InLock => UNCHANGED <<file, txn>>
  BY OneHolder, InTheLock, OutsideTheLock
<1>6. QED BY <1>2, <1>3, <1>4, <1>5

LEMMA OthersStay ==
  ASSUME PlanTypeOK, \A q \in Procs : HolderLocked(q), NEW p \in Procs, Does(p),
         NEW q \in Procs, q # p, CommandOK(q)
  PROVE  CommandOK(q)'
<1>1. Unmoved(q) /\ Kind(q)' = Kind(q) /\ Arg(q)' = Arg(q) /\ Owns(q)' = Owns(q)
  BY OtherCommands
<1>2. pc[q] \in InLock => UNCHANGED <<file, txn>> BY OtherCommands
<1>3. Owns(q) \/ pc[q] \in {"check", "swap"} => pc[q] \in InLock
  BY DEF Owns, InLock, AtSwap, AtPair, AtTxn
<1>4. pc[q] \in {"check", "swap"} => 
        /\ Valid(q, cur[q])' = Valid(q, cur[q])
        /\ Valid(q, Changed(q, cur[q]))' = Valid(q, Changed(q, cur[q]))
  BY <1>1 DEF Valid, IsPlanning, IsExecution, Changed, Assignment, Unmoved
<1>5. QED BY <1>1, <1>2, <1>3, <1>4 DEF CommandOK, Unmoved

LEMMA CommandsLock ==
  ASSUME PlanTypeOK, NEW p \in Procs, HolderLocked(p), CommandOK(p), Lock(p) 
  PROVE  CommandOK(p)'
<1> USE DEF Goto, Stop, Forget, PutLock, lockVars, pairVars, mine, history,
            Another, PlanTypeOK, CommandOK, Owns, Kind, Arg,
            InLock, AtSwap, AtPair, AtTxn, Ending
<1>1. CASE CreateLock(p)  BY <1>1 DEF CreateLock
<1>2. CASE FillLock(p)    BY <1>2 DEF FillLock
<1>3. CASE VerifyLock(p)  BY <1>3 DEF VerifyLock
<1>4. CASE FindLock(p)    BY <1>4 DEF FindLock
<1>5. CASE JudgeLock(p)   BY <1>5 DEF JudgeLock
<1>6. CASE RecheckLock(p) BY <1>6 DEF RecheckLock
<1>7. CASE UnlinkStale(p) BY <1>7 DEF UnlinkStale
<1>8. CASE Release(p)     BY <1>8 DEF Release, HolderLocked
<1>9. CASE RemoveLock(p)  BY <1>9 DEF RemoveLock
<1>10. QED BY <1>1, <1>2, <1>3, <1>4, <1>5, <1>6, <1>7, <1>8, <1>9 DEF Lock

LEMMA CommandsAsk ==
  ASSUME PlanTypeOK, NEW p \in Procs, CommandOK(p), Ask(p) \/ Change(p)
  PROVE  CommandOK(p)'
<1> USE DEF Goto, Stop, Forget, Leave, Hold, lockVars, pairVars, mine, history, MayStart, Took,
            PlanTypeOK, CommandOK, Owns, Kind, Arg, AtSwap, AtPair, AtTxn, Ending
<1>1. CASE Begin(p)       BY <1>1 DEF Begin
<1>2. CASE ReadFirst(p)   BY <1>2 DEF ReadFirst
<1>3. CASE LookTrivial(p) BY <1>3 DEF LookTrivial
<1>4. CASE Reread(p)      BY <1>4 DEF Reread
<1>5. CASE Retry(p)       BY <1>5 DEF Retry
<1>6. CASE ReadCurrent(p)
  <2>1. CASE pc'[p] = "check"
    BY <1>6, <2>1 DEF ReadCurrent, Valid, IsPlanning, IsExecution, Changed, Assignment
  <2>2. CASE pc'[p] # "check" BY <1>6, <2>2 DEF ReadCurrent
  <2>3. QED BY <2>1, <2>2
<1>7. CASE CheckCurrent(p)
  <2>1. CASE pc'[p] = "swap"
    BY <1>7, <2>1 DEF CheckCurrent, Valid, IsPlanning, IsExecution, Changed, Assignment
  <2>2. CASE pc'[p] # "swap" BY <1>7, <2>2 DEF CheckCurrent
  <2>3. QED BY <2>1, <2>2
<1>8. CASE Swap(p)    BY <1>8 DEF Swap
<1>9. CASE Confirm(p) BY <1>9 DEF Confirm
<1>10. QED BY <1>1, <1>2, <1>3, <1>4, <1>5, <1>6, <1>7, <1>8, <1>9 DEF Ask, Change

-----------------------------------------------------------------------------
(* What the steps of a transaction do to it.                               *)

Stagings == {"no", "part", "whole", "gone"}
BackedUp(t, i, b) == [t EXCEPT !.backup[i] = b]
StagedAs(t, i, s) == [t EXCEPT !.staged[i] = s]
Cleared(t) == [t EXCEPT !.manifest = Removed(t.manifest),
                        !.staged = [i \in Names |-> Removed(t.staged[i])]]

LEMMA Fields ==
  ASSUME NEW t \in Txns
  PROVE  /\ \A i \in Names, b \in BOOLEAN :
              /\ BackedUp(t, i, b) \in Txns
              /\ BackedUp(t, i, b).manifest = t.manifest
              /\ BackedUp(t, i, b).init = t.init /\ BackedUp(t, i, b).next = t.next
              /\ BackedUp(t, i, b).staged = t.staged
              /\ \A j \in Names :
                   BackedUp(t, i, b).backup[j] = IF j = i THEN b ELSE t.backup[j]
         /\ \A i \in Names, s \in {"no", "part", "whole", "gone"} :
              /\ StagedAs(t, i, s) \in Txns
              /\ StagedAs(t, i, s).manifest = t.manifest
              /\ StagedAs(t, i, s).init = t.init /\ StagedAs(t, i, s).next = t.next
              /\ StagedAs(t, i, s).backup = t.backup
              /\ \A j \in Names :
                   StagedAs(t, i, s).staged[j] = IF j = i THEN s ELSE t.staged[j]
         /\ Cleared(t) \in Txns
         /\ Cleared(t).manifest = Removed(t.manifest)
         /\ Cleared(t).init = t.init /\ Cleared(t).next = t.next
         /\ Cleared(t).backup = t.backup
         /\ \A j \in Names : Cleared(t).staged[j] = Removed(t.staged[j])
<1>1. t = [manifest |-> t.manifest, init |-> t.init, next |-> t.next,
           staged |-> t.staged, backup |-> t.backup]
      /\ t.staged \in [Names -> {"no", "part", "whole", "gone"}]
      /\ t.backup \in [Names -> BOOLEAN]
      /\ t.manifest \in {"no", "part", "whole"} /\ t.init \in Pairs /\ t.next \in Pairs
  BY DEF Txns
<1>2. ASSUME NEW i \in Names, NEW b \in BOOLEAN
      PROVE  /\ BackedUp(t, i, b).manifest = t.manifest
             /\ BackedUp(t, i, b).init = t.init /\ BackedUp(t, i, b).next = t.next
             /\ BackedUp(t, i, b).staged = t.staged
             /\ \A j \in Names :
                  BackedUp(t, i, b).backup[j] = IF j = i THEN b ELSE t.backup[j]
  BY <1>1 DEF BackedUp
<1>3. ASSUME NEW i \in Names, NEW s \in {"no", "part", "whole", "gone"}
      PROVE  /\ StagedAs(t, i, s).manifest = t.manifest
             /\ StagedAs(t, i, s).init = t.init /\ StagedAs(t, i, s).next = t.next
             /\ StagedAs(t, i, s).backup = t.backup
             /\ \A j \in Names :
                  StagedAs(t, i, s).staged[j] = IF j = i THEN s ELSE t.staged[j]
  BY <1>1 DEF StagedAs
<1>4. /\ Cleared(t).manifest = Removed(t.manifest)
      /\ Cleared(t).init = t.init /\ Cleared(t).next = t.next
      /\ Cleared(t).backup = t.backup
      /\ \A j \in Names : Cleared(t).staged[j] = Removed(t.staged[j])
  BY <1>1 DEF Cleared
<1>5. Cleared(t) \in Txns
  <2>1. [i \in Names |-> Removed(t.staged[i])] \in [Names -> {"no", "part", "whole", "gone"}]
    BY <1>1 DEF Removed
  <2>2. Removed(t.manifest) \in {"no", "part", "whole"} BY <1>1 DEF Removed
  <2>3. QED BY <1>1, <2>1, <2>2 DEF Cleared, Txns
<1>6. QED BY <1>2, <1>3, <1>4, <1>5, TxnUpdates, ZenonT(40) DEF BackedUp, StagedAs

LEMMA BackupFields ==
  ASSUME NEW t \in Txns, NEW i \in Names, NEW b \in BOOLEAN
  PROVE  LET u == BackedUp(t, i, b)
         IN  /\ u \in Txns /\ u # None /\ u.manifest = t.manifest
             /\ u.init = t.init /\ u.next = t.next /\ u.staged = t.staged
             /\ \A j \in Names : u.backup[j] = IF j = i THEN b ELSE t.backup[j]
BY Fields, NoneAssumption

LEMMA StagedFields ==
  ASSUME NEW t \in Txns, NEW i \in Names, NEW s \in Stagings
  PROVE  LET u == StagedAs(t, i, s)
         IN  /\ u \in Txns /\ u # None /\ u.manifest = t.manifest
             /\ u.init = t.init /\ u.next = t.next /\ u.backup = t.backup
             /\ \A j \in Names : u.staged[j] = IF j = i THEN s ELSE t.staged[j]
BY Fields, NoneAssumption DEF Stagings

(* The same, place by place.                                               *)
FilePut(i, v) == file'[i] = v /\ \A j \in Names : j # i => file'[j] = file[j]
TxnPut(q, u) ==
  /\ u \in Txns /\ u # None /\ txn'[q] = u
  /\ \A r \in Procs : r # q => txn'[r] = txn[r]
Alike(u, t)  == u.init = t.init /\ u.next = t.next
Backed(u, t, i, b) ==
  /\ Alike(u, t) /\ u.manifest = t.manifest /\ u.backup[i] = b
  /\ \A j \in Names : u.staged[j] = t.staged[j] /\ (j # i => u.backup[j] = t.backup[j])
Staged(u, t, i, s) ==
  /\ Alike(u, t) /\ u.manifest = t.manifest /\ u.staged[i] = s
  /\ \A j \in Names : u.backup[j] = t.backup[j] /\ (j # i => u.staged[j] = t.staged[j])
Noted(u, t, s) ==
  /\ Alike(u, t) /\ u.manifest = s
  /\ \A j \in Names : u.staged[j] = t.staged[j] /\ u.backup[j] = t.backup[j]
Cleaned(u, t) ==
  /\ Alike(u, t) /\ u.manifest = Removed(t.manifest)
  /\ \A j \in Names : u.staged[j] = Removed(t.staged[j]) /\ u.backup[j] = t.backup[j]

LEMMA FilePuts ==
  ASSUME PlanTypeOK, NEW i \in Names, NEW v, file' = [file EXCEPT ![i] = v]
  PROVE  FilePut(i, v)
BY DEF FilePut, PlanTypeOK, Pairs, Names

LEMMA TxnPuts ==
  ASSUME PlanTypeOK, NEW q \in Procs, NEW u \in Txns, txn' = [txn EXCEPT ![q] = u]
  PROVE  TxnPut(q, u)
BY NoneAssumption DEF TxnPut, PlanTypeOK

LEMMA BackupPuts ==
  ASSUME PlanTypeOK, NEW q \in Procs, txn[q] # None, NEW i \in Names, NEW b \in BOOLEAN,
         txn' = [txn EXCEPT ![q].backup[i] = b]
  PROVE  \E u \in Txns : TxnPut(q, u) /\ Backed(u, txn[q], i, b)
<1> DEFINE u == BackedUp(txn[q], i, b)
<1>1. txn[q] \in Txns BY DEF PlanTypeOK
<1>2. txn' = [txn EXCEPT ![q] = u] BY <1>1 DEF BackedUp, PlanTypeOK
<1>3. u \in Txns /\ Backed(u, txn[q], i, b) BY <1>1, BackupFields DEF Backed, Alike
<1> HIDE DEF u
<1>4. TxnPut(q, u) BY <1>2, <1>3, TxnPuts
<1>5. QED BY <1>3, <1>4

LEMMA StagedPuts ==
  ASSUME PlanTypeOK, NEW q \in Procs, txn[q] # None, NEW i \in Names,
         NEW s \in Stagings,
         txn' = [txn EXCEPT ![q].staged[i] = s]
  PROVE  \E u \in Txns : TxnPut(q, u) /\ Staged(u, txn[q], i, s)
<1> DEFINE u == StagedAs(txn[q], i, s)
<1>1. txn[q] \in Txns BY DEF PlanTypeOK
<1>2. txn' = [txn EXCEPT ![q] = u] BY <1>1 DEF StagedAs, PlanTypeOK
<1>3. u \in Txns /\ Staged(u, txn[q], i, s) BY <1>1, StagedFields DEF Staged, Alike
<1> HIDE DEF u
<1>4. TxnPut(q, u) BY <1>2, <1>3, TxnPuts
<1>5. QED BY <1>3, <1>4

Quiet(p) ==
  /\ scene'.kind = scene.kind /\ scene'.arg = scene.arg /\ part' = part /\ got' = got
  /\ cur' = cur /\ told' = told /\ stolen' = stolen

(* Each step of a transaction, of the one at txn[p] or txn[cur[p]].        *)
MovesFile(p, i) ==
  LET t == txn[p] IN
  /\ pc'[p] = "move" /\ t.init[i] # None /\ ~t.backup[i] /\ FilePut(i, None)
  /\ \E u \in Txns : TxnPut(p, u) /\ Backed(u, t, i, TRUE)
HasMoved(p) ==
  /\ pc'[p] = "install" /\ UNCHANGED <<file, txn>>
  /\ \A i \in Names : txn[p].init[i] = None \/ txn[p].backup[i]
GivesUp(p) == pc'[p] = "undo" /\ UNCHANGED <<file, txn>>

LEMMA Moves ==
  ASSUME PlanTypeOK, NEW p \in Procs, MoveToBackup(p)
  PROVE  /\ pc[p] = "move" /\ txn[p] \in Txns /\ Quiet(p) /\ served' = served
         /\ HasMoved(p) \/ GivesUp(p) \/ \E i \in Names : MovesFile(p, i)
<1> DEFINE t == txn[p]
           L == {j \in Names : t.init[j] # None /\ ~t.backup[j]}
           i == First(L)
<1>1. pc[p] = "move" /\ t # None /\ Quiet(p) /\ served' = served
  BY DEF Quiet, MoveToBackup, history, lockVars, Goto
<1>2. t \in Txns BY <1>1 DEF PlanTypeOK
<1>3. CASE L = {} /\ Goto(p, "install") /\ UNCHANGED <<file, touched, txn>>
  <2>1. HasMoved(p) BY <1>1, <1>2, <1>3 DEF PlanTypeOK, Goto, HasMoved
  <2>2. QED BY <1>1, <1>2, <2>1
<1>4. CASE L # {} /\ Goto(p, "undo") /\ UNCHANGED <<file, touched, txn>>
  <2>1. GivesUp(p) BY <1>1, <1>2, <1>4 DEF PlanTypeOK, Goto, GivesUp
  <2>2. QED BY <1>1, <1>2, <2>1
<1>5. CASE /\ L # {} /\ Put(p, i, None) /\ txn' = [txn EXCEPT ![p].backup[i] = TRUE]
           /\ UNCHANGED <<pc, told>>
  <2>1. i \in L /\ i \in Names BY <1>5 DEF First, Names
  <2>2. pc'[p] = "move" /\ file' = [file EXCEPT ![i] = None]
        /\ txn' = [txn EXCEPT ![p].backup[i] = TRUE]
    BY <1>1, <1>5 DEF Put
  <2>3. t.init[i] # None /\ ~t.backup[i] BY <2>1
  <2> HIDE DEF i
  <2>4. FilePut(i, None) BY <2>1, <2>2, FilePuts
  <2>5. \E u \in Txns : TxnPut(p, u) /\ Backed(u, t, i, TRUE)
    BY <1>1, <2>1, <2>2, BackupPuts
  <2>6. MovesFile(p, i) BY <2>2, <2>3, <2>4, <2>5 DEF MovesFile
  <2>7. QED BY <1>1, <1>2, <2>1, <2>6
<1>6. QED BY <1>3, <1>4, <1>5 DEF MoveToBackup

InstallsFile(p, i) ==
  LET t == txn[p] IN
  /\ pc'[p] = (IF i = "prd" THEN "validate" ELSE "install")
  /\ file[i] = None /\ FilePut(i, t.next[i])
  /\ \E u \in Txns : TxnPut(p, u) /\ Staged(u, t, i, "gone")
  /\ served' = IF i = "prd" /\ Kind(p) = "plan" THEN served \cup {p} ELSE served

LEMMA Installs ==
  ASSUME PlanTypeOK, NEW p \in Procs, Install(p), OwnerOK(p, txn[p])
  PROVE  /\ pc[p] = "install" /\ txn[p] \in Txns /\ Quiet(p)
         /\ \/ txn[p].staged["spec"] = "whole" /\ InstallsFile(p, "spec")
            \/ txn[p].staged["spec"] = "gone" /\ InstallsFile(p, "prd")
<1> DEFINE t == txn[p]
           i == First({j \in Names : t.staged[j] = "whole"})
           k == IF t.staged["spec"] = "whole" THEN "spec" ELSE "prd"
<1>1. pc[p] = "install" /\ t # None /\ Quiet(p) BY DEF Quiet, Install, history, lockVars, Goto
<1>2. t \in Txns BY <1>1 DEF PlanTypeOK
<1>3. i = k BY DEF First, Names
<1>4. file[k] = None /\ (k = "prd" => t.staged["spec"] = "gone")
  BY <1>1 DEF OwnerOK, Away
<1>5. /\ file' = [file EXCEPT ![k] = t.next[k]]
      /\ txn' = [txn EXCEPT ![p].staged[k] = "gone"]
      /\ pc' = [pc EXCEPT ![p] = IF k = "prd" THEN "validate" ELSE "install"]
      /\ IF k = "prd" /\ Kind(p) = "plan" THEN Took(p) ELSE UNCHANGED served
  BY <1>3, <1>4 DEF Install, Put, Goto
<1>6. k \in Names BY DEF Names
<1>7. k = "spec" => t.staged["spec"] = "whole" OBVIOUS
<1>8. k \in {"spec", "prd"} OBVIOUS
<1> HIDE DEF k
<1>9. \E u \in Txns : TxnPut(p, u) /\ Staged(u, t, k, "gone")
  <2>1. "gone" \in Stagings BY DEF Stagings
  <2>2. QED BY <1>1, <1>5, <1>6, <2>1, StagedPuts
<1>10. pc'[p] = IF k = "prd" THEN "validate" ELSE "install" BY <1>5 DEF PlanTypeOK
<1>11. FilePut(k, t.next[k]) BY <1>5, <1>6, FilePuts
<1>12. InstallsFile(p, k)
  BY <1>4, <1>5, <1>9, <1>10, <1>11 DEF InstallsFile, Took
<1>13. QED BY <1>1, <1>2, <1>4, <1>7, <1>8, <1>12

NotesManifest(p) ==
  LET t == txn[p] IN
  /\ pc'[p] = "stage" /\ t.manifest # "whole"
  /\ \E u \in Txns : TxnPut(p, u) /\ Noted(u, t, Half(t.manifest))
StagesFile(p, i) ==
  LET t == txn[p] IN
  /\ pc'[p] = "stage" /\ t.manifest = "whole"
  /\ \E u \in Txns : TxnPut(p, u) /\ Staged(u, t, i, Half(t.staged[i]))
HasStaged(p) ==
  /\ pc'[p] \in {"move", "undo"} /\ UNCHANGED txn /\ txn[p].manifest = "whole"
  /\ \A i \in Names : txn[p].staged[i] = "whole"

LEMMA Stages ==
  ASSUME PlanTypeOK, NEW p \in Procs, Stage(p)
  PROVE  /\ pc[p] = "stage" /\ txn[p] \in Txns /\ Quiet(p) /\ served' = served
         /\ UNCHANGED file
         /\ NotesManifest(p) \/ HasStaged(p) \/ \E i \in Names : StagesFile(p, i)
<1> DEFINE t == txn[p]
           L == {i \in Names : t.staged[i] # "whole"}
           i == First(L)
<1>1. pc[p] = "stage" /\ t # None /\ Quiet(p) /\ served' = served /\ UNCHANGED file
  BY DEF Quiet, Stage, history, lockVars, mine, Goto
<1>2. t \in Txns BY <1>1 DEF PlanTypeOK
<1>3. CASE txn' = [txn EXCEPT ![p].manifest = Half(@)] /\ t.manifest # "whole"
            /\ UNCHANGED <<pc, told>>
  <2> DEFINE u == [t EXCEPT !.manifest = Half(t.manifest)]
  <2>1. txn' = [txn EXCEPT ![p] = u] BY <1>2, <1>3 DEF PlanTypeOK
  <2>2. Half(t.manifest) \in {"no", "part", "whole"} BY DEF Half
  <2>3. u \in Txns BY <1>2, <2>2 DEF Txns
  <2>4. Noted(u, t, Half(t.manifest)) BY <1>2 DEF Noted, Alike, Txns
  <2> HIDE DEF u
  <2>5. TxnPut(p, u) BY <2>1, <2>3, TxnPuts
  <2>6. NotesManifest(p) BY <1>1, <1>3, <2>3, <2>4, <2>5 DEF NotesManifest
  <2>7. QED BY <1>1, <1>2, <2>6
<1>4. CASE /\ t.manifest = "whole" /\ L # {} /\ UNCHANGED <<pc, told>>
           /\ txn' = [txn EXCEPT ![p].staged[i] = Half(@)]
  <2>1. i \in Names BY DEF First, Names
  <2> HIDE DEF i
  <2> DEFINE s == Half(t.staged[i])
  <2>2. s \in Stagings BY DEF Half, Stagings
  <2>3. txn' = [txn EXCEPT ![p].staged[i] = s] BY <1>2, <1>4
  <2> HIDE DEF s
  <2>4. \E u \in Txns : TxnPut(p, u) /\ Staged(u, t, i, s)
    BY <1>1, <2>1, <2>2, <2>3, StagedPuts
  <2>5. StagesFile(p, i) BY <1>1, <1>4, <2>4 DEF StagesFile, s
  <2>6. QED BY <1>1, <1>2, <2>1, <2>5
<1>5. CASE t.manifest = "whole" /\ L = {} /\ UNCHANGED txn
           /\ Goto(p, IF touched[p] = {} THEN "move" ELSE "undo")
  <2>1. pc'[p] \in {"move", "undo"} BY <1>5 DEF PlanTypeOK, Goto
  <2>2. \A j \in Names : t.staged[j] = "whole" BY <1>5
  <2>3. HasStaged(p) BY <1>5, <2>1, <2>2 DEF HasStaged
  <2>4. QED BY <1>1, <1>2, <2>3
<1>6. QED BY <1>3, <1>4, <1>5 DEF Stage

UndoFree(p, i) ==
  i = "spec" => /\ txn[p].staged["prd"] # "gone" /\ ~txn[p].backup["prd"]
                /\ file["prd"] = txn[p].init["prd"]
TakesBack(p, i) ==
  LET t == txn[p] IN
  /\ pc'[p] = "undo" /\ Quiet(p) /\ t.staged[i] = "gone" /\ UndoFree(p, i)
  /\ FilePut(i, None) /\ \E u \in Txns : TxnPut(p, u) /\ Staged(u, t, i, "whole")
  /\ served' = IF i = "prd" THEN served \ {p} ELSE served
GivesBack(p, i) ==
  LET t == txn[p] IN
  /\ pc'[p] = "undo" /\ Quiet(p) /\ t.staged[i] # "gone" /\ t.backup[i] /\ UndoFree(p, i)
  /\ FilePut(i, t.init[i]) /\ \E u \in Txns : TxnPut(p, u) /\ Backed(u, t, i, FALSE)
  /\ served' = served
HasUndone(p) ==
  /\ Leave(p, "again") /\ served' = served
  /\ \A i \in Names : txn[p].staged[i] # "gone" /\ ~txn[p].backup[i]
  /\ file = txn[p].init /\ UNCHANGED file /\ txn' = [txn EXCEPT ![p] = None]
Refuses(p) == Leave(p, "refused") /\ UNCHANGED <<served, file, txn>>

LEMMA Undoes ==
  ASSUME PlanTypeOK, NEW p \in Procs, Undo(p)
  PROVE  /\ pc[p] = "undo" /\ txn[p] \in Txns /\ part' = part /\ scene' = scene
         /\ stolen' = stolen
         /\ HasUndone(p) \/ Refuses(p) \/ \E i \in Names : TakesBack(p, i) \/ GivesBack(p, i)
<1> DEFINE t == txn[p]
           L == {j \in Names : t.staged[j] = "gone" \/ t.backup[j]}
           i == IF "prd" \in L THEN "prd" ELSE "spec"
           clean == /\ L # {} /\ i \notin touched[p]
                    /\ i = "spec" => file["prd"] = t.init["prd"]
<1>1. pc[p] = "undo" /\ t # None /\ part' = part /\ scene' = scene /\ stolen' = stolen
  BY DEF Undo
<1>2. t \in Txns BY <1>1 DEF PlanTypeOK
<1>3. CASE Leave(p, "again") /\ L = {} /\ file = t.init /\ UNCHANGED <<file, served>>
              /\ txn' = [txn EXCEPT ![p] = None]
  BY <1>1, <1>2, <1>3 DEF HasUndone
<1>4. CASE Leave(p, "refused") /\ UNCHANGED <<file, txn, served>>
  BY <1>1, <1>2, <1>4 DEF Refuses
<1>5. CASE clean /\ t.staged[i] = "gone" /\ Put(p, i, None)
           /\ txn' = [txn EXCEPT ![p].staged[i] = "whole"]
           /\ served' = (IF i = "prd" THEN served \ {p} ELSE served)
           /\ UNCHANGED <<pc, told, got, tries, cur>>
  <2>1. i \in Names /\ UndoFree(p, i) BY <1>5 DEF Names, UndoFree
  <2>2. Quiet(p) /\ pc'[p] = "undo" /\ file' = [file EXCEPT ![i] = None]
    BY <1>1, <1>5 DEF Quiet, Put
  <2> HIDE DEF i
  <2>3. FilePut(i, None) BY <2>1, <2>2, FilePuts
  <2>4. \E u \in Txns : TxnPut(p, u) /\ Staged(u, t, i, "whole")
    <3>1. "whole" \in Stagings BY DEF Stagings
    <3>2. QED BY <1>1, <1>5, <2>1, <3>1, StagedPuts
  <2>5. TakesBack(p, i) BY <1>5, <2>1, <2>2, <2>3, <2>4 DEF TakesBack
  <2>6. QED BY <1>1, <1>2, <2>1, <2>5
<1>6. CASE clean /\ t.staged[i] # "gone" /\ Put(p, i, t.init[i])
           /\ txn' = [txn EXCEPT ![p].backup[i] = FALSE]
           /\ UNCHANGED <<pc, told, got, tries, cur, served>>
  <2>1. i \in Names /\ UndoFree(p, i) /\ t.backup[i] BY <1>6 DEF Names, UndoFree
  <2>2. Quiet(p) /\ pc'[p] = "undo" /\ file' = [file EXCEPT ![i] = t.init[i]]
    BY <1>1, <1>6 DEF Quiet, Put
  <2> HIDE DEF i
  <2>3. FilePut(i, t.init[i]) BY <2>1, <2>2, FilePuts
  <2>4. \E u \in Txns : TxnPut(p, u) /\ Backed(u, t, i, FALSE)
    BY <1>1, <1>6, <2>1, BackupPuts
  <2>5. GivesBack(p, i) BY <1>6, <2>1, <2>2, <2>3, <2>4 DEF GivesBack
  <2>6. QED BY <1>1, <1>2, <2>1, <2>5
<1>7. QED BY <1>3, <1>4, <1>5, <1>6 DEF Undo

Cleans(p, i) ==
  /\ pc'[p] = "restore" /\ Quiet(p) /\ ClassIn(file, i, txn[cur[p]]) = "next"
  /\ i = "prd" => ~DisplacedIn(file, "spec", txn[cur[p]])
  /\ FilePut(i, None) /\ UNCHANGED txn
Restocks(p, i) ==
  LET t == txn[cur[p]] IN
  /\ pc'[p] = "restore" /\ Quiet(p) /\ ClassIn(file, i, t) = "missing" /\ t.init[i] # None
  /\ i = "prd" => ~DisplacedIn(file, "spec", t)
  /\ FilePut(i, t.init[i])
  /\ \E u \in Txns : TxnPut(cur[p], u) /\ Backed(u, t, i, FALSE)
HasRestored(p) ==
  /\ pc'[p] = "sweep" /\ Quiet(p) /\ UNCHANGED <<file, txn>>
  /\ \A i \in Names : ~DisplacedIn(file, i, txn[cur[p]])

LEMMA Restores ==
  ASSUME PlanTypeOK, NEW p \in Procs, RecoverOK(p), Restore(p)
  PROVE  /\ pc[p] = "restore" /\ cur[p] \in Procs /\ txn[cur[p]] \in Txns
         /\ txn[cur[p]] # None
         /\ part' = part /\ scene' = scene /\ stolen' = stolen /\ served' = served
         /\ HasRestored(p) \/ Refuses(p) \/ \E i \in Names : Cleans(p, i) \/ Restocks(p, i)
<1> DEFINE q == cur[p]
           t == txn[q]
           D == {i \in Names : DisplacedIn(file, i, t)}
           i == First(D)
<1>1. /\ pc[p] = "restore" /\ q \in Procs /\ t # None
      /\ part' = part /\ scene' = scene /\ stolen' = stolen /\ served' = served
  BY DEF Restore, RecoverOK, history
<1>2. t \in Txns BY <1>1 DEF PlanTypeOK
<1>3. CASE /\ D = {} /\ Goto(p, "sweep")
           /\ UNCHANGED <<file, txn, got, tries, cur, touched>>
  BY <1>1, <1>2, <1>3 DEF Quiet, Goto, PlanTypeOK, HasRestored
<1>4. CASE D # {} /\ i \in touched[p] /\ Leave(p, "refused") /\ UNCHANGED <<file, txn>>
  BY <1>1, <1>2, <1>4 DEF Refuses
<1>5. CASE /\ D # {} /\ ClassIn(file, i, t) = "next"
           /\ Put(p, i, None) /\ UNCHANGED <<pc, told, txn, got, tries, cur>>
  <2>1. i \in Names /\ (i = "prd" => ~DisplacedIn(file, "spec", t)) BY <1>5 DEF Names, First
  <2>2. Quiet(p) /\ pc'[p] = "restore" /\ file' = [file EXCEPT ![i] = None]
    BY <1>1, <1>5 DEF Quiet, Put
  <2> HIDE DEF i
  <2>3. FilePut(i, None) BY <2>1, <2>2, FilePuts
  <2>4. Cleans(p, i) BY <1>5, <2>1, <2>2, <2>3 DEF Cleans
  <2>5. QED BY <1>1, <1>2, <2>1, <2>4
<1>6. CASE /\ D # {} /\ ClassIn(file, i, t) = "missing"
           /\ Put(p, i, t.init[i]) /\ txn' = [txn EXCEPT ![q].backup[i] = FALSE]
           /\ UNCHANGED <<pc, told, got, tries, cur>>
  <2>1. i \in Names /\ (i = "prd" => ~DisplacedIn(file, "spec", t)) /\ DisplacedIn(file, i, t)
    BY <1>6 DEF Names, First
  <2>2. Quiet(p) /\ pc'[p] = "restore" /\ file' = [file EXCEPT ![i] = t.init[i]]
    BY <1>1, <1>6 DEF Quiet, Put
  <2> HIDE DEF i
  <2>3. FilePut(i, t.init[i]) BY <2>1, <2>2, FilePuts
  <2>4. \E u \in Txns : TxnPut(q, u) /\ Backed(u, t, i, FALSE)
    BY <1>1, <1>6, <2>1, BackupPuts
  <2>5. t.init[i] # None BY <1>6, <2>1 DEF DisplacedIn
  <2>6. Restocks(p, i) BY <1>6, <2>1, <2>2, <2>3, <2>4, <2>5 DEF Restocks
  <2>7. QED BY <1>1, <1>2, <2>1, <2>6
<1>7. /\ \A j : Class(j, t) = ClassIn(file, j, t)
      /\ \A j : Displaced(j, t) = DisplacedIn(file, j, t)
  BY AsIn
<1>8. D = {j \in Names : Displaced(j, t)} BY <1>7
<1>9. QED BY <1>3, <1>4, <1>5, <1>6, <1>7, <1>8 DEF Restore

BreaksOff(p) ==
  /\ pc[p] \in {"stage", "move", "install", "validate"} /\ txn[p] \in Txns
  /\ Quiet(p) /\ pc'[p] = "undo"
  /\ \E u \in Txns : TxnPut(p, u) /\ Cleaned(u, txn[p])

LEMMA Faults ==
  ASSUME PlanTypeOK, NEW p \in Procs, Fault(p)
  PROVE  /\ part' = part /\ served' = served /\ stolen' = stolen /\ UNCHANGED file
         /\ scene'.kind = scene.kind /\ scene'.arg = scene.arg
         /\ \/ BreaksOff(p)
            \/ /\ pc[p] = "close" /\ UNCHANGED txn
               /\ Leave(p, IF Kind(p) = "plan" THEN "ok" ELSE "no")
            \/ pc[p] = "check" /\ UNCHANGED txn /\ Leave(p, "again")
            \/ pc[p] = "confirm" /\ UNCHANGED txn /\ Leave(p, "refused")
<1>1. part' = part /\ served' = served /\ stolen' = stolen /\ UNCHANGED file
      /\ scene'.kind = scene.kind /\ scene'.arg = scene.arg
  BY DEF Fault, history, PlanTypeOK
<1>2. CASE pc[p] \in {"stage", "move", "install", "validate"} /\ txn[p] # None
  <2> DEFINE u == Cleared(txn[p])
  <2>1. txn[p] \in Txns BY <1>2 DEF PlanTypeOK
  <2>2. txn' = [txn EXCEPT ![p].manifest = Removed(@),
                           ![p].staged = [i \in Names |-> Removed(@[i])]]
        /\ Goto(p, "undo") /\ UNCHANGED <<got, tries, cur, touched>>
    BY <1>2 DEF Fault
  <2>3. txn' = [txn EXCEPT ![p] = u]
    BY <2>1, <2>2 DEF Cleared, PlanTypeOK, Txns
  <2>4. u \in Txns /\ Cleaned(u, txn[p]) BY <2>1, Fields DEF Cleaned, Alike
  <2> HIDE DEF u
  <2>5. TxnPut(p, u) BY <2>3, <2>4, TxnPuts
  <2>6. BreaksOff(p)
    BY <1>1, <1>2, <2>1, <2>2, <2>4, <2>5 DEF Goto, Quiet, PlanTypeOK, BreaksOff
  <2>7. QED BY <1>1, <2>6
<1>3. CASE ~(pc[p] \in {"stage", "move", "install", "validate"} /\ txn[p] # None)
  BY <1>1, <1>3 DEF Fault
<1>4. QED BY <1>2, <1>3

LEMMA CommandsReplace ==
  ASSUME PlanTypeOK, TxnsOK, NEW p \in Procs, CommandOK(p), RecoverOK(p),
         Replace(p) \/ Fault(p) \/ Die(p),
         Owns(p) => txn[p] # None /\ OwnerOK(p, txn[p])
  PROVE  CommandOK(p)'
<1> USE DEF AtSwap, AtPair, AtTxn, Ending
<1>p. "prd" \in Names /\ "spec" \in Names BY DEF Names
<1>k. Kind(p) \in Commands BY DEF PlanTypeOK, Kind
<1>q. ASSUME Quiet(p)
      PROVE  /\ Kind(p)' = Kind(p) /\ Arg(p)' = Arg(p) /\ part'[p] = part[p] /\ got'[p] = got[p]
             /\ told'[p] = told[p]
  BY <1>q DEF Quiet, Kind, Arg
<1>l. ASSUME NEW what, Leave(p, what), scene'.kind = scene.kind,
             scene'.arg = scene.arg, part' = part
      PROVE  /\ Kind(p)' = Kind(p) /\ Arg(p)' = Arg(p) /\ part'[p] = part[p] /\ got'[p] = None
             /\ told'[p] = what /\ pc'[p] = "release"
  BY <1>l DEF Leave, Forget, Hold, Kind, Arg, PlanTypeOK
<1>r. ASSUME Leave(p, "refused"), scene'.kind = scene.kind, scene'.arg = scene.arg, part' = part,
             served' = served, pc[p] \in AtPair \/ pc[p] = "confirm"
      PROVE  CommandOK(p)'
  <2>1. /\ Kind(p)' = Kind(p) /\ Arg(p)' = Arg(p) /\ part'[p] = part[p] /\ got'[p] = None
        /\ told'[p] = "refused" /\ pc'[p] = "release"
    BY <1>l, <1>r
  <2>2. Kind(p) # "idle" BY <1>r DEF CommandOK
  <2>3. QED BY <1>r, <2>1, <2>2 DEF CommandOK, Owns
<1>1. CASE Recover(p)
  BY <1>1, <1>k DEF Recover, Ahead, Owns, Goto, Leave, Forget, Hold, PlanTypeOK, CommandOK,
                    Kind, Arg, history, Commands
<1>2. CASE Restore(p)
  <2>1. pc[p] = "restore" /\ served' = served /\ scene' = scene /\ part' = part
        /\ (Leave(p, "refused") \/ (Quiet(p) /\ pc'[p] \in {"restore", "sweep"}))
    BY <1>2, Restores DEF HasRestored, Refuses, Cleans, Restocks
  <2>2. CASE Leave(p, "refused") BY <2>1, <2>2, <1>r
  <2>3. CASE Quiet(p) /\ pc'[p] \in {"restore", "sweep"}
    BY <2>1, <2>3, <1>q DEF CommandOK, Owns
  <2>4. QED BY <2>1, <2>2, <2>3
<1>3. CASE Sweep(p)
  <2>1. pc[p] = "sweep" /\ pc'[p] = Ahead(p) /\ scene' = scene /\ part' = part /\ got' = got
        /\ told' = told /\ served' = served
    BY <1>3 DEF Sweep, Goto, PlanTypeOK, history
  <2>2. QED BY <2>1, <1>k DEF Ahead, Owns, CommandOK, Kind, Arg, Commands
<1>4. CASE ValidatePair(p)
  <2>1. pc[p] = "validate" /\ Kind(p) = "check" /\ scene' = scene /\ part' = part
        /\ \/ Leave(p, "ok") /\ served' = served \cup {p}
           \/ Leave(p, "refused") /\ served' = served
    BY <1>4 DEF ValidatePair, Took
  <2>2. CASE Leave(p, "refused") /\ served' = served BY <2>1, <2>2, <1>r
  <2>3. CASE Leave(p, "ok") /\ served' = served \cup {p}
    BY <2>1, <2>3, <1>l DEF CommandOK, Owns
  <2>4. QED BY <2>1, <2>2, <2>3
<1>5. CASE OpenTxn(p)
  <2>1. pc[p] = "open" /\ pc'[p] = "stage" /\ scene' = scene /\ part' = part /\ got' = got
        /\ told' = told /\ served' = served
    BY <1>5 DEF OpenTxn, Goto, PlanTypeOK, history
  <2>2. QED BY <2>1 DEF Owns, CommandOK, Kind, Arg
<1>6. CASE Stage(p)
  <2>1. pc[p] = "stage" /\ Quiet(p) /\ served' = served
        /\ pc'[p] \in {"stage", "move", "undo"}
    BY <1>6, Stages DEF NotesManifest, StagesFile, HasStaged
  <2>2. p \notin served BY <2>1, <1>p DEF OwnerOK, Owns, CommandOK
  <2>3. QED BY <2>1, <2>2, <1>q DEF Owns, CommandOK
<1>7. CASE MoveToBackup(p)
  <2>1. pc[p] = "move" /\ Quiet(p) /\ served' = served
        /\ pc'[p] \in {"move", "install", "undo"}
    BY <1>7, Moves DEF HasMoved, GivesUp, MovesFile
  <2>2. p \notin served BY <2>1, <1>p DEF OwnerOK, Owns, CommandOK
  <2>3. QED BY <2>1, <2>2, <1>q DEF Owns, CommandOK
<1>8. CASE Install(p)
  <2>1. pc[p] = "install" /\ p \notin served /\ OwnerOK(p, txn[p])
    <3>1. pc[p] = "install" BY <1>8 DEF Install
    <3>2. OwnerOK(p, txn[p]) BY <3>1 DEF Owns
    <3>3. QED BY <3>1, <3>2, <1>p DEF OwnerOK, CommandOK
  <2>2. Quiet(p) /\ (InstallsFile(p, "spec") \/ InstallsFile(p, "prd"))
    BY <1>8, <2>1, Installs
  <2>3. CASE InstallsFile(p, "spec")
    <3>1. pc'[p] = "install" /\ served' = served BY <2>3 DEF InstallsFile
    <3>2. QED BY <2>1, <2>2, <3>1, <1>q DEF Owns, CommandOK
  <2>4. CASE InstallsFile(p, "prd")
    <3>1. pc'[p] = "validate"
          /\ served' = IF Kind(p) = "plan" THEN served \cup {p} ELSE served
      BY <2>4 DEF InstallsFile
    <3>2. txn'[p] # None /\ txn'[p].staged["prd"] = "gone"
      BY <2>4 DEF InstallsFile, TxnPut, Staged
    <3>3. QED BY <2>1, <2>2, <3>1, <3>2, <1>q DEF Owns, CommandOK
  <2>5. QED BY <2>2, <2>3, <2>4
<1>9. CASE ValidateInstalled(p)
  <2>1. pc[p] = "validate" /\ Kind(p) # "check" /\ pc'[p] \in {"close", "undo"} /\ scene' = scene
        /\ part' = part /\ got' = got /\ told' = told /\ served' = served /\ txn' = txn
    BY <1>9 DEF ValidateInstalled, Goto, PlanTypeOK, history, mine, pairVars
  <2>2. QED BY <2>1 DEF Owns, CommandOK, Kind, Arg
<1>10. CASE CloseTxn(p)
  <2>1. pc[p] = "close" /\ part' = part /\ scene' = scene /\ served' = served
        /\ Leave(p, IF Kind(p) = "plan" THEN "ok" ELSE "no")
    BY <1>10 DEF CloseTxn, history
  <2>2. Kind(p) \in {"plan", "trivial"} BY <2>1, <1>k DEF Owns, Commands, CommandOK
  <2>3. CASE Kind(p) = "plan"
    BY <2>1, <2>3, <1>l DEF Owns, CommandOK
  <2>4. CASE Kind(p) = "trivial"
    BY <2>1, <2>4, <1>l DEF Owns, CommandOK
  <2>5. QED BY <2>2, <2>3, <2>4
<1>11. CASE Undo(p)
  <2>1. /\ pc[p] = "undo" /\ txn[p] \in Txns /\ part' = part /\ scene' = scene
        /\ HasUndone(p) \/ Refuses(p) \/ \E i \in Names : TakesBack(p, i) \/ GivesBack(p, i)
    BY <1>11, Undoes
  <2>2. p \in served => txn[p].staged["prd"] = "gone" BY <2>1 DEF CommandOK
  <2>3. ASSUME NEW i \in Names, TakesBack(p, i) PROVE CommandOK(p)'
    <3>1. p \notin served' BY <2>2, <2>3 DEF Names, PlanTypeOK, TakesBack, UndoFree
    <3>2. pc'[p] = "undo" /\ Quiet(p) BY <2>3 DEF TakesBack
    <3>3. QED BY <2>1, <3>1, <3>2, <1>q DEF Owns, CommandOK
  <2>4. ASSUME NEW i \in Names, GivesBack(p, i) PROVE CommandOK(p)'
    <3>1. pc'[p] = "undo" /\ Quiet(p) /\ served' = served /\ txn'[p] # None
          /\ txn'[p].staged["prd"] = txn[p].staged["prd"]
      BY <2>4, <1>p DEF GivesBack, TxnPut, Backed
    <3>2. QED BY <2>1, <3>1, <1>q DEF Owns, CommandOK
  <2>5. CASE HasUndone(p)
    <3>1. p \notin served /\ served' = served /\ Leave(p, "again")
      BY <2>2, <2>5, <1>p DEF HasUndone
    <3>2. QED BY <2>1, <3>1, <1>l DEF Owns, CommandOK
  <2>6. CASE Refuses(p) BY <2>1, <2>6, <1>r DEF Refuses
  <2>7. QED BY <2>1, <2>3, <2>4, <2>5, <2>6
<1>12. CASE LoseTxn(p)
  BY <1>12, <1>r DEF LoseTxn, history
<1>13. CASE Fault(p)
  <2>1. /\ part' = part /\ served' = served
        /\ scene'.kind = scene.kind /\ scene'.arg = scene.arg
    BY <1>13, Faults
  <2>2. CASE BreaksOff(p)
    <3>1. txn'[p] # None /\ txn'[p].staged["prd"] = Removed(txn[p].staged["prd"])
          /\ pc[p] \in {"stage", "move", "install", "validate"} /\ txn[p] \in Txns
          /\ Quiet(p) /\ pc'[p] = "undo"
      BY <2>2, <1>p DEF BreaksOff, TxnPut, Cleaned
    <3>2. p \in served => Kind(p) = "plan" /\ txn'[p].staged["prd"] = "gone"
      BY <3>1 DEF CommandOK, Removed
    <3>3. Kind(p) # "check"
      <4>1. txn[p] # None BY <3>1, NoneAssumption
      <4>2. QED BY <4>1 DEF TxnsOK, OpenTxns
    <3>4. QED BY <2>1, <3>1, <3>2, <3>3, <1>q DEF Owns, CommandOK
  <2>3. CASE pc[p] = "close" /\ Leave(p, IF Kind(p) = "plan" THEN "ok" ELSE "no")
    <3>1. Kind(p) \in {"plan", "trivial"} BY <2>3, <1>k DEF Owns, Commands, CommandOK
    <3>2. CASE Kind(p) = "plan"
      BY <2>1, <2>3, <3>2, <1>l DEF Owns, CommandOK
    <3>3. CASE Kind(p) = "trivial"
      BY <2>1, <2>3, <3>3, <1>l DEF Owns, CommandOK
    <3>4. QED BY <3>1, <3>2, <3>3
  <2>4. CASE pc[p] = "check" /\ Leave(p, "again")
    BY <2>1, <2>4, <1>l DEF Owns, CommandOK
  <2>5. CASE pc[p] = "confirm" /\ Leave(p, "refused") BY <2>1, <2>5, <1>r
  <2>6. QED BY <1>13, <2>2, <2>3, <2>4, <2>5, Faults
<1>14. CASE Die(p)
  BY <1>14 DEF Die, Owns, Forget, PlanTypeOK, CommandOK, Kind, Arg, history
<1>15. QED BY <1>1, <1>2, <1>3, <1>4, <1>5, <1>6, <1>7, <1>8, <1>9, <1>10, <1>11, <1>12,
              <1>13, <1>14 DEF Replace
-----------------------------------------------------------------------------
(* The transaction that is open.                                           *)

LEMMA OneTxn ==
  ASSUME TxnsOK, NEW q \in Procs, txn[q] # None, NEW u, TxnPut(q, u),
         scene'.kind = scene.kind, TxnOK(file', u)
  PROVE  TxnsOK'
<1>1. \A r \in Procs : txn'[r] # None <=> r = q BY DEF TxnsOK, OpenTxns, TxnPut
<1>2. OpenTxns' = {q} BY <1>1 DEF OpenTxns
<1>3. TxnOK(file', txn'[q]) BY DEF TxnPut
<1>4. Kind(q)' # "check" BY DEF Kind, TxnsOK, OpenTxns
<1>5. QED BY <1>2, <1>3, <1>4 DEF TxnsOK

LEMMA SameTxn ==
  ASSUME TxnsOK, txn' = txn, scene'.kind = scene.kind,
         \A q \in OpenTxns : TxnOK(file', txn[q]), OpenTxns = {} => Whole(file')
  PROVE  TxnsOK'
BY DEF TxnsOK, OpenTxns, Kind

LEMMA NoTxn ==
  ASSUME \A r \in Procs : txn'[r] = None, Whole(file')
  PROVE  TxnsOK' /\ OpenTxns' = {}
BY DEF TxnsOK, OpenTxns

LEMMA ClosedTxn ==
  ASSUME PlanTypeOK, TxnsOK, NEW q \in Procs, txn[q] # None, txn' = [txn EXCEPT ![q] = None]
  PROVE  \A r \in Procs : txn'[r] = None
BY DEF TxnsOK, OpenTxns, PlanTypeOK

LEMMA NextOf ==
  ASSUME NEW f, NEW t, TxnOK(f, t)
  PROVE  /\ \E n \in DOMAIN TextOf : t.next = [spec |-> TextOf[n], prd |-> Prd(n)]
         /\ t.next["spec"] # None /\ t.next["prd"] # None
         /\ t.next["prd"].assigned = None /\ Whole(t.next)
<1>1. PICK n \in DOMAIN TextOf : t.next = [spec |-> TextOf[n], prd |-> Prd(n)]
  BY DEF TxnOK
<1>2. QED BY <1>1, NextPlan

(* Who is at the files.                                                    *)
LEMMA MovesKeep ==
  ASSUME PlanTypeOK, TxnsOK, NEW p \in Procs, AtWork(p), Kind(p) # "check", MoveToBackup(p)
  PROVE  TxnsOK' /\ AtWork(p)'
<1> DEFINE t == txn[p]
<1>1. /\ pc[p] = "move" /\ t \in Txns /\ Quiet(p)
      /\ HasMoved(p) \/ GivesUp(p) \/ \E i \in Names : MovesFile(p, i)
  BY Moves
<1>2. t # None /\ OwnerOK(p, t) BY <1>1 DEF AtWork, Owns, AtTxn
<1>3. TxnOK(file, t) BY <1>2 DEF TxnsOK, OpenTxns
<1>4. /\ scene'.kind = scene.kind /\ Kind(p)' = Kind(p) /\ Content(p)' = Content(p)
  BY <1>1 DEF Quiet, Kind, Content, Arg
<1>5. /\ t.next = Content(p) /\ t.manifest = "whole"
      /\ \A i \in Names : t.staged[i] = "whole" /\ (Old(file, i, t) \/ Away(file, i, t))
  BY <1>1, <1>2 DEF OwnerOK
<1>6. CASE HasMoved(p)
  <2>1. TxnsOK' BY <1>4, <1>6, SameTxn DEF HasMoved, TxnsOK
  <2>2. \A i \in Names : Away(file, i, t) BY <1>5, <1>6 DEF HasMoved, Old, Away
  <2>3. OwnerOK(p, txn[p])'
    BY <1>4, <1>5, <1>6, <2>2 DEF HasMoved, OwnerOK, Names, Away
  <2>4. QED BY <1>2, <1>6, <2>1, <2>3 DEF AtWork, RecoverOK, HasMoved
<1>7. CASE GivesUp(p)
  <2>1. TxnsOK' BY <1>4, <1>7, SameTxn DEF GivesUp, TxnsOK
  <2>2. OwnerOK(p, txn[p])'
    BY <1>4, <1>5, <1>7 DEF GivesUp, OwnerOK, Old, Away, New
  <2>3. QED BY <1>2, <1>7, <2>1, <2>2 DEF AtWork, RecoverOK, GivesUp
<1>8. ASSUME NEW i \in Names, MovesFile(p, i) PROVE TxnsOK' /\ AtWork(p)'
  <2>1. PICK u \in Txns : TxnPut(p, u) /\ Backed(u, t, i, TRUE) BY <1>8 DEF MovesFile
  <2>2. /\ pc'[p] = "move" /\ t.init[i] # None /\ FilePut(i, None) BY <1>8 DEF MovesFile
  <2>3. \A j \in Names : u.staged[j] = "whole" /\ (Old(file', j, u) \/ Away(file', j, u))
    BY <1>5, <2>1, <2>2 DEF Backed, Alike, FilePut, Old, Away
  <2>4. TxnOK(file', u)
    BY <1>3, <1>5, <2>1, <2>3 DEF TxnOK, SpecPlace, PrdPlace, Kept, Old, Away, Backed, Alike, Names
  <2>5. TxnsOK' BY <1>2, <1>4, <2>1, <2>4, OneTxn
  <2>6. txn'[p] = u /\ u # None BY <2>1 DEF TxnPut
  <2>7. OwnerOK(p, u)'
    BY <1>4, <1>5, <2>1, <2>2, <2>3 DEF OwnerOK, Backed, Alike, Old, Away
  <2>8. QED BY <2>2, <2>5, <2>6, <2>7 DEF AtWork, RecoverOK
<1>9. QED BY <1>1, <1>6, <1>7, <1>8

LEMMA InstallsKeep ==
  ASSUME PlanTypeOK, TxnsOK, NEW p \in Procs, AtWork(p), Kind(p) # "check", Install(p)
  PROVE  TxnsOK' /\ AtWork(p)'
<1> DEFINE t == txn[p]
<1>1. pc[p] = "install" /\ t # None BY DEF Install
<1>2. OwnerOK(p, t) BY <1>1 DEF AtWork, Owns, AtTxn
<1>3. TxnOK(file, t) BY <1>1 DEF TxnsOK, OpenTxns
<1>4. /\ t \in Txns /\ Quiet(p)
      /\ \/ t.staged["spec"] = "whole" /\ InstallsFile(p, "spec")
         \/ t.staged["spec"] = "gone" /\ InstallsFile(p, "prd")
  BY <1>2, Installs
<1>5. /\ scene'.kind = scene.kind /\ Kind(p)' = Kind(p) /\ Content(p)' = Content(p)
  BY <1>4 DEF Quiet, Kind, Content, Arg
<1>6. /\ t.next = Content(p) /\ t.manifest = "whole"
      /\ t.staged["prd"] = "whole" /\ Away(file, "prd", t)
  BY <1>1, <1>2 DEF OwnerOK
<1>7. CASE t.staged["spec"] = "whole" /\ InstallsFile(p, "spec")
  <2>1. PICK u \in Txns : TxnPut(p, u) /\ Staged(u, t, "spec", "gone")
    BY <1>7 DEF InstallsFile
  <2>2. pc'[p] = "install" /\ FilePut("spec", t.next["spec"]) BY <1>7 DEF InstallsFile
  <2>3. Away(file, "spec", t) BY <1>1, <1>2, <1>7 DEF OwnerOK
  <2>4. /\ New(file', "spec", u) /\ Away(file', "prd", u)
        /\ u.staged["spec"] = "gone" /\ u.staged["prd"] = "whole" /\ u.manifest = "whole"
    BY <1>6, <2>1, <2>2, <2>3 DEF Staged, Alike, FilePut, Names, New, Away
  <2>5. TxnOK(file', u)
    BY <1>3, <2>1, <2>4 DEF TxnOK, SpecPlace, PrdPlace, Staged, Alike, Names
  <2>6. TxnsOK' BY <1>1, <1>5, <2>1, <2>5, OneTxn
  <2>7. txn'[p] = u /\ u # None BY <2>1 DEF TxnPut
  <2>8. OwnerOK(p, u)' BY <1>5, <1>6, <2>1, <2>2, <2>4 DEF OwnerOK, Staged, Alike, New, Away
  <2>9. QED BY <2>2, <2>6, <2>7, <2>8 DEF AtWork, RecoverOK
<1>8. CASE t.staged["spec"] = "gone" /\ InstallsFile(p, "prd")
  <2>1. PICK u \in Txns : TxnPut(p, u) /\ Staged(u, t, "prd", "gone")
    BY <1>8 DEF InstallsFile
  <2>2. pc'[p] = "validate" /\ FilePut("prd", t.next["prd"]) BY <1>8 DEF InstallsFile
  <2>3. New(file, "spec", t) BY <1>1, <1>2, <1>8 DEF OwnerOK
  <2>4. /\ New(file', "spec", u) /\ New(file', "prd", u)
        /\ u.staged["spec"] = "gone" /\ u.staged["prd"] = "gone" /\ u.manifest = "whole"
    BY <1>6, <1>8, <2>1, <2>2, <2>3 DEF Staged, Alike, FilePut, Names, New, Away
  <2>5. TxnOK(file', u)
    BY <1>3, <2>1, <2>4 DEF TxnOK, SpecPlace, PrdPlace, Staged, Alike, Names, New
  <2>6. TxnsOK' BY <1>1, <1>5, <2>1, <2>5, OneTxn
  <2>7. txn'[p] = u /\ u # None BY <2>1 DEF TxnPut
  <2>8. OwnerOK(p, u)'
    BY <1>5, <1>6, <2>1, <2>2, <2>4 DEF OwnerOK, Staged, Alike, New, Names
  <2>9. QED BY <2>2, <2>6, <2>7, <2>8 DEF AtWork, RecoverOK
<1>9. QED BY <1>4, <1>7, <1>8

LEMMA StagesKeep ==
  ASSUME PlanTypeOK, TxnsOK, NEW p \in Procs, AtWork(p), Kind(p) # "check", Stage(p)
  PROVE  TxnsOK' /\ AtWork(p)'
<1> DEFINE t == txn[p]
<1>1. /\ pc[p] = "stage" /\ t \in Txns /\ Quiet(p) /\ UNCHANGED file
      /\ NotesManifest(p) \/ HasStaged(p) \/ \E i \in Names : StagesFile(p, i)
  BY Stages
<1>2. t # None /\ OwnerOK(p, t) BY <1>1 DEF AtWork, Owns, AtTxn
<1>3. TxnOK(file, t) BY <1>2 DEF TxnsOK, OpenTxns
<1>4. /\ scene'.kind = scene.kind /\ Kind(p)' = Kind(p) /\ Content(p)' = Content(p)
  BY <1>1 DEF Quiet, Kind, Content, Arg
<1>5. /\ t.next = Content(p) /\ Old(file, "spec", t) /\ Old(file, "prd", t)
      /\ \A i \in Names : t.staged[i] # "gone"
  BY <1>1, <1>2 DEF OwnerOK
<1>6. CASE HasStaged(p)
  <2>1. TxnsOK' BY <1>1, <1>4, <1>6, SameTxn DEF HasStaged, TxnsOK
  <2>2. OwnerOK(p, txn[p])'
    BY <1>1, <1>4, <1>5, <1>6 DEF HasStaged, OwnerOK, Names, Old
  <2>3. QED BY <1>2, <1>6, <2>1, <2>2 DEF AtWork, RecoverOK, HasStaged
<1>7. ASSUME NEW u \in Txns, TxnPut(p, u), pc'[p] = "stage", Alike(u, t),
             \A j \in Names : u.backup[j] = t.backup[j] /\ u.staged[j] # "gone",
             u.manifest # "whole" => \A j \in Names : u.staged[j] = "no"
      PROVE  TxnsOK' /\ AtWork(p)'
  <2>1. Old(file', "spec", u) /\ Old(file', "prd", u)
    BY <1>1, <1>5, <1>7 DEF Old, Alike, Names
  <2>2. TxnOK(file', u)
    BY <1>3, <1>7, <2>1 DEF TxnOK, SpecPlace, PrdPlace, Kept, Old, Alike, Names
  <2>3. TxnsOK' BY <1>2, <1>4, <1>7, <2>2, OneTxn
  <2>4. txn'[p] = u /\ u # None BY <1>7 DEF TxnPut
  <2>5. OwnerOK(p, u)' BY <1>4, <1>5, <1>7, <2>1 DEF OwnerOK, Alike, Old
  <2>6. QED BY <1>7, <2>3, <2>4, <2>5 DEF AtWork, RecoverOK
<1>8. CASE NotesManifest(p)
  <2>1. PICK u \in Txns : TxnPut(p, u) /\ Noted(u, t, Half(t.manifest))
    BY <1>8 DEF NotesManifest
  <2>2. t.manifest # "whole" /\ pc'[p] = "stage" BY <1>8 DEF NotesManifest
  <2>3. \A j \in Names : t.staged[j] = "no" BY <1>3, <2>2 DEF TxnOK
  <2>4. QED BY <1>5, <1>7, <2>1, <2>2, <2>3 DEF Noted
<1>9. ASSUME NEW i \in Names, StagesFile(p, i) PROVE TxnsOK' /\ AtWork(p)'
  <2>1. PICK u \in Txns : TxnPut(p, u) /\ Staged(u, t, i, Half(t.staged[i]))
    BY <1>9 DEF StagesFile
  <2>2. t.manifest = "whole" /\ pc'[p] = "stage" BY <1>9 DEF StagesFile
  <2>3. Half(t.staged[i]) # "gone" BY DEF Half
  <2>4. QED BY <1>5, <1>7, <2>1, <2>2, <2>3 DEF Staged
<1>10. QED BY <1>1, <1>6, <1>8, <1>9

LEMMA LeavingKeeps ==
  ASSUME NEW p \in Procs, NEW what, Leave(p, what), PlanTypeOK
  PROVE  AtWork(p)'
BY DEF Leave, PlanTypeOK, AtWork, Owns, AtTxn, RecoverOK

LEMMA UndoesKeep ==
  ASSUME PlanTypeOK, TxnsOK, NEW p \in Procs, AtWork(p), Kind(p) # "check", Undo(p)
  PROVE  TxnsOK' /\ AtWork(p)'
<1> DEFINE t == txn[p]
<1>1. /\ pc[p] = "undo" /\ t \in Txns /\ scene' = scene
      /\ HasUndone(p) \/ Refuses(p) \/ \E i \in Names : TakesBack(p, i) \/ GivesBack(p, i)
  BY Undoes
<1>2. t # None /\ OwnerOK(p, t) BY <1>1 DEF AtWork, Owns, AtTxn
<1>3. TxnOK(file, t) BY <1>2 DEF TxnsOK, OpenTxns
<1>4. /\ scene'.kind = scene.kind /\ Kind(p)' = Kind(p) /\ Content(p)' = Content(p)
  BY <1>1 DEF Kind, Content, Arg
<1>5. /\ t.next = Content(p)
      /\ \A i \in Names :
            /\ t.staged[i] # "part"
            /\ IF t.staged[i] = "gone" THEN New(file, i, t)
               ELSE Old(file, i, t) \/ Away(file, i, t)
  BY <1>1, <1>2 DEF OwnerOK
<1>6. CASE HasUndone(p)
  <2>1. \A r \in Procs : txn'[r] = None BY <1>2, <1>6, ClosedTxn DEF HasUndone
  <2>2. Whole(file') BY <1>3, <1>6 DEF HasUndone, TxnOK
  <2>3. TxnsOK' BY <2>1, <2>2, NoTxn
  <2>4. AtWork(p)' BY <1>6, LeavingKeeps DEF HasUndone
  <2>5. QED BY <2>3, <2>4
<1>7. CASE Refuses(p)
  <2>1. TxnsOK' BY <1>4, <1>7, SameTxn DEF Refuses, TxnsOK
  <2>2. AtWork(p)' BY <1>7, LeavingKeeps DEF Refuses
  <2>3. QED BY <2>1, <2>2
<1>8. ASSUME NEW u \in Txns, TxnPut(p, u), pc'[p] = "undo", Alike(u, t),
             u.manifest = "whole",
             \A j \in Names :
               /\ u.staged[j] # "part"
               /\ IF u.staged[j] = "gone" THEN New(file', j, u)
                  ELSE Old(file', j, u) \/ Away(file', j, u),
             u.staged["prd"] = "gone" => u.staged["spec"] = "gone"
      PROVE  TxnsOK' /\ AtWork(p)'
  <2>1. TxnOK(file', u)
    <3>1. /\ \E n \in DOMAIN TextOf : u.next = [spec |-> TextOf[n], prd |-> Prd(n)]
          /\ Whole(u.init)
      BY <1>3, <1>8 DEF TxnOK, Alike
    <3>2. SpecPlace(file', u) BY <1>8 DEF SpecPlace, Names
    <3>3. PrdPlace(file', u) BY <1>8 DEF PrdPlace, Names, Kept, Old, New
    <3>4. QED BY <1>8, <3>1, <3>2, <3>3 DEF TxnOK, Names
  <2>2. TxnsOK' BY <1>2, <1>4, <1>8, <2>1, OneTxn
  <2>3. txn'[p] = u /\ u # None BY <1>8 DEF TxnPut
  <2>4. OwnerOK(p, u)' BY <1>4, <1>5, <1>8 DEF OwnerOK, Alike, Old, New, Away
  <2>5. QED BY <1>8, <2>2, <2>3, <2>4 DEF AtWork, RecoverOK
<1>m. (\E i \in Names : t.staged[i] = "gone" \/ t.backup[i]) => t.manifest = "whole"
  BY <1>3, <1>1 DEF TxnOK, Old, Names, Txns
<1>g. t.staged["prd"] = "gone" => t.staged["spec"] = "gone"
  BY <1>3 DEF TxnOK, PrdPlace
<1>9. ASSUME NEW i \in Names, TakesBack(p, i) PROVE TxnsOK' /\ AtWork(p)'
  <2>1. PICK u \in Txns : TxnPut(p, u) /\ Staged(u, t, i, "whole") BY <1>9 DEF TakesBack
  <2>2. pc'[p] = "undo" /\ t.staged[i] = "gone" /\ FilePut(i, None) /\ UndoFree(p, i)
    BY <1>9 DEF TakesBack
  <2>3. Alike(u, t) /\ u.manifest = "whole" BY <2>1, <2>2, <1>m DEF Staged
  <2>4. \A j \in Names :
               /\ u.staged[j] # "part"
               /\ IF u.staged[j] = "gone" THEN New(file', j, u)
                  ELSE Old(file', j, u) \/ Away(file', j, u)
    BY <1>5, <2>1, <2>2 DEF Staged, Alike, FilePut, New, Old, Away
  <2>5. u.staged["prd"] = "gone" => u.staged["spec"] = "gone"
    BY <1>g, <2>1, <2>2 DEF Staged, UndoFree, Names
  <2>6. QED BY <1>8, <2>1, <2>2, <2>3, <2>4, <2>5
<1>10. ASSUME NEW i \in Names, GivesBack(p, i) PROVE TxnsOK' /\ AtWork(p)'
  <2>1. PICK u \in Txns : TxnPut(p, u) /\ Backed(u, t, i, FALSE) BY <1>10 DEF GivesBack
  <2>2. pc'[p] = "undo" /\ t.staged[i] # "gone" /\ t.backup[i] /\ FilePut(i, t.init[i])
    BY <1>10 DEF GivesBack
  <2>3. Alike(u, t) /\ u.manifest = "whole" BY <2>1, <2>2, <1>m DEF Backed
  <2>4. \A j \in Names :
               /\ u.staged[j] # "part"
               /\ IF u.staged[j] = "gone" THEN New(file', j, u)
                  ELSE Old(file', j, u) \/ Away(file', j, u)
    BY <1>5, <2>1, <2>2 DEF Backed, Alike, FilePut, New, Old, Away
  <2>5. u.staged["prd"] = "gone" => u.staged["spec"] = "gone"
    BY <1>g, <2>1 DEF Backed, Names
  <2>6. QED BY <1>8, <2>1, <2>2, <2>3, <2>4, <2>5
<1>11. QED BY <1>1, <1>6, <1>7, <1>9, <1>10

(* Where recovery finds the files.                                         *)
LEMMA Placed ==
  ASSUME NEW f \in Pairs, NEW t \in Txns, TxnOK(f, t), ReadableIn(f, t), t.manifest = "whole",
         t.staged["prd"] # "gone"
  PROVE  \A i \in Names :
           Old(f, i, t) \/ Away(f, i, t) \/ (i = "spec" /\ New(f, i, t))
<1>1. /\ t.next["prd"] # None /\ t.next["prd"].assigned = None BY NextOf
<1>2. SpecPlace(f, t) /\ PrdPlace(f, t) BY DEF TxnOK
<1>3. ClassIn(f, "prd", t) # "unknown" BY DEF ReadableIn, Names
<1>4. Old(f, "prd", t) \/ Away(f, "prd", t)
  BY <1>1, <1>2, <1>3 DEF PrdPlace, Kept, ClassIn, Old
<1>5. QED BY <1>2, <1>4 DEF SpecPlace, Names

LEMMA RestoresKeep ==
  ASSUME PlanTypeOK, PlanTypeOK', TxnsOK, NEW p \in Procs, AtWork(p), Restore(p)
  PROVE  TxnsOK' /\ AtWork(p)'
<1> DEFINE t == txn[cur[p]]
<1>r. RecoverOK(p) BY DEF AtWork
<1>1. /\ pc[p] = "restore" /\ cur[p] \in Procs /\ t \in Txns /\ t # None /\ scene' = scene
      /\ HasRestored(p) \/ Refuses(p) \/ \E i \in Names : Cleans(p, i) \/ Restocks(p, i)
  BY <1>r, Restores
<1>2. /\ ReadableIn(file, t) /\ t.staged["prd"] # "gone" /\ t.manifest = "whole"
  BY <1>1, <1>r DEF RecoverOK
<1>3. TxnOK(file, t) BY <1>1 DEF TxnsOK, OpenTxns
<1>4. scene'.kind = scene.kind BY <1>1
<1>f. file \in Pairs /\ file' \in Pairs BY DEF PlanTypeOK
<1>5. \A i \in Names : Old(file, i, t) \/ Away(file, i, t) \/ (i = "spec" /\ New(file, i, t))
  BY <1>1, <1>2, <1>3, <1>f, Placed
<1>n. t.next["spec"] # None /\ t.next["prd"] # None /\ t.next["prd"].assigned = None
  BY <1>3, NextOf
<1>p. \A i \in Names : t.staged[i] # "part" BY <1>2 DEF ReadableIn
<1>6. CASE HasRestored(p)
  <2>1. TxnsOK' BY <1>4, <1>6, SameTxn DEF HasRestored, TxnsOK
  <2>2. pc'[p] = "sweep" /\ UNCHANGED <<file, txn, cur>>
        /\ \A i \in Names : ~DisplacedIn(file, i, t)
    BY <1>6 DEF HasRestored, Quiet
  <2>3. RecoverOK(p)' BY <1>1, <1>2, <2>2 DEF RecoverOK
  <2>4. QED BY <2>1, <2>2, <2>3 DEF AtWork, Owns, AtTxn
<1>7. CASE Refuses(p)
  <2>1. TxnsOK' BY <1>4, <1>7, SameTxn DEF Refuses, TxnsOK
  <2>2. AtWork(p)' BY <1>7, LeavingKeeps DEF Refuses
  <2>3. QED BY <2>1, <2>2
<1>8. ASSUME NEW u \in Txns, u # None, txn'[cur[p]] = u,
             \A q \in Procs : q # cur[p] => txn'[q] = txn[q], cur' = cur,
             pc'[p] = "restore", Alike(u, t), u.manifest = "whole",
             \A j \in Names :
               /\ u.staged[j] = t.staged[j]
               /\ Old(file', j, u) \/ Away(file', j, u) \/ (j = "spec" /\ New(file', j, u))
      PROVE  TxnsOK' /\ AtWork(p)'
  <2>1. TxnOK(file', u)
    <3>1. /\ \E n \in DOMAIN TextOf : u.next = [spec |-> TextOf[n], prd |-> Prd(n)]
          /\ Whole(u.init)
      BY <1>3, <1>8 DEF TxnOK, Alike
    <3>2. SpecPlace(file', u) BY <1>8 DEF SpecPlace, Names
    <3>3. PrdPlace(file', u) BY <1>2, <1>8 DEF PrdPlace, Names, Kept, Old
    <3>4. QED BY <1>8, <1>p, <3>1, <3>2, <3>3 DEF TxnOK, Names
  <2>2. TxnsOK'
    <3>1. TxnPut(cur[p], u) BY <1>8 DEF TxnPut
    <3>2. QED BY <1>1, <1>4, <2>1, <3>1, OneTxn
  <2>3. ReadableIn(file', u)
    BY <1>8, <1>p, <1>n, <1>f, PlacedReadable DEF Alike
  <2>4. RecoverOK(p)' BY <1>1, <1>2, <1>8, <2>3 DEF RecoverOK, Names
  <2>5. QED BY <1>8, <2>2, <2>4 DEF AtWork, Owns, AtTxn
<1>9. ASSUME NEW i \in Names, Cleans(p, i) PROVE TxnsOK' /\ AtWork(p)'
  <2>1. /\ pc'[p] = "restore" /\ cur' = cur /\ txn' = txn /\ FilePut(i, None)
        /\ ClassIn(file, i, t) = "next"
    BY <1>9 DEF Cleans, Quiet
  <2>2. file[i] = t.next[i] /\ file[i] # t.init[i] /\ file[i] # None
    BY <2>1 DEF ClassIn
  <2>3. i = "spec" /\ New(file, i, t) BY <1>5, <2>2 DEF Old, Away
  <2>4. Away(file', "spec", t) BY <2>1, <2>3 DEF FilePut, New, Away
  <2>5. \A j \in Names :
          Old(file', j, t) \/ Away(file', j, t) \/ (j = "spec" /\ New(file', j, t))
    BY <1>5, <2>1, <2>3, <2>4 DEF FilePut, Old, Away
  <2>6. QED BY <1>1, <1>2, <1>8, <2>1, <2>5 DEF Alike
<1>10. ASSUME NEW i \in Names, Restocks(p, i) PROVE TxnsOK' /\ AtWork(p)'
  <2>1. /\ pc'[p] = "restore" /\ cur' = cur /\ FilePut(i, t.init[i])
        /\ ClassIn(file, i, t) = "missing" /\ t.init[i] # None
    BY <1>10 DEF Restocks, Quiet
  <2>2. PICK u \in Txns : TxnPut(cur[p], u) /\ Backed(u, t, i, FALSE)
    BY <1>10 DEF Restocks
  <2>3. Old(file', i, u) BY <2>1, <2>2 DEF FilePut, Backed, Alike, Old
  <2>4. \A j \in Names :
          /\ u.staged[j] = t.staged[j]
          /\ Old(file', j, u) \/ Away(file', j, u) \/ (j = "spec" /\ New(file', j, u))
    BY <1>5, <2>1, <2>2, <2>3 DEF FilePut, Old, Away, New, Backed, Alike
  <2>5. QED BY <1>1, <1>2, <1>8, <2>1, <2>2, <2>4 DEF TxnPut, Backed
<1>11. QED BY <1>1, <1>6, <1>7, <1>9, <1>10

LEMMA RecoversKeep ==
  ASSUME PlanTypeOK, TxnsOK, NEW p \in Procs, CommandOK(p), Recover(p)
  PROVE  TxnsOK' /\ AtWork(p)'
<1>1. /\ pc[p] = "recover" /\ scene' = scene /\ file' = file BY DEF Recover
<1>2. CASE /\ \A q \in OpenTxns : OpenTxns = {q} /\ txn[q].manifest = "no"
           /\ txn' = [q \in Procs |-> None] /\ Goto(p, Ahead(p))
  <2>1. Whole(file)
    <3>1. CASE OpenTxns = {} BY <3>1 DEF TxnsOK
    <3>2. ASSUME NEW q \in OpenTxns PROVE Whole(file)
      <4>1. txn[q].manifest = "no" BY <1>2, <3>2
      <4>2. TxnOK(file, txn[q]) BY DEF TxnsOK
      <4>3. Whole(txn[q].init) BY <4>2 DEF TxnOK
      <4>4. file["spec"] = txn[q].init["spec"] BY <4>1, <4>2 DEF TxnOK, Old
      <4>5. Kept(file["prd"], txn[q]) BY <4>1, <4>2 DEF TxnOK
      <4>6. QED BY <4>3, <4>4, <4>5 DEF Kept, Whole
    <3>3. QED BY <3>1, <3>2
  <2>2. TxnsOK' /\ OpenTxns' = {} BY <1>1, <1>2, <2>1, NoTxn
  <2>3. pc'[p] \in {"open", "validate"} /\ Kind(p)' = Kind(p)
        /\ (pc'[p] = "validate" => Kind(p) = "check")
    BY <1>1, <1>2 DEF Goto, Ahead, Kind, PlanTypeOK
  <2>4. QED BY <2>2, <2>3 DEF AtWork, Owns, AtTxn, RecoverOK
<1>3. ASSUME NEW q \in OpenTxns, txn[q].manifest # "no", Readable(txn[q]),
             Goto(p, IF Committed(txn[q]) THEN "sweep" ELSE "restore"), Hold(p, q),
             txn' = txn
      PROVE  TxnsOK' /\ AtWork(p)'
  <2> DEFINE t == txn[q]
  <2>1. TxnsOK' BY <1>1, <1>3, SameTxn DEF TxnsOK
  <2>2. /\ cur'[p] = q /\ pc'[p] = IF Committed(t) THEN "sweep" ELSE "restore"
    BY <1>3 DEF Goto, Hold, PlanTypeOK
  <2>3. TxnOK(file, t) /\ t # None /\ q \in Procs /\ t \in Txns
    BY <1>3 DEF TxnsOK, OpenTxns, PlanTypeOK
  <2>4. ReadableIn(file, t) /\ Committed(t) = CommittedIn(file, t)
    BY <1>3, AsIn
  <2>5. t.manifest = "whole" BY <1>3, <2>4 DEF ReadableIn
  <2>6. CASE CommittedIn(file, t)
    <3>1. pc'[p] = "sweep" BY <2>2, <2>4, <2>6
    <3>2. RecoverOK(p)' BY <1>1, <1>3, <2>2, <2>3, <2>5, <2>6, <3>1 DEF RecoverOK
    <3>3. QED BY <2>1, <3>1, <3>2 DEF AtWork, Owns, AtTxn
  <2>7. CASE ~CommittedIn(file, t)
    <3>1. pc'[p] = "restore" BY <2>2, <2>4, <2>7
    <3>2. t.staged["prd"] # "gone"
      <4>1. SUFFICES ASSUME t.staged["prd"] = "gone" PROVE FALSE OBVIOUS
      <4>2. /\ New(file, "spec", t) /\ (t.backup["prd"] <=> t.init["prd"] # None)
            /\ \/ file["prd"] = t.next["prd"]
               \/ file["prd"] # None /\ file["prd"].assigned # None
        BY <2>3, <4>1 DEF TxnOK, PrdPlace
      <4>3. t.next["spec"] # None /\ t.next["prd"] # None /\ t.next["prd"].assigned = None
        BY <2>3, NextOf
      <4>4. CASE file["prd"] = t.next["prd"]
        BY <2>7, <4>2, <4>3, <4>4, Classes DEF CommittedIn, Names, New
      <4>5. CASE file["prd"] # None /\ file["prd"] # t.next["prd"]
        <5>1. ClassIn(file, "prd", t) \in {"initial", "unknown"} BY <4>5, Classes
        <5>2. ClassIn(file, "prd", t) # "unknown" BY <2>4, <2>5 DEF ReadableIn, Names
        <5>3. ClassIn(file, "prd", t) = "initial" BY <5>1, <5>2
        <5>4. file["prd"] = t.init["prd"] BY <4>5, <5>3 DEF ClassIn
        <5>5. t.backup["prd"] BY <4>2, <4>5, <5>4
        <5>6. QED BY <2>4, <2>5, <5>3, <5>5 DEF ReadableIn, Names
      <4>6. QED BY <4>2, <4>3, <4>4, <4>5
    <3>3. RecoverOK(p)' BY <1>1, <1>3, <2>2, <2>3, <2>4, <2>5, <3>1, <3>2 DEF RecoverOK
    <3>4. QED BY <2>1, <3>1, <3>3 DEF AtWork, Owns, AtTxn
  <2>8. QED BY <2>6, <2>7
<1>4. CASE Leave(p, "refused") /\ txn' = txn
  <2>1. TxnsOK' BY <1>1, <1>4, SameTxn DEF TxnsOK
  <2>2. QED BY <1>4, <2>1, LeavingKeeps
<1>5. QED BY <1>2, <1>3, <1>4 DEF Recover

LEMMA SweepsKeep ==
  ASSUME PlanTypeOK, TxnsOK, NEW p \in Procs, AtWork(p), Sweep(p)
  PROVE  TxnsOK' /\ AtWork(p)'
<1> DEFINE t == txn[cur[p]]
<1>1. /\ pc[p] = "sweep" /\ scene' = scene /\ file' = file
      /\ txn' = [txn EXCEPT ![cur[p]] = None] /\ pc'[p] = Ahead(p)
  BY DEF Sweep, Goto, PlanTypeOK
<1>2. /\ cur[p] \in Procs /\ t # None /\ t.manifest = "whole"
      /\ \/ CommittedIn(file, t)
         \/ ReadableIn(file, t) /\ \A i \in Names : ~DisplacedIn(file, i, t)
  BY <1>1 DEF AtWork, RecoverOK
<1>3. TxnOK(file, t) BY <1>2 DEF TxnsOK, OpenTxns
<1>4. Whole(file)
  <2>1. CASE CommittedIn(file, t)
    <3>1. file["spec"] = t.next["spec"] /\ file["prd"] = t.next["prd"]
      BY <2>1 DEF CommittedIn, ClassIn, Names
    <3>2. Whole(t.next) BY <1>3, NextOf
    <3>3. QED BY <3>1, <3>2 DEF Whole
  <2>2. CASE ReadableIn(file, t) /\ \A i \in Names : ~DisplacedIn(file, i, t)
    <3>1. \A i \in Names : ClassIn(file, i, t) # "unknown"
      BY <1>2, <2>2 DEF ReadableIn
    <3>2. file["spec"] = t.init["spec"] /\ file["prd"] = t.init["prd"]
      BY <2>2, <3>1 DEF DisplacedIn, ClassIn, Names
    <3>3. Whole(t.init) BY <1>3 DEF TxnOK
    <3>4. QED BY <3>2, <3>3 DEF Whole
  <2>3. QED BY <1>2, <2>1, <2>2
<1>5. \A r \in Procs : txn'[r] = None BY <1>1, <1>2, ClosedTxn
<1>6. TxnsOK' /\ OpenTxns' = {} BY <1>1, <1>4, <1>5, NoTxn
<1>7. pc'[p] \in {"open", "validate"} /\ Kind(p)' = Kind(p)
      /\ (pc'[p] = "validate" => Kind(p) = "check")
  BY <1>1 DEF Ahead, Kind
<1>8. QED BY <1>6, <1>7 DEF AtWork, Owns, AtTxn, RecoverOK

LEMMA OpensKeep ==
  ASSUME PlanTypeOK, TxnsOK, NEW p \in Procs, CommandOK(p), AtWork(p), OpenTxn(p)
  PROVE  TxnsOK' /\ AtWork(p)'
<1> DEFINE t == [manifest |-> "no", init |-> file, next |-> Content(p),
                 staged |-> Both("no"), backup |-> Both(FALSE)]
<1>1. /\ pc[p] = "open" /\ scene' = scene /\ file' = file
      /\ txn' = [txn EXCEPT ![p] = t] /\ pc'[p] = "stage"
  BY DEF OpenTxn, Goto, PlanTypeOK
<1>2. OpenTxns = {} /\ Whole(file) BY <1>1 DEF AtWork, TxnsOK
<1>3. Kind(p) \in {"plan", "trivial"}
  <2>1. Kind(p) \in Commands BY DEF PlanTypeOK, Kind
  <2>2. QED BY <1>1, <2>1 DEF CommandOK, AtPair, Commands
<1>4. Arg(p) \in DOMAIN TextOf /\ Content(p) \in Pairs
  BY <1>3, ContentType DEF CommandOK
<1>5. t \in Txns BY <1>4 DEF Txns, Both, PlanTypeOK
<1>6. t # None BY <1>5, NoneAssumption
<1>7. /\ t.manifest = "no" /\ t.init = file /\ t.next = Content(p)
      /\ \A i \in Names : t.staged[i] = "no" /\ ~t.backup[i]
  BY DEF Both
<1>8. TxnPut(p, t) BY <1>1, <1>5, <1>6 DEF TxnPut, PlanTypeOK
<1> HIDE DEF t
<1>9. TxnOK(file', t)
  BY <1>1, <1>2, <1>4, <1>7 DEF TxnOK, SpecPlace, PrdPlace, Kept, Old, Names, Content
<1>10. OpenTxns' = {p} /\ txn'[p] = t
  BY <1>2, <1>6, <1>8 DEF OpenTxns, TxnPut
<1>11. TxnsOK'
  <2>1. Kind(p)' # "check" BY <1>1, <1>3 DEF Kind
  <2>2. QED BY <1>9, <1>10, <2>1 DEF TxnsOK
<1>12. OwnerOK(p, txn[p])'
  BY <1>1, <1>7, <1>10 DEF OwnerOK, Content, Arg, Old, Names
<1>13. QED BY <1>1, <1>6, <1>10, <1>11, <1>12 DEF AtWork, RecoverOK

LEMMA ClosesKeep ==
  ASSUME PlanTypeOK, TxnsOK, NEW p \in Procs, AtWork(p), CloseTxn(p)
  PROVE  TxnsOK' /\ AtWork(p)'
<1> DEFINE t == txn[p]
<1>1. /\ pc[p] = "close" /\ scene' = scene /\ file' = file /\ txn' = [txn EXCEPT ![p] = None]
  BY DEF CloseTxn
<1>2. AtWork(p)' BY LeavingKeeps DEF CloseTxn
<1>3. t # None /\ OwnerOK(p, t) BY <1>1 DEF AtWork, Owns, AtTxn
<1>4. \A i \in Names : file[i] = t.next[i] BY <1>1, <1>3 DEF OwnerOK, New
<1>5. TxnOK(file, t) BY <1>3 DEF TxnsOK, OpenTxns
<1>6. Whole(t.next) BY <1>5, NextOf
<1>7. Whole(file') BY <1>1, <1>4, <1>6 DEF Whole, Names
<1>8. \A r \in Procs : txn'[r] = None BY <1>1, <1>3, ClosedTxn
<1>9. QED BY <1>2, <1>7, <1>8, NoTxn

(* A setter leaves a transaction that recovery can tell, or refuses.       *)
LEMMA SwapSets ==
  ASSUME PlanTypeOK, NEW p \in Procs, CommandOK(p), Swap(p)
  PROVE  /\ file["prd"] \in Prds /\ file["prd"] # None /\ Valid(p, file["prd"])
         /\ Kind(p) \in {"trivial", "enrich", "pass", "rollback"}
         /\ LET d == Changed(p, file["prd"])
            IN  d \in Prds /\ d # None /\ d.assigned # None /\ d.plan = file["prd"].plan
         /\ FilePut("prd", Changed(p, file["prd"])) /\ txn' = txn /\ scene' = scene
         /\ file' = [file EXCEPT !["prd"] = Changed(p, file["prd"])]
<1>1. pc[p] = "swap" /\ txn' = txn /\ scene' = scene
      /\ file' = [file EXCEPT !["prd"] = Changed(p, cur[p])]
  BY DEF Swap, Put
<1>2. Kind(p) \in {"trivial", "enrich", "pass", "rollback"}
  BY <1>1 DEF CommandOK, AtSwap, PlanTypeOK, Kind, Commands
<1>3. cur[p] = file["prd"] /\ Valid(p, file["prd"]) BY <1>1 DEF CommandOK
<1>4. file["prd"] # None /\ file["prd"] \in Prds
  BY <1>3 DEF Valid, IsPlanning, IsExecution, PlanTypeOK, Pairs
<1>5. LET d == Changed(p, file["prd"])
      IN  d \in Prds /\ d.assigned # None /\ d.plan = file["prd"].plan
  BY <1>2, <1>3, <1>4, Changes
<1>6. Changed(p, file["prd"]) # None BY <1>5, NoneAssumption
<1>7. FilePut("prd", Changed(p, file["prd"])) BY <1>1, <1>3, FilePuts DEF Names
<1>8. QED BY <1>1, <1>2, <1>3, <1>4, <1>5, <1>6, <1>7

LEMMA SwapsKeep ==
  ASSUME PlanTypeOK, TxnsOK, NEW p \in Procs, CommandOK(p), AtWork(p), Swap(p)
  PROVE  TxnsOK' /\ AtWork(p)'
<1> DEFINE d == Changed(p, file["prd"])
<1>1. /\ file["prd"] # None /\ d # None /\ d.assigned # None /\ d.plan = file["prd"].plan
      /\ FilePut("prd", d) /\ txn' = txn /\ scene' = scene
  BY SwapSets
<1> HIDE DEF d
<1>2. OpenTxns = {} => Whole(file')
  BY <1>1 DEF TxnsOK, Whole, FilePut, Names
<1>3. ASSUME NEW q \in OpenTxns PROVE TxnOK(file', txn[q])
  <2> DEFINE t == txn[q]
  <2>1. TxnOK(file, t) BY DEF TxnsOK
  <2> HIDE DEF t
  <2>2. file'["spec"] = file["spec"] /\ file'["prd"] = d BY <1>1 DEF FilePut, Names
  <2>3. SpecPlace(file', t) /\ (Old(file, "spec", t) => Old(file', "spec", t))
        /\ (New(file, "spec", t) => New(file', "spec", t))
    BY <2>1, <2>2 DEF TxnOK, SpecPlace, Old, Away, New
  <2>4. Kept(file["prd"], t) => Kept(d, t) BY <1>1 DEF Kept
  <2>5. PrdPlace(file', t)
    <3>1. PrdPlace(file, t) /\ ~Away(file, "prd", t) BY <1>1, <2>1 DEF TxnOK, Away
    <3>2. QED BY <1>1, <2>2, <2>3, <2>4, <3>1 DEF PrdPlace
  <2>6. QED BY <2>1, <2>2, <2>3, <2>4, <2>5 DEF TxnOK, t
<1>4. TxnsOK' BY <1>1, <1>2, <1>3, SameTxn
<1>5. pc'[p] = "confirm" BY DEF Swap, Goto, PlanTypeOK
<1>6. QED BY <1>4, <1>5 DEF AtWork, Owns, AtTxn, RecoverOK

LEMMA FaultsKeep ==
  ASSUME PlanTypeOK, TxnsOK, NEW p \in Procs, AtWork(p), Fault(p)
  PROVE  TxnsOK' /\ AtWork(p)'
<1> DEFINE t == txn[p]
<1>1. file' = file /\ scene'.kind = scene.kind /\ scene'.arg = scene.arg BY Faults
<1>2. CASE txn' = txn /\ \E what : Leave(p, what)
  BY <1>1, <1>2, LeavingKeeps, SameTxn DEF TxnsOK
<1>3. CASE BreaksOff(p)
  <2>1. PICK u \in Txns : TxnPut(p, u) /\ Cleaned(u, t) BY <1>3 DEF BreaksOff
  <2>2. pc[p] \in {"stage", "move", "install", "validate"} /\ t \in Txns /\ pc'[p] = "undo"
    BY <1>3 DEF BreaksOff
  <2>3. t # None BY <2>2, NoneAssumption
  <2>4. Kind(p) # "check" BY <2>3 DEF TxnsOK, OpenTxns
  <2>5. OwnerOK(p, t) BY <2>2, <2>4 DEF AtWork, Owns, AtTxn
  <2>6. TxnOK(file, t) BY <2>3 DEF TxnsOK, OpenTxns
  <2>7. /\ Alike(u, t) /\ (u.manifest # "whole" => t.manifest # "whole")
        /\ \A j \in Names :
             /\ u.backup[j] = t.backup[j] /\ u.staged[j] # "part"
             /\ u.staged[j] = "gone" <=> t.staged[j] = "gone"
             /\ t.staged[j] = "no" => u.staged[j] = "no"
    BY <2>1, <2>2 DEF Cleaned, Removed, Txns
  <2>8. TxnOK(file', u)
    <3>1. /\ \E n \in DOMAIN TextOf : u.next = [spec |-> TextOf[n], prd |-> Prd(n)]
          /\ Whole(u.init)
      BY <2>6, <2>7 DEF TxnOK, Alike
    <3>2. SpecPlace(file', u) /\ (Old(file, "spec", t) => Old(file', "spec", u))
      BY <1>1, <2>6, <2>7 DEF TxnOK, SpecPlace, Names, Old, Away, New, Alike
    <3>3. PrdPlace(file', u)
      BY <1>1, <2>6, <2>7 DEF TxnOK, PrdPlace, Names, Kept, Away, New, Alike
    <3>4. QED BY <1>1, <2>6, <2>7, <3>1, <3>2, <3>3 DEF TxnOK, Names, Kept, Alike
  <2>9. TxnsOK' BY <1>1, <2>1, <2>3, <2>8, OneTxn
  <2>10. txn'[p] = u /\ u # None BY <2>1 DEF TxnPut
  <2>11. Content(p)' = Content(p) BY <1>1 DEF Content, Arg
  <2>12. OwnerOK(p, u)'
    BY <1>1, <2>2, <2>5, <2>7, <2>11 DEF OwnerOK, Alike, Old, New, Away, Names
  <2>13. QED BY <2>2, <2>9, <2>10, <2>12 DEF AtWork, RecoverOK
<1>4. QED BY <1>2, <1>3, Faults
-----------------------------------------------------------------------------
(* Every step.                                                             *)

LEMMA UnchangedKeeps ==
  ASSUME TxnsOK, UNCHANGED <<file, txn>>, scene'.kind = scene.kind
  PROVE  TxnsOK'
BY SameTxn DEF TxnsOK

LEMMA Afar ==
  ASSUME NEW p \in Procs,
         pc'[p] \notin AtTxn \cup {"open", "restore", "sweep"}
  PROVE  AtWork(p)'
BY DEF AtWork, Owns, RecoverOK

LEMMA OthersWork ==
  ASSUME PlanTypeOK, \A q \in Procs : HolderLocked(q), NEW p \in Procs, Does(p),
         NEW q \in Procs, q # p, AtWork(q)
  PROVE  AtWork(q)'
<1>1. Unmoved(q) /\ Kind(q)' = Kind(q) /\ Arg(q)' = Arg(q) /\ Owns(q)' = Owns(q)
  BY OtherCommands
<1>2. CASE pc[q] \in InLock
  <2>1. UNCHANGED <<file, txn>> BY <1>2, OtherCommands
  <2>2. OpenTxns' = OpenTxns BY <2>1 DEF OpenTxns
  <2>3. OwnerOK(q, txn[q])' = OwnerOK(q, txn[q])
    BY <1>1, <2>1 DEF OwnerOK, Content, Unmoved
  <2>4. RecoverOK(q)' = RecoverOK(q) BY <1>1, <2>1 DEF RecoverOK, Unmoved
  <2>5. QED BY <1>1, <2>1, <2>2, <2>3, <2>4 DEF AtWork, Unmoved
<1>3. CASE pc[q] \notin InLock
  BY <1>1, <1>3, Afar DEF InLock, AtPair, AtTxn, Unmoved
<1>4. QED BY <1>2, <1>3

LEMMA ValidatesKeep ==
  ASSUME PlanTypeOK, TxnsOK, NEW p \in Procs, AtWork(p), ValidateInstalled(p)
  PROVE  TxnsOK' /\ AtWork(p)'
<1> DEFINE t == txn[p]
<1>1. /\ pc[p] = "validate" /\ Kind(p) # "check" /\ scene' = scene
      /\ file' = file /\ txn' = txn /\ pc'[p] \in {"close", "undo"}
  BY DEF ValidateInstalled, Goto, PlanTypeOK, pairVars
<1>2. t # None /\ OwnerOK(p, t) BY <1>1 DEF AtWork, Owns, AtTxn
<1>3. Content(p)' = Content(p) BY <1>1 DEF Content, Arg
<1>4. OwnerOK(p, txn[p])'
  BY <1>1, <1>2, <1>3 DEF OwnerOK, New
<1>5. TxnsOK' BY <1>1, UnchangedKeeps
<1>6. QED BY <1>1, <1>2, <1>4, <1>5 DEF AtWork, RecoverOK

LEMMA FilesKept ==
  ASSUME PlanTypeOK, PlanTypeOK', TxnsOK, NEW p \in Procs, CommandOK(p), AtWork(p), Does(p)
  PROVE  TxnsOK' /\ AtWork(p)'
<1>f. scene'.kind = scene.kind BY Frames DEF Frame
<1>o. txn[p] # None => Kind(p) # "check" BY DEF TxnsOK, OpenTxns
<1>1. CASE Lock(p)
  <2>1. UNCHANGED <<file, txn>>
    BY <1>1 DEF Lock, CreateLock, FillLock, VerifyLock, FindLock, JudgeLock, RecheckLock,
                UnlinkStale, Release, RemoveLock, pairVars
  <2>2. pc'[p] \notin AtTxn \cup {"open", "restore", "sweep"}
    BY <1>1 DEF Lock, CreateLock, FillLock, VerifyLock, FindLock, JudgeLock, RecheckLock,
                UnlinkStale, Release, RemoveLock, Another, Goto, Stop, AtTxn, PlanTypeOK
  <2>3. QED BY <1>f, <2>1, <2>2, Afar, UnchangedKeeps
<1>2. CASE Ask(p)
  <2>1. UNCHANGED <<file, txn>>
    BY <1>2 DEF Ask, Begin, ReadFirst, LookTrivial, Reread, Retry, pairVars
  <2>2. pc'[p] \notin AtTxn \cup {"open", "restore", "sweep"}
    BY <1>2 DEF Ask, Begin, ReadFirst, LookTrivial, Reread, Retry, Goto, Stop, AtTxn, PlanTypeOK
  <2>3. QED BY <1>f, <2>1, <2>2, Afar, UnchangedKeeps
<1>3. CASE Swap(p) BY <1>3, SwapsKeep
<1>4. CASE ReadCurrent(p) \/ CheckCurrent(p) \/ Confirm(p)
  <2>1. UNCHANGED <<file, txn>>
    BY <1>4 DEF ReadCurrent, CheckCurrent, Confirm, pairVars
  <2>2. pc'[p] \notin AtTxn \cup {"open", "restore", "sweep"}
    BY <1>4 DEF ReadCurrent, CheckCurrent, Confirm, Goto, Leave, AtTxn, PlanTypeOK
  <2>3. QED BY <1>f, <2>1, <2>2, Afar, UnchangedKeeps
<1>5. CASE Recover(p) BY <1>5, RecoversKeep
<1>6. CASE Restore(p) BY <1>6, RestoresKeep
<1>7. CASE Sweep(p) BY <1>7, SweepsKeep
<1>8. CASE ValidatePair(p) \/ LoseTxn(p)
  <2>1. UNCHANGED <<file, txn>> BY <1>8 DEF ValidatePair, LoseTxn, pairVars
  <2>2. pc'[p] = "release" BY <1>8 DEF ValidatePair, LoseTxn, Leave, PlanTypeOK
  <2>3. QED BY <1>f, <2>1, <2>2, Afar, UnchangedKeeps DEF AtTxn
<1>9. CASE OpenTxn(p) BY <1>9, OpensKeep
<1>10. CASE Stage(p) BY <1>10, <1>o, StagesKeep DEF Stage
<1>11. CASE MoveToBackup(p) BY <1>11, <1>o, MovesKeep DEF MoveToBackup
<1>12. CASE Install(p) BY <1>12, <1>o, InstallsKeep DEF Install
<1>13. CASE ValidateInstalled(p) BY <1>13, ValidatesKeep
<1>14. CASE CloseTxn(p) BY <1>14, ClosesKeep
<1>15. CASE Undo(p) BY <1>15, <1>o, UndoesKeep DEF Undo
<1>16. CASE Fault(p) BY <1>16, FaultsKeep
<1>17. CASE Die(p)
  <2>1. UNCHANGED <<file, txn>> BY <1>17 DEF Die, pairVars
  <2>2. pc'[p] = "dead" BY <1>17 DEF Die, PlanTypeOK
  <2>3. QED BY <1>f, <2>1, <2>2, Afar, UnchangedKeeps DEF AtTxn
<1>18. QED
  BY <1>1, <1>2, <1>3, <1>4, <1>5, <1>6, <1>7, <1>8, <1>9, <1>10, <1>11, <1>12, <1>13, <1>14,
     <1>15, <1>16, <1>17 DEF Does, Step, Change, Replace

LEMMA Idle ==
  ASSUME UNCHANGED <<scene, file, txn, pc, part, got, cur, told, served>>, NEW q \in Procs
  PROVE  (CommandOK(q) => CommandOK(q)') /\ (AtWork(q) => AtWork(q)')
<1>1. Kind(q)' = Kind(q) /\ Arg(q)' = Arg(q) BY DEF Kind, Arg
<1>2. Owns(q)' = Owns(q) BY <1>1 DEF Owns
<1>3. /\ Valid(q, cur[q])' = Valid(q, cur[q])
      /\ Valid(q, Changed(q, cur[q]))' = Valid(q, Changed(q, cur[q]))
  BY <1>1 DEF Valid, IsPlanning, IsExecution, Changed, Assignment
<1>4. CommandOK(q) => CommandOK(q)' BY <1>1, <1>2, <1>3 DEF CommandOK
<1>5. OwnerOK(q, txn[q])' = OwnerOK(q, txn[q]) BY <1>1 DEF OwnerOK, Content
<1>6. RecoverOK(q)' = RecoverOK(q) /\ OpenTxns' = OpenTxns BY DEF RecoverOK, OpenTxns
<1>7. AtWork(q) => AtWork(q)' BY <1>2, <1>5, <1>6 DEF AtWork
<1>8. QED BY <1>4, <1>7

LEMMA PairStep ==
  ASSUME PairInv, stolen \in BOOLEAN, NEW p \in Procs, Does(p) \/ LockAges, ~stolen'
  PROVE  PairInv' /\ ~stolen
<1> USE DEF PairInv
<1>1. ~stolen /\ \A q \in Procs : HolderLocked(q)' BY LockKept
<1>2. CASE LockAges
  <2>1. PlanTypeOK' BY <1>2, LockTypes
  <2>2. UNCHANGED <<scene, tries, pairVars, pc, mine, told, dead, history>>
    BY <1>2 DEF LockAges
  <2>3. \A q \in Procs : CommandOK(q)' /\ AtWork(q)'
    BY <2>2, Idle DEF pairVars, mine, history
  <2>4. TxnsOK' BY <2>2, UnchangedKeeps DEF pairVars
  <2>5. QED BY <1>1, <2>1, <2>3, <2>4
<1>3. CASE Does(p)
  <2>0. CommandOK(p) /\ AtWork(p) /\ RecoverOK(p) /\ HolderLocked(p)
        /\ (Owns(p) => txn[p] # None /\ OwnerOK(p, txn[p]))
    BY DEF AtWork
  <2>1. PlanTypeOK'
    BY <1>3, <2>0, LockTypes, AskTypes, ChangeTypes, ReplaceTypes, MishapTypes DEF Does, Step
  <2>2. CommandOK(p)'
    BY <1>3, <2>0, CommandsLock, CommandsAsk, CommandsReplace DEF Does, Step
  <2>3. \A q \in Procs : CommandOK(q)' BY <1>3, <2>2, OthersStay
  <2>4. TxnsOK' /\ AtWork(p)' BY <1>3, <2>0, <2>1, FilesKept
  <2>5. \A q \in Procs : AtWork(q)' BY <1>3, <2>4, OthersWork
  <2>6. QED BY <1>1, <2>1, <2>3, <2>4, <2>5
<1>4. QED BY <1>2, <1>3

LEMMA PairInit ==
  ASSUME StoreInit
  PROVE  PairInv /\ stolen \in BOOLEAN
<1> USE DEF StoreInit
<1>1. scene \in [kind : [Procs -> Commands],
                arg : [Procs -> DOMAIN TextOf \cup Stories \cup {None}],
                after : [Procs -> SUBSET Procs], start : Pairs,
                deaths : Nat, faults : Nat]
      /\ Whole(scene.start)
  BY ScenesAssumption
<1>2. PlanTypeOK
  BY <1>1 DEF PlanTypeOK, Places, Kind
<1>3. ASSUME NEW p \in Procs PROVE HolderLocked(p)
  BY NoneAssumption DEF HolderLocked, InLock, AtSwap, AtPair, AtTxn, Ending
<1>4. ASSUME NEW p \in Procs PROVE CommandOK(p)
  <2>1. /\ Kind(p) \in {"plan", "trivial"} => Arg(p) \in DOMAIN TextOf
        /\ Kind(p) = "pass" => Arg(p) \in Stories
    BY ScenesAssumption DEF Kind, Arg
  <2>2. pc[p] = "start" /\ got[p] = None /\ told[p] = "no" /\ served = {}
        /\ part[p] = IF Kind(p) \in {"plan", "check"} THEN "write" ELSE "set"
    OBVIOUS
  <2>3. QED BY <2>1, <2>2 DEF CommandOK, AtSwap, AtPair, AtTxn, Ending, Owns
<1>5. TxnsOK BY <1>1 DEF TxnsOK, OpenTxns
<1>6. ASSUME NEW p \in Procs PROVE AtWork(p)
  BY DEF AtWork, Owns, AtTxn, RecoverOK
<1>7. QED BY <1>2, <1>3, <1>4, <1>5, <1>6 DEF PairInv

(* As long as no lock was stolen, the store is in order, for any commands, *)
(* deaths and faults: only the owner of the lock is at work, at most one   *)
(* transaction lies open, its manifest, staged and backed-up files tell    *)
(* where both files are, and without one spec.md has the text of its plan. *)
THEOREM PairInvariant == StoreSpec => [](stolen \in BOOLEAN /\ PairKept)
<1>1. StoreInit => stolen \in BOOLEAN /\ PairKept BY PairInit DEF PairKept
<1>2. stolen \in BOOLEAN /\ PairKept /\ [StoreNext]_storeVars => (stolen \in BOOLEAN /\ PairKept)'
  <2> SUFFICES ASSUME stolen \in BOOLEAN, PairKept, [StoreNext]_storeVars
               PROVE  (stolen \in BOOLEAN /\ PairKept)'
    OBVIOUS
  <2>1. CASE UNCHANGED storeVars
    <3> USE DEF storeVars, lockVars, pairVars, mine, history
    <3>1. PlanTypeOK => PlanTypeOK' BY <2>1 DEF PlanTypeOK
    <3>2. (\A q \in Procs : HolderLocked(q)) => (\A q \in Procs : HolderLocked(q))'
      BY <2>1 DEF HolderLocked, Holds, Stale
    <3>3. TxnsOK => TxnsOK' BY <2>1, UnchangedKeeps
    <3>4. \A q \in Procs : (CommandOK(q) => CommandOK(q)') /\ (AtWork(q) => AtWork(q)')
      BY <2>1, Idle
    <3>5. PairInv => PairInv' BY <3>1, <3>2, <3>3, <3>4 DEF PairInv
    <3>6. QED BY <2>1, <3>5 DEF PairKept
  <2>2. ASSUME NEW p \in Procs, Does(p) \/ LockAges PROVE (stolen \in BOOLEAN /\ PairKept)'
    <3>1. stolen' \in BOOLEAN /\ (stolen => stolen')
      BY <2>2 DEF Does, LockAges, history, Step, Lock, Ask, Change, Replace, CreateLock, FillLock,
         VerifyLock, FindLock, JudgeLock, RecheckLock, UnlinkStale, Release, RemoveLock, Begin,
         ReadFirst, LookTrivial, Reread, Retry, ReadCurrent, CheckCurrent, Swap, Confirm, Recover,
         Restore, Sweep, ValidatePair, OpenTxn, Stage, MoveToBackup, Install, ValidateInstalled,
         CloseTxn, Undo, LoseTxn, Fault, Die
    <3>2. QED BY <2>2, <3>1, PairStep DEF PairKept
  <2>3. CASE LockAges /\ Procs = {}
    <3>1. stolen' = stolen BY <2>3 DEF LockAges, history
    <3>2. ~PairInv
      BY <2>3 DEF PairInv, PlanTypeOK, LockAges, Locks
    <3>3. QED BY <3>1, <3>2 DEF PairKept
  <2>4. QED BY <2>1, <2>2, <2>3 DEF StoreNext, Does
<1>3. QED BY <1>1, <1>2, PTL DEF StoreSpec
-----------------------------------------------------------------------------
(* The promise, place by place.                                            *)

Prior(p) == IF txn[p] # None /\ txn[p].staged["prd"] = "gone" THEN txn[p].init ELSE None
Word(p)  == IF pc[p] # "done" THEN "no" ELSE IF told[p] = "ok" THEN "ok" ELSE "failed"
SamePair   == \A i \in Names : Settled(i)' = Settled(i)
SamePriors == \A q \in Procs : Prior(q)' = Prior(q)
Promised(p) == Promise!Next \/ UNCHANGED Promise!vars \/ (Torn /\ Swap(p))

LEMMA SettledAt ==
  ASSUME TxnsOK, NEW q \in Procs, txn[q] # None
  PROVE  \A i : Settled(i) = SettledIn(file, i, txn[q])
<1>1. q \in OpenTxns /\ \A r \in OpenTxns : r = q BY DEF TxnsOK, OpenTxns
<1>2. QED BY <1>1, SettledOne

LEMMA SettledAtNext ==
  ASSUME TxnsOK', NEW q \in Procs, txn'[q] # None
  PROVE  \A i : Settled(i)' = SettledIn(file', i, txn'[q])
<1>1. q \in OpenTxns' /\ \A r \in OpenTxns' : r = q BY DEF TxnsOK, OpenTxns
<1>2. QED BY <1>1, SettledOneNext

LEMMA SameFiles ==
  ASSUME TxnsOK, TxnsOK', UNCHANGED <<file, txn>>
  PROVE  SamePair /\ SamePriors
<1>1. OpenTxns' = OpenTxns BY DEF OpenTxns
<1>2. ASSUME OpenTxns = {} PROVE SamePair
  <2>1. \A i : Settled(i) = file[i] BY <1>2, SettledNone
  <2>2. \A i : Settled(i)' = file'[i] BY <1>1, <1>2, SettledNoneNext
  <2>3. QED BY <2>1, <2>2 DEF SamePair
<1>3. ASSUME NEW q \in OpenTxns PROVE SamePair
  <2>1. q \in Procs /\ txn[q] # None BY DEF OpenTxns
  <2>2. QED BY <2>1, SettledAt, SettledAtNext DEF SamePair
<1>4. SamePriors BY DEF SamePriors, Prior
<1>5. QED BY <1>2, <1>3, <1>4

LEMMA SettledThere ==
  ASSUME PlanTypeOK, TxnsOK, file["prd"] # None
  PROVE  Settled("prd") = file["prd"]
<1>1. CASE OpenTxns = {} BY <1>1, SettledNone
<1>2. ASSUME NEW q \in OpenTxns PROVE Settled("prd") = file["prd"]
  <2>1. q \in Procs /\ txn[q] # None /\ txn[q] \in Txns /\ file \in Pairs
    BY DEF OpenTxns, PlanTypeOK
  <2>2. TxnOK(file, txn[q]) BY DEF TxnsOK
  <2>3. QED BY <2>1, <2>2, SettledAt, SettledPrd
<1>3. QED BY <1>1, <1>2

LEMMA Words ==
  ASSUME PlanTypeOK, NEW p \in Procs, Does(p)
  PROVE  \A q \in Procs : q # p => Word(q)' = Word(q) /\ got'[q] = got[q]
<1>1. Frame(p) BY Frames
<1>2. QED BY <1>1 DEF Frame, Unmoved, Word

LEMMA Stutters ==
  ASSUME PlanTypeOK, NEW p \in Procs, Does(p), SamePair, SamePriors,
         Word(p)' = Word(p), got' = got, served' = served
  PROVE  UNCHANGED Promise!vars
<1>1. \A q \in Procs : Word(q)' = Word(q) BY Words
<1>2. QED BY <1>1 DEF SamePair, SamePriors, Promise!vars, Prior, Word

LEMMA Tells ==
  ASSUME PlanTypeOK, PlanTypeOK', NEW p \in Procs, Does(p), SamePair, SamePriors,
         pc[p] # "done", pc'[p] = "done" /\ told'[p] = "ok" => p \in served,
         got'[p] \in {got[p], None}, served' \in {served, served \ {p}}
  PROVE  Promise!Tell(p)
<1>1. \A q \in Procs : q # p => Word(q)' = Word(q) /\ got'[q] = got[q] BY Words
<1>2. Word(p) = "no" /\ Word(p)' \in {"no", "ok", "failed"}
      /\ (Word(p)' = "ok" => p \in served)
  BY DEF Word
<1>3. got' \in {got, [got EXCEPT ![p] = None]}
  BY <1>1 DEF PlanTypeOK
<1>4. [q \in Procs |-> Word(q)]' = [[q \in Procs |-> Word(q)] EXCEPT ![p] = Word(p)']
  BY <1>1
<1>5. [i \in Names |-> Settled(i)]' = [i \in Names |-> Settled(i)] BY DEF SamePair
<1>6. [q \in Procs |-> Prior(q)]' = [q \in Procs |-> Prior(q)] BY DEF SamePriors
<1>7. QED BY <1>2, <1>3, <1>4, <1>5, <1>6 DEF Promise!Tell, Word, Prior

LEMMA Looks ==
  ASSUME PlanTypeOK, PlanTypeOK', NEW p \in Procs, Does(p), SamePair, SamePriors,
         pc[p] # "done", pc'[p] # "done", got'[p] = Settled("prd"), served' = served
  PROVE  Promise!Look(p)
<1>1. \A q \in Procs : q # p => Word(q)' = Word(q) /\ got'[q] = got[q] BY Words
<1>2. Word(p) = "no" /\ Word(p)' = "no" BY DEF Word
<1>3. got' = [got EXCEPT ![p] = Settled("prd")] BY <1>1 DEF PlanTypeOK
<1>4. [q \in Procs |-> Word(q)]' = [q \in Procs |-> Word(q)] BY <1>1, <1>2
<1>5. [i \in Names |-> Settled(i)]' = [i \in Names |-> Settled(i)] BY DEF SamePair
<1>6. [q \in Procs |-> Prior(q)]' = [q \in Procs |-> Prior(q)] BY DEF SamePriors
<1>7. [i \in Names |-> Settled(i)].prd = Settled("prd") BY DEF Names
<1>8. QED BY <1>2, <1>3, <1>4, <1>5, <1>6, <1>7 DEF Promise!Look, Word, Prior

LEMMA Finds ==
  ASSUME PlanTypeOK, PlanTypeOK', NEW p \in Procs, Does(p), SamePair, SamePriors,
         pc[p] # "done", pc'[p] = "done" => told'[p] = "ok",
         got'[p] \in {got[p], None}, served' = served \cup {p}
  PROVE  Promise!Find(p)
<1>1. \A q \in Procs : q # p => Word(q)' = Word(q) /\ got'[q] = got[q] BY Words
<1>2. Word(p) = "no" /\ Word(p)' \in {"no", "ok"} BY DEF Word
<1>3. got' \in {got, [got EXCEPT ![p] = None]} BY <1>1 DEF PlanTypeOK
<1>4. [q \in Procs |-> Word(q)]' \in
        {[q \in Procs |-> Word(q)], [[q \in Procs |-> Word(q)] EXCEPT ![p] = "ok"]}
  BY <1>1, <1>2
<1>5. [i \in Names |-> Settled(i)]' = [i \in Names |-> Settled(i)] BY DEF SamePair
<1>6. [q \in Procs |-> Prior(q)]' = [q \in Procs |-> Prior(q)] BY DEF SamePriors
<1>7. QED BY <1>2, <1>3, <1>4, <1>5, <1>6 DEF Promise!Find, Word, Prior

LEMMA Asks ==
  ASSUME PlanTypeOK, PlanTypeOK', NEW p \in Procs, Does(p), SamePair, SamePriors,
         pc[p] = "done" /\ told[p] # "ok", pc'[p] # "done", got' = got, served' = served
  PROVE  Promise!Ask(p)
<1>1. \A q \in Procs : q # p => Word(q)' = Word(q) BY Words
<1>2. Word(p) = "failed" /\ Word(p)' = "no" BY DEF Word
<1>4. [q \in Procs |-> Word(q)]' = [[q \in Procs |-> Word(q)] EXCEPT ![p] = "no"]
  BY <1>1, <1>2
<1>5. [i \in Names |-> Settled(i)]' = [i \in Names |-> Settled(i)] BY DEF SamePair
<1>6. [q \in Procs |-> Prior(q)]' = [q \in Procs |-> Prior(q)] BY DEF SamePriors
<1>7. QED BY <1>2, <1>4, <1>5, <1>6 DEF Promise!Ask, Word, Prior

LEMMA Discards ==
  ASSUME PlanTypeOK, PlanTypeOK', NEW p \in Procs, Does(p), SamePair,
         pc[p] # "done", pc'[p] # "done", got'[p] = got[p], served' = served,
         NEW q \in Procs, Prior(q)' = None,
         \A r \in Procs : r # q => Prior(r)' = Prior(r)
  PROVE  Promise!Discard({q})
<1>1. \A r \in Procs : r # p => Word(r)' = Word(r) /\ got'[r] = got[r] BY Words
<1>2. Word(p) = "no" /\ Word(p)' = "no" BY DEF Word
<1>3. got' = got BY <1>1 DEF PlanTypeOK
<1>4. [r \in Procs |-> Word(r)]' = [r \in Procs |-> Word(r)] BY <1>1, <1>2
<1>5. [i \in Names |-> Settled(i)]' = [i \in Names |-> Settled(i)] BY DEF SamePair
<1>6. [r \in Procs |-> Prior(r)]' =
        [r \in Procs |-> IF r \in {q} THEN None ELSE [s \in Procs |-> Prior(s)][r]]
  OBVIOUS
<1>7. QED BY <1>3, <1>4, <1>5, <1>6 DEF Promise!Discard, Word, Prior

LEMMA WritesPair ==
  ASSUME PlanTypeOK, PlanTypeOK', NEW p \in Procs, Does(p), CommandOK(p),
         Kind(p) \in {"plan", "trivial"},
         pc[p] # "done", pc'[p] # "done", got' = got,
         served' \in {served, served \cup {p}},
         \A i \in Names : Settled(i)' = Content(p)[i],
         Prior(p)' \in Pairs, \A i \in Names : Prior(p)'[i] = Settled(i),
         \A q \in Procs : q # p => Prior(q)' = Prior(q)
  PROVE  Promise!Write(p)
<1>1. \A r \in Procs : r # p => Word(r)' = Word(r) BY Words
<1>2. Word(p) = "no" /\ Word(p)' = "no" BY DEF Word
<1>4. [r \in Procs |-> Word(r)]' = [r \in Procs |-> Word(r)] BY <1>1, <1>2
<1>c. Content(p) \in Pairs /\ Content(p) # None BY ContentType, NoneAssumption
<1>5. [i \in Names |-> Settled(i)]' = Content(p) BY <1>c DEF Pairs, Names
<1>6. Prior(p)' = [i \in Names |-> Settled(i)] BY DEF Pairs, Names
<1>7. [r \in Procs |-> Prior(r)]' =
        [[r \in Procs |-> Prior(r)] EXCEPT ![p] = [i \in Names |-> Settled(i)]]
  BY <1>6
<1>8. QED BY <1>2, <1>4, <1>c, <1>5, <1>7 DEF Promise!Write, Word, Prior

LEMMA WithdrawsPair ==
  ASSUME PlanTypeOK, PlanTypeOK', NEW p \in Procs, Does(p), CommandOK(p),
         Kind(p) \in {"plan", "trivial"},
         pc[p] # "done", pc'[p] # "done", got' = got, served' = served \ {p},
         \A i \in Names : Settled(i) = Content(p)[i],
         Prior(p) \in Pairs, \A i \in Names : Settled(i)' = Prior(p)[i],
         Prior(p)' = None, \A q \in Procs : q # p => Prior(q)' = Prior(q)
  PROVE  Promise!Withdraw(p)
<1>1. \A r \in Procs : r # p => Word(r)' = Word(r) BY Words
<1>2. Word(p) = "no" /\ Word(p)' = "no" BY DEF Word
<1>4. [r \in Procs |-> Word(r)]' = [r \in Procs |-> Word(r)] BY <1>1, <1>2
<1>c. Content(p) \in Pairs /\ Prior(p) # None BY ContentType, NoneAssumption
<1>5. [i \in Names |-> Settled(i)] = Content(p) BY <1>c DEF Pairs, Names
<1>6. [i \in Names |-> Settled(i)]' = Prior(p) BY DEF Pairs, Names
<1>7. [r \in Procs |-> Prior(r)]' = [[r \in Procs |-> Prior(r)] EXCEPT ![p] = None]
  OBVIOUS
<1>8. QED BY <1>2, <1>4, <1>c, <1>5, <1>6, <1>7 DEF Promise!Withdraw, Word, Prior

LEMMA Sets ==
  ASSUME PlanTypeOK, PlanTypeOK', NEW p \in Procs, Does(p), SamePriors, CommandOK(p),
         Kind(p) \in {"trivial", "enrich", "pass", "rollback"},
         pc[p] # "done", pc'[p] # "done", got' = got, p \notin served,
         served' = served \cup {p},
         got[p] = Settled("prd"), got[p] \in Prds, Valid(p, got[p]),
         Settled("spec")' = Settled("spec"), Settled("prd")' = Changed(p, got[p])
  PROVE  Promise!Set(p)
<1>1. \A r \in Procs : r # p => Word(r)' = Word(r) BY Words
<1>2. Word(p) = "no" /\ Word(p)' = "no" BY DEF Word
<1>4. [r \in Procs |-> Word(r)]' = [r \in Procs |-> Word(r)] BY <1>1, <1>2
<1> DEFINE c == Changed(p, got[p])
           change == [r \in Procs |-> [d \in Prds \cup {None} |->
                       IF Kind(r) \notin {"plan", "check"} /\ Valid(r, d)
                       THEN Changed(r, d) ELSE None]]
<1>5. c \in Prds /\ c # None BY Changes, NoneAssumption
<1>6. change[p][got[p]] = c OBVIOUS
<1>7. [i \in Names |-> Settled(i)].prd = got[p] BY DEF Names
<1>8. [i \in Names |-> Settled(i)]' = [[i \in Names |-> Settled(i)] EXCEPT !.prd = c]
  BY DEF Names
<1>9. [q \in Procs |-> Prior(q)]' = [q \in Procs |-> Prior(q)] BY DEF SamePriors
<1> HIDE DEF c
<1>10. QED BY <1>2, <1>4, <1>5, <1>6, <1>7, <1>8, <1>9 DEF Promise!Set, Word, Prior

(* A step that leaves the files and transactions alone.                    *)
Told(p) ==
  /\ UNCHANGED <<file, txn>> /\ pc[p] # "done" /\ got'[p] \in {got[p], None}
  /\ served' \in {served, served \ {p}}
  /\ pc'[p] = "done" /\ told'[p] = "ok" => told[p] = "ok"

LEMMA Tolds ==
  ASSUME PairInv, PairInv', NEW p \in Procs, Does(p), Told(p)
  PROVE  Promised(p)
<1>1. PlanTypeOK /\ PlanTypeOK' /\ TxnsOK /\ TxnsOK' /\ CommandOK(p) BY DEF PairInv
<1>2. SamePair /\ SamePriors BY <1>1, SameFiles DEF Told
<1>3. told[p] = "ok" => p \in served BY <1>1 DEF CommandOK
<1>4. Promise!Tell(p) BY <1>1, <1>2, <1>3, Tells DEF Told
<1>5. QED BY <1>4 DEF Promised, Promise!Next

LEMMA LockPromise ==
  ASSUME PairInv, PairInv', NEW p \in Procs, Lock(p)
  PROVE  Promised(p)
<1> USE DEF Goto, Stop, Forget, Another, pairVars, mine, history
<1>0. PlanTypeOK BY DEF PairInv
<1>1. CASE CreateLock(p)  BY <1>0, <1>1, Tolds DEF CreateLock, Told, PlanTypeOK, Does, Step, Lock
<1>2. CASE FillLock(p)    BY <1>0, <1>2, Tolds DEF FillLock, Told, PlanTypeOK, Does, Step, Lock
<1>3. CASE VerifyLock(p)  BY <1>0, <1>3, Tolds DEF VerifyLock, Told, PlanTypeOK, Does, Step, Lock
<1>4. CASE FindLock(p)    BY <1>0, <1>4, Tolds DEF FindLock, Told, PlanTypeOK, Does, Step, Lock
<1>5. CASE JudgeLock(p)   BY <1>0, <1>5, Tolds DEF JudgeLock, Told, PlanTypeOK, Does, Step, Lock
<1>6. CASE RecheckLock(p) BY <1>0, <1>6, Tolds DEF RecheckLock, Told, PlanTypeOK, Does, Step, Lock
<1>7. CASE UnlinkStale(p) BY <1>0, <1>7, Tolds, ZenonT(40) DEF UnlinkStale, Told, PlanTypeOK, Does, Step, Lock
<1>8. CASE Release(p)     BY <1>0, <1>8, Tolds DEF Release, Told, PlanTypeOK, Does, Step, Lock
<1>9. CASE RemoveLock(p)  BY <1>0, <1>9, Tolds DEF RemoveLock, Told, PlanTypeOK, Does, Step, Lock
<1>10. QED BY <1>1, <1>2, <1>3, <1>4, <1>5, <1>6, <1>7, <1>8, <1>9 DEF Lock

(* A command that reads prd.json.                                          *)
LEMMA AskPromise ==
  ASSUME PairInv, PairInv', NEW p \in Procs, Ask(p)
  PROVE  Promised(p)
<1>0. PlanTypeOK /\ PlanTypeOK' /\ TxnsOK /\ TxnsOK' BY DEF PairInv
<1>d. Does(p) BY DEF Does, Step
<1>t. ASSUME Told(p) PROVE Promised(p) BY <1>d, <1>t, Tolds
<1>f. ASSUME UNCHANGED <<file, txn>>, pc[p] # "done", pc'[p] = "done" => told'[p] = "ok",
             got'[p] \in {got[p], None}, Took(p)
      PROVE  Promised(p)
  <2>1. SamePair /\ SamePriors BY <1>0, <1>f, SameFiles
  <2>2. Promise!Find(p) BY <1>0, <1>d, <1>f, <2>1, Finds DEF Took
  <2>3. QED BY <2>2 DEF Promised, Promise!Next
<1>l. ASSUME UNCHANGED <<file, txn, served>>, pc[p] # "done", pc'[p] # "done",
             file["prd"] # None, got'[p] = file["prd"]
      PROVE  Promised(p)
  <2>1. SamePair /\ SamePriors BY <1>0, <1>l, SameFiles
  <2>2. Settled("prd") = file["prd"] BY <1>0, <1>l, SettledThere
  <2>3. Promise!Look(p) BY <1>0, <1>d, <1>l, <2>1, <2>2, Looks
  <2>4. QED BY <2>3 DEF Promised, Promise!Next
<1>v. Valid(p, file["prd"]) => file["prd"] # None BY DEF Valid, IsPlanning, IsExecution
<1> USE DEF Goto, Stop, Forget, Took, MayStart, pairVars, mine, history
<1>1. CASE Begin(p) BY <1>0, <1>1, <1>t DEF Begin, Told, PlanTypeOK
<1>2. CASE ReadFirst(p)
  <2>1. CASE Stop(p, "refused") /\ UNCHANGED served
    BY <1>0, <1>2, <2>1, <1>t DEF ReadFirst, Told, PlanTypeOK
  <2>2. CASE Stop(p, "ok") /\ Took(p)
    BY <1>0, <1>2, <2>2, <1>f DEF ReadFirst, PlanTypeOK
  <2>3. CASE /\ Valid(p, file["prd"]) /\ got' = [got EXCEPT ![p] = file["prd"]]
             /\ Goto(p, "acquire") /\ UNCHANGED <<tries, served>>
    BY <1>0, <1>2, <2>3, <1>l, <1>v DEF ReadFirst, PlanTypeOK
  <2>4. QED BY <1>2, <2>1, <2>2, <2>3 DEF ReadFirst
<1>3. CASE LookTrivial(p)
  <2>1. pc[p] = "start" /\ UNCHANGED <<file, txn>> BY <1>3 DEF LookTrivial
  <2>2. CASE Stop(p, "refused") /\ UNCHANGED served
    BY <1>0, <2>1, <2>2, <1>t DEF Told, PlanTypeOK
  <2>3. CASE Stop(p, "ok") /\ Took(p) BY <1>0, <2>1, <2>3, <1>f DEF PlanTypeOK
  <2>4. CASE got' = [got EXCEPT ![p] = None] /\ Goto(p, "acquire") /\ UNCHANGED <<tries, served>>
    BY <1>0, <2>1, <2>4, <1>t DEF Told, PlanTypeOK
  <2>5. CASE /\ file["prd"] # None /\ got' = [got EXCEPT ![p] = file["prd"]]
             /\ Goto(p, "acquire") /\ UNCHANGED <<tries, served>>
    BY <1>0, <2>1, <2>5, <1>l DEF PlanTypeOK
  <2>6. QED BY <1>3, <2>2, <2>3, <2>4, <2>5 DEF LookTrivial
<1>4. CASE Reread(p)
  <2>1. CASE IsPlanning(file["prd"])
    BY <1>0, <1>4, <2>1, <1>l DEF Reread, PlanTypeOK, IsPlanning
  <2>2. CASE ~IsPlanning(file["prd"])
    BY <1>0, <1>4, <2>2, <1>t DEF Reread, Told, PlanTypeOK
  <2>3. QED BY <2>1, <2>2
<1>5. CASE Retry(p)
  <2>1. /\ pc[p] = "done" /\ told[p] # "ok" /\ pc'[p] # "done" /\ got' = got /\ served' = served
        /\ UNCHANGED <<file, txn>>
    BY <1>0, <1>5 DEF Retry, PlanTypeOK
  <2>2. SamePair /\ SamePriors BY <1>0, <2>1, SameFiles
  <2>3. Promise!Ask(p) BY <1>0, <1>d, <2>1, <2>2, Asks
  <2>4. QED BY <2>3 DEF Promised, Promise!Next
<1>6. QED BY <1>1, <1>2, <1>3, <1>4, <1>5 DEF Ask

(* A command that changes prd.json alone.                                  *)
LEMMA SwapPromise ==
  ASSUME PairInv, PairInv', NEW p \in Procs, Swap(p)
  PROVE  Promised(p)
<1>0. PlanTypeOK /\ PlanTypeOK' /\ TxnsOK /\ TxnsOK' /\ CommandOK(p) BY DEF PairInv
<1>d. Does(p) BY DEF Does, Step, Change
<1> DEFINE d == Changed(p, file["prd"])
<1>1. /\ file["prd"] \in Prds /\ file["prd"] # None /\ Valid(p, file["prd"])
      /\ Kind(p) \in {"trivial", "enrich", "pass", "rollback"}
      /\ d \in Prds /\ d.assigned # None /\ txn' = txn
      /\ file' = [file EXCEPT !["prd"] = d] /\ FilePut("prd", d)
  BY <1>0, SwapSets
<1>2. /\ pc[p] = "swap" /\ pc'[p] = "confirm" /\ got' = got /\ served' = served \cup {p}
  BY <1>0 DEF Swap, Goto, Took, PlanTypeOK
<1>3. got[p] = file["prd"] /\ p \notin served BY <1>0, <1>2 DEF CommandOK, Owns, AtTxn
<1>4. Settled("prd") = file["prd"] BY <1>0, <1>1, SettledThere
<1>5. SamePriors BY <1>1 DEF SamePriors, Prior
<1>6. CASE Torn BY <1>6 DEF Promised
<1>7. CASE ~Torn
  <2>1. Settled("spec")' = Settled("spec") /\ Settled("prd")' = d
    <3>1. OpenTxns' = OpenTxns BY <1>1 DEF OpenTxns
    <3>2. file'["spec"] = file["spec"] /\ file'["prd"] = d BY <1>1 DEF FilePut, Names
    <3>3. CASE OpenTxns = {}
      <4>1. \A i : Settled(i) = file[i] BY <3>3, SettledNone
      <4>2. \A i : Settled(i)' = file'[i] BY <3>1, <3>3, SettledNoneNext
      <4> HIDE DEF d
      <4>3. QED BY <3>2, <4>1, <4>2
    <3>4. ASSUME NEW q \in OpenTxns
          PROVE  Settled("spec")' = Settled("spec") /\ Settled("prd")' = d
      <4> DEFINE t == txn[q]
      <4>1. q \in Procs /\ t # None /\ txn'[q] = t /\ t \in Txns /\ file \in Pairs
        BY <1>0, <1>1 DEF OpenTxns, PlanTypeOK
      <4>2. TxnOK(file, t) BY <1>0 DEF TxnsOK
      <4>3. \A i : Settled(i) = SettledIn(file, i, t) BY <1>0, <4>1, SettledAt
      <4>4. \A i : Settled(i)' = SettledIn(file', i, t) BY <1>0, <4>1, SettledAtNext
      <4>5. ~DisplacedIn(file, "spec", t) \/ CommittedIn(file, t)
        <5>1. ~Displaced("spec", t) \/ Committed(t) BY <1>7 DEF Torn
        <5>2. QED BY <5>1, AsIn
      <4> HIDE DEF t, d
      <4>6. /\ SettledIn(file, "spec", t) = file["spec"]
            /\ SettledIn(file', "spec", t) = file["spec"]
            /\ SettledIn(file', "prd", t) = d
        BY <1>1, <4>1, <4>2, <4>5, SettledSet
      <4>7. QED BY <4>3, <4>4, <4>6
    <3>5. QED BY <3>3, <3>4
  <2>2. Promise!Set(p)
    BY <1>0, <1>d, <1>1, <1>2, <1>3, <1>4, <1>5, <2>1, Sets
  <2>3. QED BY <2>2 DEF Promised, Promise!Next
<1>8. QED BY <1>6, <1>7

LEMMA ChangePromise ==
  ASSUME PairInv, PairInv', NEW p \in Procs, Change(p)
  PROVE  Promised(p)
<1>0. PlanTypeOK /\ PlanTypeOK' /\ TxnsOK /\ TxnsOK' BY DEF PairInv
<1>d. Does(p) BY DEF Does, Step
<1>t. ASSUME Told(p) PROVE Promised(p) BY <1>d, <1>t, Tolds
<1> USE DEF Goto, Leave, Forget, Hold, Took, pairVars, mine, history
<1>1. CASE ReadCurrent(p)
  <2>1. CASE served' = served BY <1>0, <1>1, <2>1, <1>t DEF ReadCurrent, Told, PlanTypeOK
  <2>2. CASE Leave(p, "ok") /\ Took(p)
    <3>1. /\ UNCHANGED <<file, txn>> /\ pc[p] # "done" /\ pc'[p] # "done" /\ got'[p] = None
          /\ served' = served \cup {p}
      BY <1>0, <1>1, <2>2 DEF ReadCurrent, PlanTypeOK
    <3>2. SamePair /\ SamePriors BY <1>0, <3>1, SameFiles
    <3>3. Promise!Find(p) BY <1>0, <1>d, <3>1, <3>2, Finds
    <3>4. QED BY <3>3 DEF Promised, Promise!Next
  <2>3. QED BY <1>1, <2>1, <2>2 DEF ReadCurrent
<1>2. CASE CheckCurrent(p) BY <1>0, <1>2, <1>t DEF CheckCurrent, Told, PlanTypeOK
<1>3. CASE Swap(p)         BY <1>3, SwapPromise
<1>4. CASE Confirm(p)      BY <1>0, <1>4, <1>t DEF Confirm, Told, PlanTypeOK
<1>5. QED BY <1>1, <1>2, <1>3, <1>4 DEF Change
-----------------------------------------------------------------------------
(* A step of a transaction that leaves the pair as it counts.              *)

LEMMA PriorsBut ==
  ASSUME NEW q \in Procs, \A r \in Procs : r # q => txn'[r] = txn[r]
  PROVE  \A r \in Procs : r # q => Prior(r)' = Prior(r)
BY DEF Prior

LEMMA SamePriorAt ==
  ASSUME NEW q \in Procs, txn[q] # None, NEW u, TxnPut(q, u), Alike(u, txn[q]),
         u.staged["prd"] = "gone" <=> txn[q].staged["prd"] = "gone"
  PROVE  SamePriors
<1>1. txn'[q] = u /\ u # None /\ \A r \in Procs : r # q => txn'[r] = txn[r] BY DEF TxnPut
<1>2. \A r \in Procs : r # q => Prior(r)' = Prior(r) BY <1>1, PriorsBut
<1>3. Prior(q)' = Prior(q) BY <1>1 DEF Prior, Alike
<1>4. QED BY <1>2, <1>3 DEF SamePriors

LEMMA OldCounts ==
  ASSUME NEW f \in Pairs, NEW t \in Txns, TxnOK(f, t), t.manifest = "whole",
         \A i \in Names : t.staged[i] # "part", Old(f, "prd", t) \/ Away(f, "prd", t)
  PROVE  \A i \in Names : SettledIn(f, i, t) = t.init[i]
<1>1. PICK n \in DOMAIN TextOf : t.next = [spec |-> TextOf[n], prd |-> Prd(n)]
  BY DEF TxnOK
<1>2. Whole(t.init) /\ SpecPlace(f, t) BY DEF TxnOK
<1>3. QED BY <1>1, <1>2, SettledOld

LEMMA StillOld ==
  ASSUME PlanTypeOK, PlanTypeOK', TxnsOK, TxnsOK', NEW q \in Procs, txn[q] # None,
         NEW u, TxnPut(q, u), Alike(u, txn[q]),
         txn[q].manifest = "whole", u.manifest = "whole",
         \A i \in Names : txn[q].staged[i] # "part" /\ u.staged[i] # "part",
         Old(file, "prd", txn[q]) \/ Away(file, "prd", txn[q]),
         Old(file', "prd", u) \/ Away(file', "prd", u)
  PROVE  SamePair
<1>1. txn'[q] = u /\ u # None /\ u \in Txns /\ txn[q] \in Txns /\ file \in Pairs /\ file' \in Pairs
  BY DEF TxnPut, PlanTypeOK
<1>2. TxnOK(file, txn[q]) BY DEF TxnsOK, OpenTxns
<1>3. TxnOK(file', u) BY <1>1 DEF TxnsOK, OpenTxns
<1>4. \A i : Settled(i) = SettledIn(file, i, txn[q]) BY SettledAt
<1>5. \A i : Settled(i)' = SettledIn(file', i, u) BY <1>1, SettledAtNext
<1>6. \A i \in Names : SettledIn(file, i, txn[q]) = txn[q].init[i]
  BY <1>1, <1>2, OldCounts
<1>7. \A i \in Names : SettledIn(file', i, u) = u.init[i] BY <1>1, <1>3, OldCounts
<1>8. QED BY <1>4, <1>5, <1>6, <1>7 DEF SamePair, Alike

AsIs(f, t) ==
  \/ t.manifest # "whole"
  \/ \A i \in Names : f[i] = t.init[i]
  \/ \A i \in Names : f[i] = t.next[i]

LEMMA CountsAsIs ==
  ASSUME PlanTypeOK, TxnsOK, NEW q \in Procs, txn[q] # None, AsIs(file, txn[q])
  PROVE  \A i \in Names : Settled(i) = file[i]
<1>1. txn[q] \in Txns /\ file \in Pairs BY DEF PlanTypeOK
<1>2. TxnOK(file, txn[q]) BY DEF TxnsOK, OpenTxns
<1>3. \A i \in Names : SettledIn(file, i, txn[q]) = file[i]
  BY <1>1, <1>2, NextOf, SettledAsIs DEF AsIs
<1>4. QED BY <1>3, SettledAt

LEMMA CountsAsIsNext ==
  ASSUME PlanTypeOK', TxnsOK', NEW q \in Procs, txn'[q] # None, AsIs(file', txn'[q])
  PROVE  \A i \in Names : Settled(i)' = file'[i]
<1>1. txn'[q] \in Txns /\ file' \in Pairs BY DEF PlanTypeOK
<1>2. TxnOK(file', txn'[q]) BY DEF TxnsOK, OpenTxns
<1>3. \A i \in Names : SettledIn(file', i, txn'[q]) = file'[i]
  BY <1>1, <1>2, NextOf, SettledAsIs DEF AsIs
<1>4. \A i : Settled(i)' = SettledIn(file', i, txn'[q]) BY SettledAtNext
<1>5. QED BY <1>3, <1>4

LEMMA GoneAsIs ==
  ASSUME PlanTypeOK, TxnsOK, NEW q \in Procs, txn[q] # None, AsIs(file, txn[q]),
         file' = file, \A r \in Procs : txn'[r] = None
  PROVE  SamePair
<1>1. \A i \in Names : Settled(i) = file[i] BY CountsAsIs
<1>2. OpenTxns' = {} BY DEF OpenTxns
<1>3. \A i : Settled(i)' = file'[i] BY <1>2, SettledNoneNext
<1>4. QED BY <1>1, <1>3 DEF SamePair

LEMMA StillAsIs ==
  ASSUME PlanTypeOK, PlanTypeOK', TxnsOK, TxnsOK', NEW q \in Procs, txn[q] # None,
         NEW u, TxnPut(q, u), AsIs(file, txn[q]), AsIs(file', u), file' = file
  PROVE  SamePair
<1>1. txn'[q] = u /\ u # None BY DEF TxnPut
<1>2. \A i \in Names : Settled(i) = file[i] BY CountsAsIs
<1>3. \A i \in Names : Settled(i)' = file'[i] BY <1>1, CountsAsIsNext
<1>4. QED BY <1>2, <1>3 DEF SamePair

(* A command goes on and says nothing.                                     *)
LEMMA GoesOn ==
  ASSUME PairInv, PairInv', NEW p \in Procs, Does(p), SamePair, SamePriors,
         pc[p] # "done", pc'[p] # "done", got'[p] \in {got[p], None}, served' = served
  PROVE  Promised(p)
<1>1. PlanTypeOK /\ PlanTypeOK' BY DEF PairInv
<1>2. Promise!Tell(p) BY <1>1, Tells
<1>3. QED BY <1>2 DEF Promised, Promise!Next
-----------------------------------------------------------------------------
(* A command that replaces both files.                                     *)

LEMMA MovePromise ==
  ASSUME PairInv, PairInv', NEW p \in Procs, MoveToBackup(p)
  PROVE  Promised(p)
<1> DEFINE t == txn[p]
<1>0. PlanTypeOK /\ PlanTypeOK' /\ TxnsOK /\ TxnsOK' /\ AtWork(p) BY DEF PairInv
<1>d. Does(p) BY DEF Does, Step, Replace
<1>1. /\ pc[p] = "move" /\ t \in Txns /\ Quiet(p) /\ served' = served
      /\ HasMoved(p) \/ GivesUp(p) \/ \E i \in Names : MovesFile(p, i)
  BY <1>0, Moves
<1>2. t # None /\ OwnerOK(p, t) BY <1>0, <1>1 DEF AtWork, Owns, AtTxn
<1>3. /\ t.manifest = "whole"
      /\ \A i \in Names : t.staged[i] = "whole" /\ (Old(file, i, t) \/ Away(file, i, t))
  BY <1>1, <1>2 DEF OwnerOK
<1>4. CASE HasMoved(p) \/ GivesUp(p)
  <2>1. Told(p) BY <1>1, <1>4 DEF HasMoved, GivesUp, Told, Quiet
  <2>2. QED BY <1>d, <2>1, Tolds
<1>5. ASSUME NEW i \in Names, MovesFile(p, i) PROVE Promised(p)
  <2>1. PICK u \in Txns : TxnPut(p, u) /\ Backed(u, t, i, TRUE) BY <1>5 DEF MovesFile
  <2>2. /\ pc'[p] = "move" /\ t.init[i] # None /\ FilePut(i, None) BY <1>5 DEF MovesFile
  <2>3. \A j \in Names : u.staged[j] = "whole" /\ (Old(file', j, u) \/ Away(file', j, u))
    BY <1>3, <2>1, <2>2 DEF Backed, Alike, FilePut, Old, Away
  <2>4. Alike(u, t) /\ u.manifest = "whole" BY <1>3, <2>1 DEF Backed
  <2>5. SamePair
    <3>1. "prd" \in Names BY DEF Names
    <3>2. QED BY <1>0, <1>2, <1>3, <2>1, <2>3, <2>4, <3>1, StillOld
  <2>6. SamePriors
    <3>1. u.staged["prd"] = "whole" /\ t.staged["prd"] = "whole" BY <1>3, <2>3 DEF Names
    <3>2. QED BY <1>2, <2>1, <2>4, <3>1, SamePriorAt
  <2>7. QED BY <1>d, <1>1, <2>2, <2>5, <2>6, GoesOn DEF Quiet
<1>6. QED BY <1>1, <1>4, <1>5

LEMMA StagePromise ==
  ASSUME PairInv, PairInv', NEW p \in Procs, Stage(p)
  PROVE  Promised(p)
<1> DEFINE t == txn[p]
<1>0. PlanTypeOK /\ PlanTypeOK' /\ TxnsOK /\ TxnsOK' /\ AtWork(p) BY DEF PairInv
<1>d. Does(p) BY DEF Does, Step, Replace
<1>1. /\ pc[p] = "stage" /\ t \in Txns /\ Quiet(p) /\ served' = served /\ UNCHANGED file
      /\ NotesManifest(p) \/ HasStaged(p) \/ \E i \in Names : StagesFile(p, i)
  BY <1>0, Stages
<1>2. t # None /\ OwnerOK(p, t) BY <1>0, <1>1 DEF AtWork, Owns, AtTxn
<1>3. /\ Old(file, "spec", t) /\ Old(file, "prd", t)
      /\ \A i \in Names : t.staged[i] # "gone"
  BY <1>1, <1>2 DEF OwnerOK
<1>4. CASE HasStaged(p)
  <2>1. Told(p) BY <1>1, <1>4 DEF HasStaged, Told, Quiet
  <2>2. QED BY <1>d, <2>1, Tolds
<1>5. ASSUME NEW u, TxnPut(p, u), Alike(u, t), u.staged["prd"] # "gone", pc'[p] = "stage"
      PROVE  Promised(p)
  <2>1. AsIs(file, t) /\ AsIs(file', u) BY <1>1, <1>3, <1>5 DEF AsIs, Old, Alike, Names
  <2>2. SamePair BY <1>0, <1>1, <1>2, <1>5, <2>1, StillAsIs
  <2>3. t.staged["prd"] # "gone" BY <1>3 DEF Names
  <2>4. SamePriors BY <1>2, <1>5, <2>3, SamePriorAt
  <2>5. QED BY <1>d, <1>1, <1>5, <2>2, <2>4, GoesOn DEF Quiet
<1>6. CASE NotesManifest(p)
  <2>1. PICK u \in Txns : TxnPut(p, u) /\ Noted(u, t, Half(t.manifest))
    BY <1>6 DEF NotesManifest
  <2>2. u.staged["prd"] # "gone" /\ Alike(u, t) BY <1>3, <2>1 DEF Noted, Names
  <2>3. QED BY <1>5, <1>6, <2>1, <2>2 DEF NotesManifest
<1>7. ASSUME NEW i \in Names, StagesFile(p, i) PROVE Promised(p)
  <2>1. PICK u \in Txns : TxnPut(p, u) /\ Staged(u, t, i, Half(t.staged[i]))
    BY <1>7 DEF StagesFile
  <2>2. u.staged["prd"] # "gone" /\ Alike(u, t) BY <1>3, <2>1 DEF Staged, Names, Half
  <2>3. QED BY <1>5, <1>7, <2>1, <2>2 DEF StagesFile
<1>8. QED BY <1>1, <1>4, <1>6, <1>7

LEMMA InstallPromise ==
  ASSUME PairInv, PairInv', NEW p \in Procs, Install(p)
  PROVE  Promised(p)
<1> DEFINE t == txn[p]
<1>0. PlanTypeOK /\ PlanTypeOK' /\ TxnsOK /\ TxnsOK' /\ AtWork(p) /\ CommandOK(p) BY DEF PairInv
<1>d. Does(p) BY DEF Does, Step, Replace
<1>1. pc[p] = "install" /\ t # None BY DEF Install
<1>2. OwnerOK(p, t) /\ Owns(p) BY <1>0, <1>1 DEF AtWork, Owns, AtTxn
<1>3. TxnOK(file, t) BY <1>0, <1>1 DEF TxnsOK, OpenTxns
<1>4. /\ t \in Txns /\ Quiet(p)
      /\ \/ t.staged["spec"] = "whole" /\ InstallsFile(p, "spec")
         \/ t.staged["spec"] = "gone" /\ InstallsFile(p, "prd")
  BY <1>0, <1>2, Installs
<1>5. /\ t.next = Content(p) /\ t.manifest = "whole"
      /\ t.staged["prd"] = "whole" /\ Away(file, "prd", t)
  BY <1>1, <1>2 DEF OwnerOK
<1>6. \A i \in Names : t.staged[i] # "part" BY <1>4, <1>5 DEF Names
<1>7. CASE t.staged["spec"] = "whole" /\ InstallsFile(p, "spec")
  <2>1. PICK u \in Txns : TxnPut(p, u) /\ Staged(u, t, "spec", "gone")
    BY <1>7 DEF InstallsFile
  <2>2. pc'[p] = "install" /\ FilePut("spec", t.next["spec"]) /\ served' = served
    BY <1>7 DEF InstallsFile
  <2>3. /\ Away(file', "prd", u) /\ Alike(u, t) /\ u.manifest = "whole"
        /\ u.staged["spec"] = "gone" /\ u.staged["prd"] = "whole"
    BY <1>5, <2>1, <2>2 DEF Staged, Alike, FilePut, Names, Away
  <2>4. \A i \in Names : u.staged[i] # "part" BY <2>3 DEF Names
  <2>5. SamePair BY <1>0, <1>1, <1>5, <1>6, <2>1, <2>3, <2>4, StillOld
  <2>6. SamePriors BY <1>1, <1>5, <2>1, <2>3, SamePriorAt
  <2>7. QED BY <1>d, <1>1, <1>4, <2>2, <2>5, <2>6, GoesOn DEF Quiet
<1>8. CASE t.staged["spec"] = "gone" /\ InstallsFile(p, "prd")
  <2>1. PICK u \in Txns : TxnPut(p, u) /\ Staged(u, t, "prd", "gone")
    BY <1>8 DEF InstallsFile
  <2>2. pc'[p] = "validate" /\ FilePut("prd", t.next["prd"])
        /\ served' \in {served, served \cup {p}}
    BY <1>8 DEF InstallsFile
  <2>3. New(file, "spec", t) BY <1>1, <1>2, <1>8 DEF OwnerOK
  <2>4. /\ txn'[p] = u /\ u # None /\ Alike(u, t) /\ u.staged["prd"] = "gone"
        /\ \A r \in Procs : r # p => txn'[r] = txn[r]
    BY <2>1 DEF TxnPut, Staged
  <2>5. \A i \in Names : file'[i] = u.next[i]
    BY <2>2, <2>3, <2>4 DEF FilePut, New, Alike, Names
  <2>6. \A i \in Names : Settled(i)' = Content(p)[i]
    <3>1. AsIs(file', txn'[p]) BY <2>4, <2>5 DEF AsIs
    <3>2. \A i \in Names : Settled(i)' = file'[i] BY <1>0, <2>4, <3>1, CountsAsIsNext
    <3>3. QED BY <1>5, <2>4, <2>5, <3>2 DEF Alike
  <2>7. \A i \in Names : Settled(i) = t.init[i]
    <3>1. \A i \in Names : SettledIn(file, i, t) = t.init[i]
      BY <1>0, <1>3, <1>4, <1>5, <1>6, OldCounts DEF PlanTypeOK
    <3>2. \A i : Settled(i) = SettledIn(file, i, t) BY <1>0, <1>1, SettledAt
    <3>3. QED BY <3>1, <3>2
  <2>8. Prior(p)' = t.init /\ t.init \in Pairs BY <1>4, <2>4 DEF Prior, Alike, Txns
  <2>9. \A q \in Procs : q # p => Prior(q)' = Prior(q) BY <2>4, PriorsBut
  <2>10. Kind(p) \in {"plan", "trivial"}
    BY <1>0, <1>1, <1>2 DEF CommandOK, AtPair, AtTxn, PlanTypeOK, Kind, Commands
  <2>11. got' = got BY <1>4 DEF Quiet
  <2>12. Promise!Write(p)
    BY <1>0, <1>d, <1>1, <2>2, <2>6, <2>7, <2>8, <2>9, <2>10, <2>11, WritesPair
  <2>13. QED BY <2>12 DEF Promised, Promise!Next
<1>9. QED BY <1>4, <1>7, <1>8

LEMMA UndoPromise ==
  ASSUME PairInv, PairInv', NEW p \in Procs, Undo(p)
  PROVE  Promised(p)
<1> DEFINE t == txn[p]
<1>0. PlanTypeOK /\ PlanTypeOK' /\ TxnsOK /\ TxnsOK' /\ AtWork(p) /\ CommandOK(p) BY DEF PairInv
<1>d. Does(p) BY DEF Does, Step, Replace
<1>1. /\ pc[p] = "undo" /\ t \in Txns
      /\ HasUndone(p) \/ Refuses(p) \/ \E i \in Names : TakesBack(p, i) \/ GivesBack(p, i)
  BY <1>0, Undoes
<1>2. t # None /\ OwnerOK(p, t) /\ Owns(p) BY <1>0, <1>1 DEF AtWork, Owns, AtTxn
<1>3. TxnOK(file, t) BY <1>0, <1>2 DEF TxnsOK, OpenTxns
<1>5. /\ t.next = Content(p)
      /\ \A i \in Names :
            /\ t.staged[i] # "part"
            /\ IF t.staged[i] = "gone" THEN New(file, i, t)
               ELSE Old(file, i, t) \/ Away(file, i, t)
  BY <1>1, <1>2 DEF OwnerOK
<1>m. (\E i \in Names : t.staged[i] = "gone" \/ t.backup[i]) => t.manifest = "whole"
  BY <1>3, <1>1 DEF TxnOK, Old, Names, Txns
<1>g. t.staged["prd"] = "gone" => t.staged["spec"] = "gone"
  BY <1>3 DEF TxnOK, PrdPlace
<1>l. ASSUME NEW what, Leave(p, what) PROVE pc'[p] = "release" /\ got'[p] = None
  BY <1>0, <1>l DEF Leave, Forget, PlanTypeOK
<1>p. "prd" \in Names BY DEF Names
<1>6. CASE HasUndone(p)
  <2>1. /\ \A r \in Procs : txn'[r] = None /\ (r # p => txn'[r] = txn[r])
        /\ file' = file
    <3>1. txn' = [txn EXCEPT ![p] = None] /\ file' = file BY <1>6 DEF HasUndone
    <3>2. \A r \in Procs : txn'[r] = None BY <1>0, <1>2, <3>1, ClosedTxn
    <3>3. \A r \in Procs : r # p => txn'[r] = txn[r] BY <1>0, <3>1 DEF PlanTypeOK
    <3>4. QED BY <3>1, <3>2, <3>3
  <2>2. AsIs(file, t) BY <1>6 DEF HasUndone, AsIs
  <2>3. SamePair BY <1>0, <1>2, <2>1, <2>2, GoneAsIs
  <2>4. SamePriors
    <3>1. t.staged["prd"] # "gone" BY <1>6, <1>p DEF HasUndone
    <3>2. QED BY <2>1, <3>1 DEF SamePriors, Prior
  <2>5. QED BY <1>d, <1>1, <1>6, <1>l, <2>3, <2>4, GoesOn DEF HasUndone
<1>7. CASE Refuses(p)
  <2>1. Told(p) BY <1>1, <1>7, <1>l DEF Refuses, Told
  <2>2. QED BY <1>d, <2>1, Tolds
<1>8. CASE TakesBack(p, "prd")
  <2>1. PICK u \in Txns : TxnPut(p, u) /\ Staged(u, t, "prd", "whole") BY <1>8 DEF TakesBack
  <2>2. /\ pc'[p] = "undo" /\ Quiet(p) /\ t.staged["prd"] = "gone" /\ FilePut("prd", None)
        /\ served' = served \ {p}
    BY <1>8 DEF TakesBack
  <2>3. /\ txn'[p] = u /\ u # None /\ Alike(u, t) /\ u.staged["prd"] = "whole"
        /\ u.manifest = "whole" /\ \A r \in Procs : r # p => txn'[r] = txn[r]
    BY <2>1, <2>2, <1>m, <1>p DEF TxnPut, Staged
  <2>4. \A i \in Names : file[i] = t.next[i] BY <1>5, <1>g, <2>2 DEF Names, New
  <2>5. \A i \in Names : Settled(i) = Content(p)[i]
    <3>1. AsIs(file, t) BY <2>4 DEF AsIs
    <3>2. \A i \in Names : Settled(i) = file[i] BY <1>0, <1>2, <3>1, CountsAsIs
    <3>3. QED BY <1>5, <2>4, <3>2
  <2>6. \A i \in Names : Settled(i)' = t.init[i]
    <3>1. TxnOK(file', u) BY <1>0, <2>3 DEF TxnsOK, OpenTxns
    <3>2. New(file, "prd", t) BY <1>5, <2>2, <1>p
    <3>3. Away(file', "prd", u) BY <2>1, <2>2, <3>2, <1>p DEF Away, New, FilePut, Staged, Alike
    <3>4. \A i \in Names : u.staged[i] # "part" BY <1>5, <2>1 DEF Staged
    <3>5. u \in Txns /\ file' \in Pairs BY <1>0 DEF PlanTypeOK
    <3>6. \A i \in Names : SettledIn(file', i, u) = u.init[i]
      BY <2>3, <3>1, <3>3, <3>4, <3>5, OldCounts
    <3>7. \A i : Settled(i)' = SettledIn(file', i, u) BY <1>0, <2>3, SettledAtNext
    <3>8. QED BY <2>3, <3>6, <3>7 DEF Alike
  <2>7. Prior(p) = t.init /\ t.init \in Pairs BY <1>1, <1>2, <2>2 DEF Prior, Txns
  <2>8. Prior(p)' = None BY <2>3 DEF Prior
  <2>9. \A q \in Procs : q # p => Prior(q)' = Prior(q) BY <2>3, PriorsBut
  <2>10. Kind(p) \in {"plan", "trivial"}
    BY <1>0, <1>1, <1>2 DEF CommandOK, AtPair, AtTxn, PlanTypeOK, Kind, Commands
  <2>11. got' = got BY <2>2 DEF Quiet
  <2>12. Promise!Withdraw(p)
    BY <1>0, <1>d, <1>1, <2>2, <2>5, <2>6, <2>7, <2>8, <2>9, <2>10, <2>11, WithdrawsPair
  <2>13. QED BY <2>12 DEF Promised, Promise!Next
<1>9. ASSUME NEW u, TxnPut(p, u), Alike(u, t), t.manifest = "whole", u.manifest = "whole",
             \A i \in Names : u.staged[i] # "part",
             t.staged["prd"] # "gone" /\ u.staged["prd"] # "gone",
             Old(file', "prd", u) \/ Away(file', "prd", u),
             pc'[p] = "undo", Quiet(p), served' = served
      PROVE  Promised(p)
  <2>1. Old(file, "prd", t) \/ Away(file, "prd", t) BY <1>5, <1>9, <1>p
  <2>2. SamePair BY <1>0, <1>2, <1>5, <1>9, <2>1, StillOld
  <2>3. SamePriors BY <1>2, <1>9, SamePriorAt
  <2>4. QED BY <1>d, <1>1, <1>9, <2>2, <2>3, GoesOn DEF Quiet
<1>10. CASE TakesBack(p, "spec")
  <2>1. PICK u \in Txns : TxnPut(p, u) /\ Staged(u, t, "spec", "whole") BY <1>10 DEF TakesBack
  <2>2. /\ pc'[p] = "undo" /\ Quiet(p) /\ t.staged["spec"] = "gone" /\ FilePut("spec", None)
        /\ served' = served /\ UndoFree(p, "spec")
    BY <1>10 DEF TakesBack
  <2>3. Alike(u, t) /\ t.manifest = "whole" /\ u.manifest = "whole"
    BY <1>m, <2>1, <2>2 DEF Staged, Names
  <2>4. /\ \A i \in Names : u.staged[i] # "part" 
        /\ t.staged["prd"] # "gone" /\ u.staged["prd"] # "gone"
    BY <1>5, <2>1, <2>2 DEF Staged, UndoFree, Names
  <2>5. Old(file', "prd", u)
    BY <2>1, <2>2 DEF Staged, Alike, UndoFree, FilePut, Old, Names
  <2>6. QED BY <1>9, <2>1, <2>2, <2>3, <2>4, <2>5
<1>11. ASSUME NEW i \in Names, GivesBack(p, i) PROVE Promised(p)
  <2>1. PICK u \in Txns : TxnPut(p, u) /\ Backed(u, t, i, FALSE) BY <1>11 DEF GivesBack
  <2>2. /\ pc'[p] = "undo" /\ Quiet(p) /\ t.staged[i] # "gone" /\ t.backup[i]
        /\ FilePut(i, t.init[i]) /\ served' = served /\ UndoFree(p, i)
    BY <1>11 DEF GivesBack
  <2>3. Alike(u, t) /\ t.manifest = "whole" /\ u.manifest = "whole"
    BY <1>m, <2>1, <2>2 DEF Backed
  <2>4. /\ \A j \in Names : u.staged[j] # "part" 
        /\ t.staged["prd"] # "gone" /\ u.staged["prd"] # "gone"
    BY <1>5, <2>1, <2>2 DEF Backed, UndoFree, Names
  <2>5. Old(file', "prd", u)
    BY <2>1, <2>2 DEF Backed, Alike, UndoFree, FilePut, Old, Names
  <2>6. QED BY <1>9, <2>1, <2>2, <2>3, <2>4, <2>5
<1>12. \A i \in Names : i = "prd" \/ i = "spec" BY DEF Names
<1>13. QED BY <1>1, <1>6, <1>7, <1>8, <1>10, <1>11, <1>12

LEMMA RecoverPromise ==
  ASSUME PairInv, PairInv', NEW p \in Procs, Recover(p)
  PROVE  Promised(p)
<1>0. PlanTypeOK /\ PlanTypeOK' /\ TxnsOK BY DEF PairInv
<1>d. Does(p) BY DEF Does, Step, Replace
<1>1. pc[p] = "recover" /\ file' = file /\ served' = served BY DEF Recover, history
<1>2. CASE /\ \A q \in OpenTxns : OpenTxns = {q} /\ txn[q].manifest = "no"
           /\ txn' = [q \in Procs |-> None] /\ Goto(p, Ahead(p)) /\ got' = got
  <2>1. pc'[p] # "done" BY <1>0, <1>2 DEF Goto, Ahead, PlanTypeOK
  <2>2. \A r \in Procs : txn'[r] = None BY <1>2
  <2>3. CASE OpenTxns = {}
    <3>1. txn' = txn BY <1>0, <1>2, <2>3 DEF OpenTxns, PlanTypeOK
    <3>2. Told(p) BY <1>1, <1>2, <2>1, <3>1 DEF Told
    <3>3. QED BY <1>d, <3>2, Tolds
  <2>4. ASSUME NEW q \in OpenTxns PROVE Promised(p)
    <3>1. q \in Procs /\ txn[q] # None /\ txn[q].manifest = "no" /\ OpenTxns = {q}
      BY <1>2 DEF OpenTxns
    <3>2. AsIs(file, txn[q]) BY <3>1 DEF AsIs
    <3>3. SamePair BY <1>0, <1>1, <2>2, <3>1, <3>2, GoneAsIs
    <3>4. txn[q].staged["prd"] # "gone"
      BY <1>0, <3>1 DEF TxnsOK, TxnOK, Names
    <3>5. SamePriors
      <4>1. \A r \in Procs : r # q => txn[r] = None BY <3>1 DEF OpenTxns
      <4>2. QED BY <2>2, <3>4, <4>1 DEF SamePriors, Prior
    <3>6. QED BY <1>d, <1>1, <1>2, <2>1, <3>3, <3>5, GoesOn
  <2>5. QED BY <2>3, <2>4
<1>3. ASSUME NEW q, Goto(p, IF Committed(txn[q]) THEN "sweep" ELSE "restore"),
             UNCHANGED <<got, txn>>
      PROVE  Promised(p)
  <2>1. Told(p) BY <1>0, <1>1, <1>3 DEF Told, Goto, PlanTypeOK
  <2>2. QED BY <1>d, <2>1, Tolds
<1>4. CASE Leave(p, "refused") /\ txn' = txn
  <2>1. Told(p) BY <1>0, <1>1, <1>4 DEF Told, Leave, Forget, PlanTypeOK
  <2>2. QED BY <1>d, <2>1, Tolds
<1>5. QED BY <1>2, <1>3, <1>4 DEF Recover

LEMMA RestorePromise ==
  ASSUME PairInv, PairInv', NEW p \in Procs, Restore(p)
  PROVE  Promised(p)
<1> DEFINE t == txn[cur[p]]
<1>0. PlanTypeOK /\ PlanTypeOK' /\ TxnsOK /\ TxnsOK' /\ RecoverOK(p) BY DEF PairInv, AtWork
<1>d. Does(p) BY DEF Does, Step, Replace
<1>1. /\ pc[p] = "restore" /\ cur[p] \in Procs /\ t \in Txns /\ t # None /\ served' = served
      /\ HasRestored(p) \/ Refuses(p) \/ \E i \in Names : Cleans(p, i) \/ Restocks(p, i)
  BY <1>0, Restores
<1>2. /\ ReadableIn(file, t) /\ t.staged["prd"] # "gone" /\ t.manifest = "whole"
  BY <1>0, <1>1 DEF RecoverOK
<1>3. TxnOK(file, t) BY <1>0, <1>1 DEF TxnsOK, OpenTxns
<1>5. \A i \in Names : Old(file, i, t) \/ Away(file, i, t) \/ (i = "spec" /\ New(file, i, t))
  BY <1>0, <1>1, <1>2, <1>3, Placed DEF PlanTypeOK
<1>p. "prd" \in Names /\ (Old(file, "prd", t) \/ Away(file, "prd", t)) BY <1>5 DEF Names
<1>6. \A i \in Names : t.staged[i] # "part" BY <1>2 DEF ReadableIn
<1>7. CASE HasRestored(p)
  <2>1. Told(p) BY <1>1, <1>7 DEF HasRestored, Told, Quiet
  <2>2. QED BY <1>d, <2>1, Tolds
<1>8. CASE Refuses(p)
  <2>1. Told(p) BY <1>0, <1>1, <1>8 DEF Refuses, Told, Leave, Forget, PlanTypeOK
  <2>2. QED BY <1>d, <2>1, Tolds
<1>9. ASSUME NEW u, TxnPut(cur[p], u), Alike(u, t), u.manifest = "whole",
             \A i \in Names : u.staged[i] = t.staged[i],
             Old(file', "prd", u) \/ Away(file', "prd", u),
             pc'[p] = "restore", Quiet(p)
      PROVE  Promised(p)
  <2>1. SamePair BY <1>0, <1>1, <1>2, <1>6, <1>9, <1>p, StillOld
  <2>2. SamePriors BY <1>1, <1>9, <1>p, SamePriorAt
  <2>3. QED BY <1>d, <1>1, <1>9, <2>1, <2>2, GoesOn DEF Quiet
<1>10. ASSUME NEW i \in Names, Cleans(p, i) PROVE Promised(p)
  <2>1. /\ pc'[p] = "restore" /\ Quiet(p) /\ txn' = txn /\ FilePut(i, None)
        /\ ClassIn(file, i, t) = "next"
    BY <1>10 DEF Cleans
  <2>2. file[i] = t.next[i] /\ file[i] # t.init[i] /\ file[i] # None
    BY <2>1 DEF ClassIn
  <2>3. i # "prd" BY <1>p, <2>2 DEF Old, Away
  <2>4. file'["prd"] = file["prd"] BY <2>1, <2>3, <1>p DEF FilePut
  <2>5. Old(file', "prd", t) \/ Away(file', "prd", t) BY <1>p, <2>4 DEF Old, Away
  <2>6. TxnPut(cur[p], t) BY <1>1, <2>1 DEF TxnPut
  <2>7. QED BY <1>2, <1>9, <2>1, <2>5, <2>6 DEF Alike
<1>11. ASSUME NEW i \in Names, Restocks(p, i) PROVE Promised(p)
  <2>1. /\ pc'[p] = "restore" /\ Quiet(p) /\ FilePut(i, t.init[i]) BY <1>11 DEF Restocks
  <2>2. PICK u \in Txns : TxnPut(cur[p], u) /\ Backed(u, t, i, FALSE)
    BY <1>11 DEF Restocks
  <2>3. Old(file', "prd", u) \/ Away(file', "prd", u)
    BY <1>p, <2>1, <2>2 DEF FilePut, Backed, Alike, Old, Away
  <2>4. QED BY <1>2, <1>9, <2>1, <2>2, <2>3 DEF Backed
<1>12. QED BY <1>1, <1>7, <1>8, <1>10, <1>11

LEMMA SweepPromise ==
  ASSUME PairInv, PairInv', NEW p \in Procs, Sweep(p)
  PROVE  Promised(p)
<1> DEFINE t == txn[cur[p]]
<1>0. PlanTypeOK /\ PlanTypeOK' /\ TxnsOK /\ TxnsOK' /\ RecoverOK(p) BY DEF PairInv, AtWork
<1>d. Does(p) BY DEF Does, Step, Replace
<1>1. /\ pc[p] = "sweep" /\ file' = file /\ txn' = [txn EXCEPT ![cur[p]] = None]
      /\ pc'[p] = Ahead(p) /\ got' = got /\ served' = served
  BY <1>0 DEF Sweep, Goto, PlanTypeOK, history
<1>2. /\ cur[p] \in Procs /\ t # None /\ t.manifest = "whole"
      /\ \/ CommittedIn(file, t)
         \/ ReadableIn(file, t) /\ \A i \in Names : ~DisplacedIn(file, i, t)
  BY <1>0, <1>1 DEF RecoverOK
<1>3. \A i \in Names : Settled(i) = file[i]
  <2>1. \A i : Settled(i) = SettledIn(file, i, t) BY <1>0, <1>2, SettledAt
  <2>2. \A i \in Names : SettledIn(file, i, t) = file[i] BY <1>2 DEF SettledIn
  <2>3. QED BY <2>1, <2>2
<1>4. \A r \in Procs : txn'[r] = None /\ (r # cur[p] => txn'[r] = txn[r])
  <2>1. \A r \in Procs : txn'[r] = None BY <1>0, <1>1, <1>2, ClosedTxn
  <2>2. \A r \in Procs : r # cur[p] => txn'[r] = txn[r] BY <1>0, <1>1 DEF PlanTypeOK
  <2>3. QED BY <2>1, <2>2
<1>5. SamePair
  <2>1. OpenTxns' = {} BY <1>4 DEF OpenTxns
  <2>2. \A i : Settled(i)' = file'[i] BY <2>1, SettledNoneNext
  <2>3. QED BY <1>1, <1>3, <2>2 DEF SamePair
<1>q. PICK q \in Procs : q = cur[p] BY <1>2
<1>6. Prior(q)' = None BY <1>4 DEF Prior
<1>7. \A r \in Procs : r # q => Prior(r)' = Prior(r) BY <1>4, <1>q, PriorsBut
<1>8. Promise!Discard({q})
  BY <1>0, <1>d, <1>1, <1>5, <1>6, <1>7, Discards DEF Ahead
<1>9. {q} \in SUBSET Procs OBVIOUS
<1>10. QED BY <1>8, <1>9 DEF Promised, Promise!Next

LEMMA ValidatePromise ==
  ASSUME PairInv, PairInv', NEW p \in Procs, ValidatePair(p)
  PROVE  Promised(p)
<1>0. PlanTypeOK /\ PlanTypeOK' /\ TxnsOK /\ TxnsOK' BY DEF PairInv
<1>d. Does(p) BY DEF Does, Step, Replace
<1>1. pc[p] = "validate" /\ UNCHANGED <<file, txn>> BY DEF ValidatePair, pairVars
<1>2. CASE Leave(p, "ok") /\ Took(p)
  <2>1. pc'[p] # "done" /\ got'[p] = None /\ served' = served \cup {p}
    BY <1>0, <1>2 DEF Leave, Forget, Took, PlanTypeOK
  <2>2. SamePair /\ SamePriors BY <1>0, <1>1, SameFiles
  <2>3. Promise!Find(p) BY <1>0, <1>d, <1>1, <2>1, <2>2, Finds
  <2>4. QED BY <2>3 DEF Promised, Promise!Next
<1>3. CASE Leave(p, "refused") /\ UNCHANGED served
  <2>1. Told(p) BY <1>0, <1>1, <1>3 DEF Told, Leave, Forget, PlanTypeOK
  <2>2. QED BY <1>d, <2>1, Tolds
<1>4. QED BY <1>2, <1>3 DEF ValidatePair

LEMMA OpenPromise ==
  ASSUME PairInv, PairInv', NEW p \in Procs, OpenTxn(p)
  PROVE  Promised(p)
<1>0. PlanTypeOK /\ PlanTypeOK' /\ TxnsOK /\ TxnsOK' /\ AtWork(p) BY DEF PairInv
<1>d. Does(p) BY DEF Does, Step, Replace
<1>1. /\ pc[p] = "open" /\ file' = file /\ pc'[p] = "stage" /\ got' = got /\ served' = served
      /\ txn'[p] # None /\ txn'[p].manifest = "no" /\ txn'[p].staged["prd"] = "no"
      /\ \A r \in Procs : r # p => txn'[r] = txn[r]
  <2>1. [manifest |-> "no", init |-> file, next |-> Content(p),
         staged |-> Both("no"), backup |-> Both(FALSE)] # None
    <3>1. OwnerOK(p, txn[p])' /\ txn'[p] # None
      <4>1. pc'[p] = "stage" BY <1>0 DEF OpenTxn, Goto, PlanTypeOK
      <4>2. Owns(p)' BY <4>1 DEF Owns, AtTxn
      <4>3. QED BY <4>2 DEF PairInv, AtWork
    <3>2. QED BY <1>0, <3>1, ZenonT(40) DEF OpenTxn, PlanTypeOK
  <2>2. QED BY <1>0, <2>1 DEF OpenTxn, Goto, PlanTypeOK, history, Both, Names
<1>2. OpenTxns = {} BY <1>0, <1>1 DEF AtWork
<1>3. \A i : Settled(i) = file[i] BY <1>2, SettledNone
<1>4. \A i \in Names : Settled(i)' = file'[i]
  <2>1. AsIs(file', txn'[p]) BY <1>1 DEF AsIs
  <2>2. QED BY <1>0, <1>1, <2>1, CountsAsIsNext
<1>5. SamePair BY <1>1, <1>3, <1>4 DEF SamePair
<1>6. SamePriors
  <2>1. txn[p] = None BY <1>2 DEF OpenTxns
  <2>2. QED BY <1>1, <2>1 DEF SamePriors, Prior
<1>7. QED BY <1>d, <1>1, <1>5, <1>6, GoesOn

LEMMA ClosePromise ==
  ASSUME PairInv, PairInv', NEW p \in Procs, CloseTxn(p)
  PROVE  Promised(p)
<1> DEFINE t == txn[p]
<1>0. PlanTypeOK /\ PlanTypeOK' /\ TxnsOK /\ TxnsOK' /\ AtWork(p) /\ CommandOK(p) BY DEF PairInv
<1>d. Does(p) BY DEF Does, Step, Replace
<1>1. /\ pc[p] = "close" /\ file' = file /\ txn' = [txn EXCEPT ![p] = None]
      /\ pc'[p] = "release" /\ got'[p] = None /\ served' = served
  BY <1>0 DEF CloseTxn, Leave, Forget, history, PlanTypeOK
<1>2. t # None /\ OwnerOK(p, t) BY <1>0, <1>1 DEF AtWork, Owns, AtTxn
<1>3. AsIs(file, t) BY <1>1, <1>2 DEF OwnerOK, New, AsIs
<1>4. \A r \in Procs : txn'[r] = None /\ (r # p => txn'[r] = txn[r])
  <2>1. \A r \in Procs : txn'[r] = None BY <1>0, <1>1, <1>2, ClosedTxn
  <2>2. \A r \in Procs : r # p => txn'[r] = txn[r] BY <1>0, <1>1 DEF PlanTypeOK
  <2>3. QED BY <2>1, <2>2
<1>5. SamePair BY <1>0, <1>1, <1>2, <1>3, <1>4, GoneAsIs
<1>6. got[p] = None BY <1>0, <1>1 DEF CommandOK, AtPair, AtTxn
<1>7. Prior(p)' = None BY <1>4 DEF Prior
<1>8. \A r \in Procs : r # p => Prior(r)' = Prior(r) BY <1>4, PriorsBut
<1>9. Promise!Discard({p})
  BY <1>0, <1>d, <1>1, <1>5, <1>6, <1>7, <1>8, Discards
<1>10. {p} \in SUBSET Procs OBVIOUS
<1>11. QED BY <1>9, <1>10 DEF Promised, Promise!Next

LEMMA ReplacePromise ==
  ASSUME PairInv, PairInv', NEW p \in Procs, Replace(p)
  PROVE  Promised(p)
<1>0. PlanTypeOK BY DEF PairInv
<1>d. Does(p) BY DEF Does, Step
<1>1. CASE ValidateInstalled(p)
  <2>1. Told(p)
    BY <1>0, <1>1 DEF ValidateInstalled, Told, Goto, PlanTypeOK, pairVars, mine, history
  <2>2. QED BY <1>d, <2>1, Tolds
<1>2. CASE LoseTxn(p)
  <2>1. Told(p)
    BY <1>0, <1>2 DEF LoseTxn, Told, Leave, Forget, PlanTypeOK, pairVars, history
  <2>2. QED BY <1>d, <2>1, Tolds
<1>3. QED BY <1>1, <1>2, RecoverPromise, RestorePromise, SweepPromise, ValidatePromise,
             OpenPromise, StagePromise, MovePromise, InstallPromise, ClosePromise, UndoPromise
          DEF Replace

(* What goes wrong.                                                        *)
LEMMA FaultPromise ==
  ASSUME PairInv, PairInv', NEW p \in Procs, Fault(p)
  PROVE  Promised(p)
<1> DEFINE t == txn[p]
<1>0. PlanTypeOK /\ PlanTypeOK' /\ TxnsOK /\ TxnsOK' /\ AtWork(p) BY DEF PairInv
<1>d. Does(p) BY DEF Does
<1>1. served' = served /\ file' = file BY <1>0, Faults
<1>2. ASSUME NEW what, Leave(p, what), txn' = txn, pc[p] # "done" PROVE Promised(p)
  <2>1. Told(p) BY <1>0, <1>1, <1>2 DEF Told, Leave, Forget, PlanTypeOK
  <2>2. QED BY <1>d, <2>1, Tolds
<1>3. CASE BreaksOff(p)
  <2>1. /\ pc[p] \in {"stage", "move", "install", "validate"} /\ t \in Txns
        /\ Quiet(p) /\ pc'[p] = "undo"
    BY <1>3 DEF BreaksOff
  <2>2. PICK u : TxnPut(p, u) /\ Cleaned(u, t) BY <1>3 DEF BreaksOff
  <2>3. t # None BY <2>1, NoneAssumption
  <2>4. Kind(p) # "check" BY <1>0, <2>3 DEF TxnsOK, OpenTxns
  <2>5. OwnerOK(p, t) BY <1>0, <2>1, <2>4 DEF AtWork, Owns, AtTxn
  <2>6. Alike(u, t) /\ (t.manifest = "whole" => u.manifest = "whole")
        /\ \A i \in Names : u.backup[i] = t.backup[i] /\ u.staged[i] # "part"
                            /\ (u.staged[i] = "gone" <=> t.staged[i] = "gone")
    BY <2>2 DEF Cleaned, Removed
  <2>p. "prd" \in Names BY DEF Names
  <2>7. SamePair
    <3>1. CASE pc[p] = "stage"
      <4>1. AsIs(file, t) /\ AsIs(file', u)
        BY <1>1, <2>5, <2>6, <3>1 DEF OwnerOK, AsIs, Old, Alike, Names
      <4>2. QED BY <1>0, <1>1, <2>2, <2>3, <4>1, StillAsIs
    <3>2. CASE pc[p] = "validate"
      <4>1. AsIs(file, t) /\ AsIs(file', u)
        BY <1>1, <2>5, <2>6, <3>2 DEF OwnerOK, AsIs, New, Alike
      <4>2. QED BY <1>0, <1>1, <2>2, <2>3, <4>1, StillAsIs
    <3>3. CASE pc[p] \in {"move", "install"}
      <4>1. t.manifest = "whole" /\ (Old(file, "prd", t) \/ Away(file, "prd", t))
            /\ \A i \in Names : t.staged[i] # "part"
        BY <2>5, <2>p, <3>3 DEF OwnerOK, Names
      <4>2. Old(file', "prd", u) \/ Away(file', "prd", u)
        BY <1>1, <2>6, <2>p, <4>1 DEF Old, Away, Alike
      <4>3. QED BY <1>0, <2>2, <2>3, <2>6, <4>1, <4>2, StillOld
    <3>4. QED BY <2>1, <3>1, <3>2, <3>3
  <2>8. SamePriors BY <2>2, <2>3, <2>6, <2>p, SamePriorAt
  <2>9. QED BY <1>d, <1>1, <2>1, <2>7, <2>8, GoesOn DEF Quiet
<1>4. CASE pc[p] = "close" /\ UNCHANGED txn /\ Leave(p, IF Kind(p) = "plan" THEN "ok" ELSE "no")
  BY <1>2, <1>4
<1>5. CASE pc[p] = "check" /\ UNCHANGED txn /\ Leave(p, "again") BY <1>2, <1>5
<1>6. CASE pc[p] = "confirm" /\ UNCHANGED txn /\ Leave(p, "refused") BY <1>2, <1>6
<1>7. QED BY <1>0, <1>3, <1>4, <1>5, <1>6, Faults

LEMMA StepPromise ==
  ASSUME PairInv, PairInv', NEW p \in Procs, Does(p)
  PROVE  Promised(p)
<1>1. CASE Die(p)
  <2>1. PlanTypeOK BY DEF PairInv
  <2>2. Told(p) BY <1>1, <2>1 DEF Die, Told, Forget, PlanTypeOK, pairVars
  <2>3. QED BY <2>2, Tolds
<1>2. QED BY <1>1, LockPromise, AskPromise, ChangePromise, ReplacePromise, FaultPromise
          DEF Does, Step

LEMMA AgesPromise ==
  ASSUME PairInv, PairInv', LockAges
  PROVE  UNCHANGED Promise!vars
<1>1. TxnsOK /\ TxnsOK' /\ UNCHANGED <<file, txn, pc, got, told, served>>
  BY DEF PairInv, LockAges, pairVars, mine, history
<1>2. SamePair BY <1>1, SameFiles
<1>3. QED BY <1>1, <1>2 DEF SamePair, Promise!vars

LEMMA InitPromise ==
  ASSUME StoreInit
  PROVE  Promise!Init
BY DEF StoreInit, Promise!Init

(* The files, the lock and the transactions implement PrdPromise: both     *)
(* files change together or not at all, no change is made twice or from a  *)
(* prd.json its author has not read, and what a command is told of them is *)
(* so, whoever dies and whatever fails; save for a stolen lock, and for a  *)
(* setter over a transaction left half done.                               *)
THEOREM PairIsKept == StoreSpec => KeepsPair
<1>1. StoreInit => Promise!Init BY InitPromise
<1>2. /\ stolen \in BOOLEAN /\ PairKept /\ [StoreNext]_storeVars
      /\ (stolen \in BOOLEAN /\ PairKept)'
      => [Promise!Next \/ stolen' \/ \E p \in Procs : Torn /\ Swap(p)]_Promise!vars
  <2> SUFFICES ASSUME stolen \in BOOLEAN, PairKept, [StoreNext]_storeVars,
                      stolen' \in BOOLEAN, PairKept', ~stolen'
               PROVE  \/ Promise!Next \/ \E p \in Procs : Torn /\ Swap(p)
                      \/ UNCHANGED Promise!vars
    OBVIOUS
  <2>0. PairInv' BY DEF PairKept
  <2>1. CASE UNCHANGED storeVars
    BY <2>1 DEF storeVars, pairVars, mine, history, Promise!vars, Settled, OpenTxns, Readable,
                Committed, Displaced, Class
  <2>2. ASSUME NEW p \in Procs, Does(p)
        PROVE  Promise!Next \/ (Torn /\ Swap(p)) \/ UNCHANGED Promise!vars
    <3>1. PairInv
      <4>1. stolen => stolen'
        BY <2>2 DEF Does, history, Step, Lock, Ask, Change, Replace, CreateLock, FillLock,
           VerifyLock, FindLock, JudgeLock, RecheckLock, UnlinkStale, Release, RemoveLock, Begin,
           ReadFirst, LookTrivial, Reread, Retry, ReadCurrent, CheckCurrent, Swap, Confirm, Recover,
           Restore, Sweep, ValidatePair, OpenTxn, Stage, MoveToBackup, Install, ValidateInstalled,
           CloseTxn, Undo, LoseTxn, Fault, Die
      <4>2. QED BY <4>1 DEF PairKept
    <3>2. Promised(p) BY <2>0, <2>2, <3>1, StepPromise
    <3>3. QED BY <3>2 DEF Promised
  <2>3. CASE LockAges
    <3>1. PairInv BY <2>3 DEF PairKept, LockAges, history
    <3>2. QED BY <2>0, <2>3, <3>1, AgesPromise
  <2>4. QED BY <2>1, <2>2, <2>3 DEF StoreNext, Does
<1>3. StoreSpec => [](stolen \in BOOLEAN /\ PairKept) BY PairInvariant
<1>4. QED BY <1>1, <1>2, <1>3, PTL DEF StoreSpec, KeepsPair
=============================================================================
