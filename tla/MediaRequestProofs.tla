------------------------- MODULE MediaRequestProofs -------------------------
(***************************************************************************)
(* Proofs about MediaRequest, for every set of requests and accounts, and  *)
(* whatever the pool does: of the pool's steps they use nothing.           *)
(***************************************************************************)
EXTENDS MediaRequest, TLAPS

\* Where a request may still send a message.
Before == {"idle", "resolving", "choosing", "creating", "sending", "resending"}

Labels == Before \cup {"looking", "listing", "polling", "giving up", "uploading", "done"}

Shapes ==
    /\ pc \in [Requests -> Labels]
    /\ tries \in [Requests -> Nat]
    /\ tasks \in [Requests -> TaskLists \cup {<<>>}]
    /\ late \in [Requests -> BOOLEAN]
    /\ reply \in [Requests -> {"none", "url", "timeout", "error"}]
    /\ video \in [Requests -> {"running", "finished", "failed"}]

\* Until its message is sent nothing is paid for r; when it is sent a second time, with
\* a real account, one asset may be.
Billed(r) ==
    /\ pc[r] \in Before \ {"resending"} => made[r] = 0 /\ ~resent[r]
    /\ pc[r] = "resending" => /\ made[r] <= IF resent[r] THEN 1 ELSE 0
                              /\ resent[r] <=> held[r] # Guest
    /\ made[r] <= IF resent[r] THEN 2 ELSE 1

Bill ==
    /\ held = [r \in Requests |-> held[r]]
    /\ made \in [Requests -> 0..3]
    /\ resent \in [Requests -> BOOLEAN]
    /\ \A r \in Requests : Billed(r)

\* A task that was left behind has failed.
LeftHaveFailed(r) ==
    \A i \in 1..tries[r] : tasks[r][i] = "task" /\ video[r] = "failed"

Polled == \A r \in Requests :
    pc[r] = "polling" =>
        /\ tasks[r] \in TaskLists
        /\ tries[r] \in 0..Len(tasks[r])
        /\ LeftHaveFailed(r)

\* Nobody is told anything before the end.
AnsweredLast == \A r \in Requests : reply[r] = "timeout" => pc[r] = "done"

\* What a step of r may do to its counter and its list,
Counts(r) == tries' = tries \/ (\E n \in Nat : tries' = [tries EXCEPT ![r] = n])

Lists(r) ==
    tasks' = tasks \/ (\E s \in TaskLists \cup {<<>>} : tasks' = [tasks EXCEPT ![r] = s])

\* and to its account and its place.
Holds(r) == held' = held \/ (\E k : held' = [held EXCEPT ![r] = k])

Goes(r) == pc' = pc \/ (\E l \in Labels : pc' = [pc EXCEPT ![r] = l])

Rest == Shapes /\ Polled /\ AnsweredLast /\ GivesUpOnlyLate

IInv == Rest /\ Bill

-----------------------------------------------------------------------------

LEMMA InitInv == Init => IInv
<1> SUFFICES ASSUME Init PROVE IInv
  OBVIOUS
<1> USE DEF Init
<1>1. Shapes
  BY DEF Shapes, Labels, Before
<1>2. Bill
  BY DEF Bill, Billed, Before, Pool!Init
<1>3. Polled /\ AnsweredLast /\ GivesUpOnlyLate
  BY DEF Polled, AnsweredLast, GivesUpOnlyLate
<1>4. QED
  BY <1>1, <1>2, <1>3 DEF IInv, Rest

-----------------------------------------------------------------------------
(* Where the requests are *)

\* A step by which a request goes to where it does not poll and is not over.
LEMMA MovesOn ==
    ASSUME Rest, NEW r \in Requests, NEW l \in Labels \ {"polling", "done"},
           pc[r] # "done",
           pc' = [pc EXCEPT ![r] = l],
           Counts(r), Lists(r),
           UNCHANGED <<late, reply, video>>
    PROVE  Rest'
<1> USE DEF Rest, Counts, Lists
<1>1. Shapes'
  <2>1. pc' \in [Requests -> Labels]
    BY DEF Shapes, Labels
  <2>2. tries' \in [Requests -> Nat]
    BY DEF Shapes
  <2>3. tasks' \in [Requests -> TaskLists \cup {<<>>}]
    BY DEF Shapes
  <2>4. QED
    BY <2>1, <2>2, <2>3 DEF Shapes
<1>2. \A q \in Requests \ {r} : tries'[q] = tries[q] /\ tasks'[q] = tasks[q] /\ pc'[q] = pc[q]
  BY DEF Shapes, Labels, Before
<1>3. pc'[r] = l
  BY DEF Shapes, Labels, Before
<1>4. Polled'
  BY <1>2, <1>3 DEF Polled, LeftHaveFailed
<1>5. AnsweredLast'
  BY <1>2 DEF AnsweredLast
<1>6. GivesUpOnlyLate'
  BY <1>2 DEF GivesUpOnlyLate, AnsweredLast
<1>7. QED
  BY <1>1, <1>4, <1>5, <1>6

\* A step that ends a request otherwise than by the timeout.
LEMMA Ends ==
    ASSUME Rest, NEW r \in Requests, NEW answer \in {"url", "error"},
           Return(r, answer),
           Counts(r), Lists(r),
           UNCHANGED <<late, video>>
    PROVE  Rest'
<1> USE DEF Rest, Counts, Lists
<1>1. pc' = [pc EXCEPT ![r] = "done"] /\ reply' = [reply EXCEPT ![r] = answer]
  BY DEF Return, Goto
<1>2. Shapes'
  <2>1. pc' \in [Requests -> Labels]
    BY <1>1 DEF Shapes, Labels
  <2>2. tries' \in [Requests -> Nat]
    BY DEF Shapes
  <2>3. tasks' \in [Requests -> TaskLists \cup {<<>>}]
    BY DEF Shapes
  <2>4. QED
    BY <1>1, <2>1, <2>2, <2>3 DEF Shapes
<1>3. \A q \in Requests \ {r} : /\ tries'[q] = tries[q] /\ tasks'[q] = tasks[q]
                                /\ pc'[q] = pc[q] /\ reply'[q] = reply[q]
  BY <1>1 DEF Shapes, Labels, Before
<1>4. pc'[r] = "done" /\ reply'[r] # "timeout"
  BY <1>1 DEF Shapes, Labels, Before
<1>5. Polled'
  BY <1>3, <1>4 DEF Polled, LeftHaveFailed
<1>6. AnsweredLast' /\ GivesUpOnlyLate'
  BY <1>3, <1>4 DEF AnsweredLast, GivesUpOnlyLate
<1>7. QED
  BY <1>2, <1>5, <1>6

LEMMA RetriesOrFails ==
    ASSUME Rest, NEW r \in Requests, pc[r] \in Before,
           RetryOrFail(r),
           Counts(r), Lists(r),
           UNCHANGED <<late, video>>
    PROVE  Rest'
<1>1. CASE Goto(r, "idle") /\ UNCHANGED reply
  BY <1>1, MovesOn DEF Goto, Before, Labels
<1>2. CASE Fail(r)
  BY <1>2, Ends DEF Fail
<1>3. QED
  BY <1>1, <1>2 DEF RetryOrFail

LEMMA BeginRest == ASSUME Rest, NEW r \in Requests, Begin(r) PROVE Rest'
<1>1. \E l \in {"choosing", "resolving"} :
        /\ pc' = [pc EXCEPT ![r] = l]
        /\ Counts(r)
  BY FilesAssumption DEF Begin, Goto, Counted, Counts
<1>2. pc[r] = "idle" /\ UNCHANGED <<tasks, late, reply, video>>
  BY DEF Begin, upstreamVars
<1>3. QED
  BY <1>1, <1>2, MovesOn DEF Before, Counts, Lists, Labels

LEMMA ChooseRest ==
    ASSUME Rest, NEW r \in Requests, Resolved(r) \/ Choose(r) PROVE Rest'
<1>1. CASE Resolved(r)
  BY <1>1, MovesOn DEF Resolved, Goto, Before, upstreamVars, Counts, Lists, Labels
<1>2. CASE Choose(r) /\ Return(r, "error")
  BY <1>2, Ends DEF Choose, upstreamVars, Counts, Lists
<1>3. CASE Choose(r) /\ ~Return(r, "error")
  <2>1. \E l \in {"uploading", "creating"} : pc' = [pc EXCEPT ![r] = l]
    BY <1>3 DEF Choose, Goto
  <2>2. pc[r] = "choosing" /\ UNCHANGED <<tries, tasks, late, reply, video>>
    BY <1>3 DEF Choose, upstreamVars
  <2>3. QED
    BY <2>1, <2>2, MovesOn DEF Before, Counts, Lists, Labels
<1>4. QED
  BY <1>1, <1>2, <1>3

LEMMA NewChatRest == ASSUME Rest, NEW r \in Requests, NewChat(r) PROVE Rest'
<1>1. pc[r] = "creating" /\ UNCHANGED <<tries, tasks, late, video>>
  BY DEF NewChat, upstreamVars
<1>2. CASE RetryOrFail(r)
  BY <1>1, <1>2, RetriesOrFails DEF Before, Counts, Lists
<1>3. CASE Goto(r, "sending") /\ UNCHANGED reply
  BY <1>1, <1>3, MovesOn DEF Goto, Before, Counts, Lists, Labels
<1>4. QED
  BY <1>2, <1>3 DEF NewChat

LEMMA SendBreaksRest == ASSUME Rest, NEW r \in Requests, SendBreaks(r) PROVE Rest'
<1>1. pc[r] \in Before /\ UNCHANGED <<tries, tasks, late, video>>
  BY DEF SendBreaks, Before
<1>2. CASE RetryOrFail(r)
  BY <1>1, <1>2, RetriesOrFails DEF Counts, Lists
<1>3. CASE Fail(r)
  BY <1>1, <1>3, Ends DEF Fail, Counts, Lists
<1>4. QED
  BY <1>2, <1>3 DEF SendBreaks

LEMMA SendAgainRest == ASSUME Rest, NEW r \in Requests, SendAgain(r) PROVE Rest'
BY MovesOn DEF SendAgain, Goto, Before, upstreamVars, Counts, Lists, Labels

LEMMA AnsweredRest == ASSUME Rest, NEW r \in Requests, Answered(r) PROVE Rest'
<1>1. /\ pc[r] \in Before
      /\ Counts(r)
      /\ UNCHANGED <<late, video>>
  BY DEF Answered, Before, Counted, Counts
<1>2. PICK a \in Answers :
        /\ tasks' = [tasks EXCEPT ![r] = a.tasks]
        /\ \/ RetryOrFail(r)
           \/ Return(r, "url")
           \/ Goto(r, "looking") /\ UNCHANGED reply
  BY DEF Answered
<1>3. Lists(r)
  BY <1>2 DEF Lists, Answers
<1>4. CASE RetryOrFail(r)
  BY <1>1, <1>3, <1>4, RetriesOrFails
<1>5. CASE Return(r, "url")
  BY <1>1, <1>3, <1>5, Ends
<1>6. CASE Goto(r, "looking") /\ UNCHANGED reply
  BY <1>1, <1>3, <1>6, MovesOn DEF Goto, Before, Labels
<1>7. QED
  BY <1>2, <1>4, <1>5, <1>6

-----------------------------------------------------------------------------

\* A request that begins to poll has a list, and has left nothing of it behind.
LEMMA StartsToPoll ==
    ASSUME Rest, NEW r \in Requests, pc[r] \in {"looking", "listing"},
           pc' = [pc EXCEPT ![r] = "polling"],
           tries' = [tries EXCEPT ![r] = 0],
           tasks'[r] \in TaskLists,
           tasks' = tasks \/ tasks' = [tasks EXCEPT ![r] = tasks'[r]],
           UNCHANGED <<late, reply, video>>
    PROVE  Rest'
<1> USE DEF Rest
<1>1. Shapes'
  BY DEF Shapes, Labels, Before
<1>2. \A q \in Requests \ {r} : tries'[q] = tries[q] /\ tasks'[q] = tasks[q] /\ pc'[q] = pc[q]
  BY DEF Shapes, Labels, Before
<1>3. tries'[r] = 0 /\ pc'[r] = "polling" /\ Len(tasks'[r]) \in Nat
  BY DEF Shapes, TaskLists
<1>4. Polled'
  BY <1>2, <1>3 DEF Polled, LeftHaveFailed
<1>5. AnsweredLast' /\ GivesUpOnlyLate'
  BY <1>2 DEF AnsweredLast, GivesUpOnlyLate
<1>6. QED
  BY <1>1, <1>4, <1>5

LEMMA LookForAssetRest ==
    ASSUME Rest, NEW r \in Requests, LookForAsset(r) PROVE Rest'
<1> USE DEF LookForAsset, upstreamVars
<1>1. pc[r] = "looking" /\ UNCHANGED <<tasks, late, video>>
  OBVIOUS
<1>2. CASE Return(r, "url") /\ UNCHANGED tries
  BY <1>1, <1>2, Ends DEF Counts, Lists
<1>3. CASE Counted(r, tries[r] + 1) /\ UNCHANGED <<pc, reply>>
  <2>1. tries[r] + 1 \in Nat /\ pc' = [pc EXCEPT ![r] = "looking"]
    BY <1>1, <1>3 DEF Rest, Shapes
  <2>2. QED
    BY <1>1, <1>3, <2>1, MovesOn DEF Counted, Before, Counts, Lists, Labels
<1>4. CASE Counted(r, 0) /\ Goto(r, AfterLooking(r)) /\ UNCHANGED reply
  <2>1. CASE AfterLooking(r) = "polling"
    <3>1. tasks[r] \in TaskLists
      BY <2>1 DEF AfterLooking, Rest, Shapes
    <3>2. QED
      BY <1>1, <1>4, <2>1, <3>1, StartsToPoll DEF Goto, Counted
  <2>2. CASE AfterLooking(r) \in {"listing", "giving up"}
    BY <1>1, <1>4, <2>2, MovesOn DEF Goto, Counted, Before, Counts, Lists, Labels
  <2>3. QED
    BY <2>1, <2>2 DEF AfterLooking
<1>5. QED
  BY <1>2, <1>3, <1>4

LEMMA LookForTasksRest ==
    ASSUME Rest, NEW r \in Requests, LookForTasks(r) PROVE Rest'
<1>1. pc[r] = "listing" /\ UNCHANGED <<late, reply, video>>
  BY DEF LookForTasks, upstreamVars
<1>2. CASE /\ \E found \in TaskLists : tasks' = [tasks EXCEPT ![r] = found]
           /\ Counted(r, 0)
           /\ Goto(r, "polling")
  <2>1. tasks'[r] \in TaskLists /\ tasks' = [tasks EXCEPT ![r] = tasks'[r]]
    BY <1>2 DEF Rest, Shapes
  <2>2. QED
    BY <1>1, <1>2, <2>1, StartsToPoll DEF Goto, Counted
<1>3. CASE Counted(r, tries[r] + 1) /\ UNCHANGED <<pc, tasks>>
  <2>1. tries[r] + 1 \in Nat /\ pc' = [pc EXCEPT ![r] = "listing"]
    BY <1>1, <1>3 DEF Rest, Shapes
  <2>2. QED
    BY <1>1, <1>3, <2>1, MovesOn DEF Counted, Before, Counts, Lists, Labels
<1>4. CASE Goto(r, "giving up") /\ UNCHANGED <<tries, tasks>>
  BY <1>1, <1>4, MovesOn DEF Goto, Before, Counts, Lists, Labels
<1>5. QED
  BY <1>2, <1>3, <1>4 DEF LookForTasks

LEMMA NextTaskRest == ASSUME Rest, NEW r \in Requests, NextTask(r) PROVE Rest'
<1> USE DEF Rest
<1>1. /\ pc[r] = "polling" /\ tries[r] < Len(tasks[r])
      /\ tasks[r][tries[r] + 1] = "task" /\ video[r] = "failed"
      /\ tries' = [tries EXCEPT ![r] = tries[r] + 1]
      /\ UNCHANGED <<pc, tasks, late, reply, video>>
  BY DEF NextTask, Polls, Counted, NextCandidate, upstreamVars
<1>2. /\ tasks[r] \in TaskLists /\ tries[r] \in 0..Len(tasks[r]) /\ LeftHaveFailed(r)
      /\ Len(tasks[r]) \in Nat
  BY <1>1 DEF Polled, TaskLists
<1>3. Shapes'
  BY <1>1, <1>2 DEF Shapes
<1>8. AnsweredLast' /\ GivesUpOnlyLate'
  BY <1>1 DEF AnsweredLast, GivesUpOnlyLate
<1>4. tries'[r] = tries[r] + 1 /\ \A q \in Requests \ {r} : tries'[q] = tries[q]
  BY <1>1 DEF Shapes, Labels, Before
<1>5. LeftHaveFailed(r)'
  BY <1>1, <1>2, <1>4 DEF LeftHaveFailed
<1>6. Polled'
  BY <1>1, <1>2, <1>4, <1>5 DEF Polled, LeftHaveFailed
<1>7. QED
  BY <1>3, <1>6, <1>8

LEMMA TimedOutRest == ASSUME Rest, NEW r \in Requests, TimedOut(r) PROVE Rest'
<1> USE DEF Rest
<1>1. /\ pc[r] = "polling"
      /\ late[r] \/ tries[r] = Len(tasks[r])
      /\ pc' = [pc EXCEPT ![r] = "done"] /\ reply' = [reply EXCEPT ![r] = "timeout"]
      /\ UNCHANGED <<tries, tasks, late, video>>
  BY DEF TimedOut, Return, Goto, upstreamVars
<1>2. Shapes'
  BY <1>1 DEF Shapes, Labels, Before
<1>3. /\ pc'[r] = "done"
      /\ \A q \in Requests \ {r} : pc'[q] = pc[q] /\ reply'[q] = reply[q]
  BY <1>1 DEF Shapes
<1>4. Polled'
  BY <1>1, <1>3 DEF Polled, LeftHaveFailed
<1>5. AnsweredLast'
  BY <1>3 DEF AnsweredLast
<1>6. late[r] \/ (ToSet(tasks[r]) = {"task"} /\ video[r] = "failed")
  <2>1. SUFFICES ASSUME tries[r] = Len(tasks[r])
                 PROVE  ToSet(tasks[r]) = {"task"} /\ video[r] = "failed"
    BY <1>1
  <2>2. /\ Len(tasks[r]) \in {1, 2}
        /\ DOMAIN tasks[r] = 1..Len(tasks[r])
        /\ \A i \in 1..Len(tasks[r]) : tasks[r][i] = "task" /\ video[r] = "failed"
    BY <1>1, <2>1 DEF Polled, LeftHaveFailed, TaskLists
  <2>3. QED
    BY <2>2 DEF ToSet
<1>7. GivesUpOnlyLate'
  BY <1>1, <1>3, <1>6 DEF GivesUpOnlyLate
<1>8. QED
  BY <1>2, <1>4, <1>5, <1>7

\* The end of the video: only tasks that ran may still change.
LEMMA VideoEndsRest == ASSUME Rest, NEW r \in Requests, VideoEnds(r) PROVE Rest'
<1> USE DEF Rest
<1>1. /\ pc[r] # "done" /\ video[r] = "running"
      /\ \E s \in {"finished", "failed"} : video' = [video EXCEPT ![r] = s]
      /\ UNCHANGED <<pc, tries, tasks, late, reply>>
  BY DEF VideoEnds
<1>2. Shapes' /\ AnsweredLast'
  BY <1>1 DEF Shapes, AnsweredLast
<1>3. \A q \in Requests : video[q] = "failed" => video'[q] = "failed"
  BY <1>1 DEF Shapes
<1>4. Polled'
  BY <1>1, <1>3 DEF Polled, LeftHaveFailed
<1>5. GivesUpOnlyLate'
  BY <1>1, <1>3 DEF GivesUpOnlyLate
<1>6. QED
  BY <1>2, <1>4, <1>5

LEMMA TwoMinutesRest == ASSUME Rest, NEW r \in Requests, TwoMinutesPass(r) PROVE Rest'
<1> USE DEF Rest
<1>1. late' = [late EXCEPT ![r] = TRUE] /\ UNCHANGED <<pc, tries, tasks, reply, video>>
  BY DEF TwoMinutesPass, upstreamVars
<1>2. Shapes' /\ AnsweredLast' /\ Polled'
  BY <1>1 DEF Shapes, AnsweredLast, Polled, LeftHaveFailed
<1>3. \A q \in Requests : late[q] => late'[q]
  BY <1>1 DEF Shapes
<1>4. GivesUpOnlyLate'
  BY <1>1, <1>3 DEF GivesUpOnlyLate
<1>5. QED
  BY <1>2, <1>4

\* The steps that only end a request, and those of an upload.
LEMMA LastRest ==
    ASSUME Rest, NEW r \in Requests,
           GiveUp(r) \/ ClientLeaves(r) \/ Finished(r) \/ Upload(r)
    PROVE  Rest'
<1>1. CASE GiveUp(r) \/ ClientLeaves(r)
  BY <1>1, Ends DEF GiveUp, ClientLeaves, Fail, Counts, Lists, upstreamVars
<1>2. CASE Finished(r)
  BY <1>2, Ends DEF Finished, Counts, Lists, upstreamVars
<1>3. CASE Upload(r)
  <2>1. pc[r] = "uploading" /\ UNCHANGED <<tasks, late, video>>
    BY <1>3 DEF Upload, upstreamVars
  <2>2. CASE tries[r] > 0 /\ Counted(r, tries[r] - 1) /\ UNCHANGED <<pc, reply>>
    <3>1. tries[r] - 1 \in Nat /\ pc' = [pc EXCEPT ![r] = "uploading"]
      BY <2>1, <2>2 DEF Rest, Shapes
    <3>2. QED
      BY <2>1, <2>2, <3>1, MovesOn DEF Counted, Counts, Lists, Before, Labels
  <2>3. CASE (Return(r, "error") \/ Return(r, "url")) /\ UNCHANGED tries
    BY <2>1, <2>3, Ends DEF Counts, Lists
  <2>4. QED
    BY <1>3, <2>2, <2>3 DEF Upload
<1>4. QED
  BY <1>1, <1>2, <1>3

\* A step of the pool is none of a request.
LEMMA UnchangedRest ==
    ASSUME Rest, UNCHANGED <<pc, tries, tasks, late, reply, video>> PROVE Rest'
BY DEF Rest, Shapes, Polled, LeftHaveFailed, AnsweredLast, GivesUpOnlyLate

LEMMA RestKept == ASSUME Rest, [Next]_vars PROVE Rest'
<1>1. ASSUME NEW r \in Requests, Step(r) PROVE Rest'
  <2>1. CASE Begin(r) \/ Resolved(r) \/ Choose(r) \/ NewChat(r)
    BY <2>1, BeginRest, ChooseRest, NewChatRest
  <2>2. CASE SendBreaks(r) \/ SendAgain(r) \/ Answered(r)
    BY <2>2, SendBreaksRest, SendAgainRest, AnsweredRest
  <2>3. CASE LookForAsset(r) \/ LookForTasks(r) \/ GiveUp(r)
    BY <2>3, LookForAssetRest, LookForTasksRest, LastRest
  <2>4. CASE Finished(r) \/ NextTask(r) \/ TimedOut(r) \/ Upload(r)
    BY <2>4, LastRest, NextTaskRest, TimedOutRest
  <2>5. QED
    BY <1>1, <2>1, <2>2, <2>3, <2>4 DEF Step
<1>2. ASSUME NEW r \in Requests, ClientLeaves(r) \/ TwoMinutesPass(r) \/ VideoEnds(r)
      PROVE  Rest'
  BY <1>2, LastRest, TwoMinutesRest, VideoEndsRest
<1>3. CASE PoolChanges \/ UNCHANGED vars
  BY <1>3, UnchangedRest DEF PoolChanges, vars, upstreamVars
<1>4. QED
  BY <1>1, <1>2, <1>3 DEF Next

-----------------------------------------------------------------------------
(* What is paid *)

\* Only one request moves, and its bill is right again.
LEMMA OneBill ==
    ASSUME Rest, Bill, NEW r \in Requests, Holds(r), Goes(r),
           made' = made \/ (\E n \in 0..3 : made' = [made EXCEPT ![r] = n]),
           resent' = resent \/ (\E b \in BOOLEAN : resent' = [resent EXCEPT ![r] = b]),
           Billed(r)'
    PROVE  Bill'
<1>1. held' = [q \in Requests |-> held'[q]]
  BY DEF Bill, Holds
<1>2. made' \in [Requests -> 0..3] /\ resent' \in [Requests -> BOOLEAN]
  BY DEF Bill
<1>3. ASSUME NEW q \in Requests \ {r}
      PROVE  /\ pc'[q] = pc[q] /\ held'[q] = held[q]
             /\ made'[q] = made[q] /\ resent'[q] = resent[q]
  BY DEF Bill, Rest, Shapes, Holds, Goes
<1>4. ASSUME NEW q \in Requests PROVE Billed(q)'
  <2>1. CASE q = r
    BY <2>1
  <2>2. CASE q # r
    <3>1. /\ Billed(q)
          /\ pc'[q] = pc[q] /\ held'[q] = held[q] /\ made'[q] = made[q] /\ resent'[q] = resent[q]
      BY <1>3, <2>2 DEF Bill
    <3>2. QED
      BY <3>1, Zenon DEF Billed
  <2>3. QED
    BY <2>1, <2>2
<1>5. QED
  BY <1>1, <1>2, <1>4 DEF Bill

\* Whoever pays nothing and does not come back to the message has the bill it had.
LEMMA NothingBilled ==
    ASSUME Rest, Bill, NEW r \in Requests, Holds(r), Goes(r), UNCHANGED <<made, resent>>,
           pc'[r] \in Before => pc'[r] # "resending" /\ pc[r] \in Before \ {"resending"}
    PROVE  Bill'
<1>1. made' = made /\ resent' = resent /\ Billed(r)
  BY DEF Bill
<1>2. Billed(r)'
  <2>1. CASE pc'[r] \in Before
    BY <1>1, <2>1, Zenon DEF Billed
  <2>2. CASE pc'[r] \notin Before
    <3>1. pc'[r] \notin Before \ {"resending"} /\ pc'[r] # "resending"
      BY <2>2 DEF Before
    <3>2. QED
      BY <1>1, <3>1, Zenon DEF Billed
  <2>3. QED
    BY <2>1, <2>2
<1>3. QED
  BY <1>1, <1>2, OneBill

\* What the pool does for r concerns the account of r alone.
LEMMA PoolHolds ==
    ASSUME NEW r \in Requests,
           \/ Pool!TakeAny(r) \/ Pool!Release(r)
           \/ Pool!RecordFailure(r) \/ Pool!ResetFailure(r)
           \/ UNCHANGED poolVars
    PROVE  Holds(r)
BY DEF Holds, poolVars, Pool!TakeAny, Pool!TakeExcluding, Pool!Take, Pool!Release,
       Pool!RecordFailure, Pool!ResetFailure

\* A send that failed or was answered with an error: r is over, or a guest begins anew,
\* who has paid nothing.
LEMMA RetryBilled ==
    ASSUME Rest, Bill, NEW r \in Requests, pc[r] \in Before, RetryOrFail(r) \/ Fail(r),
           NEW n \in {0, 1}, Paid(r, n), resent' = resent
    PROVE  Bill'
<1>1. Holds(r) /\ Goes(r)
  BY PoolHolds DEF RetryOrFail, Fail, Return, Goto, Holds, Goes, Labels, Before
<1>2. /\ made[r] \in 0..3 /\ Billed(r) /\ resent[r] \in BOOLEAN
      /\ made[r] <= (IF resent[r] THEN 1 ELSE 0)
  BY DEF Bill, Billed
<1>3. made'[r] = (IF held[r] = Guest THEN made[r] ELSE made[r] + n)
  BY <1>2 DEF Paid, Bill
<1>4. made' = [made EXCEPT ![r] = made'[r]] /\ made'[r] \in 0..3
  BY <1>2, <1>3 DEF Paid, Bill
<1>5. Billed(r)'
  <2>1. CASE held[r] = Guest /\ Goto(r, "idle")
    BY <1>2, <1>3, <2>1 DEF Billed, Before, Goto, Rest, Shapes
  <2>2. CASE Fail(r)
    <3>1. pc'[r] = "done"
      BY <2>2 DEF Fail, Return, Goto, Rest, Shapes
    <3>2. QED
      BY <1>2, <1>3, <3>1 DEF Billed, Before
  <2>3. QED
    BY <2>1, <2>2 DEF RetryOrFail, MayRefresh
<1>6. QED
  BY <1>1, <1>4, <1>5, OneBill

LEMMA SendAgainBilled == ASSUME Rest, Bill, NEW r \in Requests, SendAgain(r) PROVE Bill'
<1>1. PICK n \in {0, 1} : Paid(r, n)
  BY DEF SendAgain
<1>2. /\ pc[r] = "sending" /\ pc' = [pc EXCEPT ![r] = "resending"]
      /\ held' = held
      /\ resent' = [resent EXCEPT ![r] = held[r] # Guest]
  BY DEF SendAgain, Goto, poolVars
<1>3. made[r] = 0
  BY <1>2 DEF Bill, Billed, Before
<1>4. /\ made'[r] = IF held[r] = Guest THEN 0 ELSE n
      /\ made' = [made EXCEPT ![r] = made'[r]]
  BY <1>1, <1>3 DEF Paid, Bill
<1>5. pc'[r] = "resending" /\ (resent'[r] <=> held[r] # Guest)
  BY <1>2 DEF Rest, Shapes, Bill
<1>6. Billed(r)'
  <2>1. CASE held[r] = Guest
    BY <1>2, <1>4, <1>5, <2>1 DEF Billed, Before
  <2>2. CASE held[r] # Guest
    BY <1>2, <1>4, <1>5, <2>2 DEF Billed, Before
  <2>3. QED
    BY <2>1, <2>2
<1>7. Holds(r) /\ Goes(r)
  BY <1>2 DEF Holds, Goes, Labels, Before
<1>8. made'[r] \in 0..3 /\ (held[r] # Guest) \in BOOLEAN
  BY <1>4
<1>9. QED
  BY <1>2, <1>4, <1>6, <1>7, <1>8, OneBill

LEMMA AnsweredBilled == ASSUME Rest, Bill, NEW r \in Requests, Answered(r) PROVE Bill'
<1>1. PICK a \in Answers :
        /\ Paid(r, a.makes)
        /\ \/ RetryOrFail(r)
           \/ Pool!Release(r) /\ Return(r, "url")
           \/ Goto(r, "looking") /\ UNCHANGED poolVars
  BY DEF Answered
<1>2. pc[r] \in {"sending", "resending"} /\ resent' = resent /\ a.makes \in {0, 1}
  BY DEF Answered, Answers
<1>3. CASE RetryOrFail(r)
  BY <1>1, <1>2, <1>3, RetryBilled DEF Before
<1>4. CASE \/ Pool!Release(r) /\ Return(r, "url")
           \/ Goto(r, "looking") /\ UNCHANGED poolVars
  <2>1. Holds(r) /\ Goes(r) /\ pc'[r] \notin Before
    BY <1>4, PoolHolds DEF Return, Goto, Goes, Labels, Before, Rest, Shapes
  <2>2. /\ made[r] \in 0..3 /\ resent[r] \in BOOLEAN
        /\ made[r] <= (IF resent[r] THEN 1 ELSE 0)
    BY <1>2 DEF Bill, Billed, Before
  <2>3. made'[r] \in {made[r], made[r] + 1} /\ made' = [made EXCEPT ![r] = made'[r]]
    BY <1>1, <1>2, <2>2 DEF Paid, Bill
  <2>4. Billed(r)'
    BY <1>2, <2>1, <2>2, <2>3 DEF Billed, Before
  <2>5. made'[r] \in 0..3
    BY <2>2, <2>3
  <2>6. QED
    BY <1>2, <2>1, <2>3, <2>4, <2>5, OneBill
<1>5. QED
  BY <1>1, <1>3, <1>4

LEMMA StepBilled == ASSUME Rest, Bill, NEW r \in Requests, Step(r) PROVE Bill'
<1> USE DEF upstreamVars
<1>1. CASE Begin(r) \/ Resolved(r) \/ Choose(r)
  <2>1. pc[r] \in {"idle", "resolving", "choosing"} /\ UNCHANGED <<made, resent>>
    BY <1>1 DEF Begin, Resolved, Choose
  <2>2. Holds(r)
    BY <1>1, PoolHolds DEF Begin, Resolved, Choose
  <2>3. \E l \in {"resolving", "choosing", "creating", "uploading", "done"} : Goto(r, l)
    BY <1>1 DEF Begin, Resolved, Choose, Return
  <2>4. QED
    BY <2>1, <2>2, <2>3, NothingBilled DEF Goes, Goto, Labels, Before, Rest, Shapes
<1>2. CASE NewChat(r)
  <2>1. pc[r] = "creating" /\ UNCHANGED <<made, resent>>
    BY <1>2 DEF NewChat
  <2>2. Holds(r)
    BY <1>2, PoolHolds DEF NewChat, RetryOrFail, Fail, Holds
  <2>3. \E l \in {"sending", "idle", "done"} : Goto(r, l)
    BY <1>2 DEF NewChat, RetryOrFail, Fail, Return
  <2>4. QED
    BY <2>1, <2>2, <2>3, NothingBilled DEF Goes, Goto, Labels, Before, Rest, Shapes
<1>3. CASE SendBreaks(r)
  BY <1>3, RetryBilled DEF SendBreaks, Before
<1>4. CASE SendAgain(r) \/ Answered(r)
  BY <1>4, SendAgainBilled, AnsweredBilled
<1>5. CASE \/ LookForAsset(r) \/ LookForTasks(r) \/ GiveUp(r) \/ Finished(r)
           \/ NextTask(r) \/ TimedOut(r) \/ Upload(r)
  <2>1. /\ pc[r] \in {"looking", "listing", "giving up", "polling", "uploading"}
        /\ UNCHANGED <<made, resent>>
    BY <1>5 DEF LookForAsset, LookForTasks, GiveUp, Finished, NextTask, TimedOut, Upload,
       Polls
  <2>2. Holds(r)
    BY <1>5, PoolHolds DEF LookForAsset, LookForTasks, GiveUp, Finished, NextTask,
       TimedOut, Upload, Fail
  <2>3. pc' = pc \/ \E l \in {"listing", "polling", "giving up", "done"} : Goto(r, l)
    BY <1>5 DEF LookForAsset, LookForTasks, GiveUp, Finished, NextTask, TimedOut, Upload,
       Fail, Return, AfterLooking
  <2>4. QED
    BY <2>1, <2>2, <2>3, NothingBilled DEF Goes, Goto, Labels, Before, Rest, Shapes
<1>6. QED
  BY <1>1, <1>2, <1>3, <1>4, <1>5 DEF Step

LEMMA BillKept == ASSUME Rest, Bill, [Next]_vars PROVE Bill'
<1>1. ASSUME NEW r \in Requests, Step(r) PROVE Bill'
  BY <1>1, StepBilled
<1>2. ASSUME NEW r \in Requests, ClientLeaves(r) PROVE Bill'
  <2>1. pc[r] = "polling" /\ Goto(r, "done") /\ Holds(r) /\ UNCHANGED <<made, resent>>
    BY <1>2, PoolHolds DEF ClientLeaves, Fail, Return, upstreamVars
  <2>2. QED
    BY <2>1, NothingBilled DEF Goes, Goto, Labels, Before, Rest, Shapes
<1>3. ASSUME UNCHANGED <<pc, held, made, resent>> PROVE Bill'
  BY <1>3 DEF Bill, Billed
<1>4. CASE \/ \E r \in Requests : TwoMinutesPass(r) \/ VideoEnds(r)
           \/ PoolChanges \/ UNCHANGED vars
  BY <1>3, <1>4 DEF TwoMinutesPass, VideoEnds, PoolChanges, Pool!Change, vars, poolVars,
     upstreamVars
<1>5. QED
  BY <1>1, <1>2, <1>4 DEF Next

-----------------------------------------------------------------------------
(* Theorems *)

\* The inductive invariant of a media request.
THEOREM Invariance == Spec => []IInv
<1>1. IInv /\ [Next]_vars => IInv'
  BY RestKept, BillKept DEF IInv
<1>2. QED
  BY InitInv, <1>1, PTL DEF Spec

(* However calls fail, real accounts pay for one asset per request, and for a second   *)
(* one only where generateAssetWithSession sent a message again after an answer that   *)
(* was a retryable error.                                                              *)
THEOREM PaysTwiceOnlyIfResentHolds == Spec => []PaysTwiceOnlyIfResent
<1>1. IInv => PaysTwiceOnlyIfResent
  BY DEF IInv, Bill, Billed, PaysTwiceOnlyIfResent
<1>2. QED
  BY Invariance, <1>1, PTL

(* pollVideo gives up after two minutes, or when every candidate has failed.           *)
THEOREM GivesUpOnlyLateHolds == Spec => []GivesUpOnlyLate
<1>1. IInv => GivesUpOnlyLate
  BY DEF IInv, Rest
<1>2. QED
  BY Invariance, <1>1, PTL
=============================================================================
