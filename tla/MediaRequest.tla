---------------------------- MODULE MediaRequest ----------------------------
(***************************************************************************)
(* Requests for an image or a video, and uploads (internal/openai:         *)
(* generateAssetWithSession of handler.go, assets.go, upload.go).          *)
(*                                                                         *)
(* Unlike a chat request (ChatExecution), such a request takes one account *)
(* and tells the pool nothing of what became of it; only a guest tries a   *)
(* second time, with new cookies, a new chat and whatever account the pool *)
(* then has.  The answer, the chat and, for a video, the state of a task   *)
(* are asked one after the other for the asset.  Uploads tell the pool     *)
(* about their account, once.                                              *)
(*                                                                         *)
(* Every call that takes the pool's lock or goes upstream is a step.  The  *)
(* upstream service may fail any call, or answer it with an error, also    *)
(* when it has acted upon it.  A request is an HTTP request: it is         *)
(* served once.  Inline media do not occur: of the messages of an image    *)
(* edit normalizeMessages leaves none.                                     *)
(***************************************************************************)
EXTENDS Naturals, SequencesExt

CONSTANTS
    Emails, Guest, None, Requests,  \* as in Rotation
    Uploads,    \* the requests that are uploads
    Files,      \* bound: the files of an upload
    Looks       \* bound: how often the chat is asked for an asset; five times

ASSUME UploadsAssumption == Uploads \subseteq Requests
ASSUME FilesAssumption == Files \in Nat \ {0}
ASSUME LooksAssumption == Looks \in Nat \ {0}

VARIABLES
    ready, pool, cooling, held,   \* see Rotation
    pc,         \* where each request is
    kind,       \* what each request is for: "image", "video" or "upload"
    refreshed,  \* ~allowGuestRefresh
    tries,      \* the loop's counter; of an upload, the files that are left
    tasks,      \* taskCandidates: the request's task, or ids that are not a task's
    late,       \* pollVideo's deadline has passed
    reply,      \* what the client got
    made,       \* upstream: how many assets the real accounts have paid for r
    resent,     \* history: a real account's message was sent a second time
    video       \* upstream: how the task of r's video is

Pool == INSTANCE Rotation

poolVars == <<ready, pool, cooling, held>>
upstreamVars == <<made, resent, video>>
vars == <<poolVars, pc, kind, refreshed, tries, tasks, late, reply, upstreamVars>>

\* Lists of tasks an answer or a chat may yield, without duplicates.
TaskLists == {<<"task">>, <<"other">>, <<"task", "other">>, <<"other", "task">>}

(***************************************************************************)
(* parseAssetResult: an answer that was read to its end is an error or     *)
(* not, has a URL or not, and names tasks or not; generateAsset looks at   *)
(* them in this order, so that beside an error in any event of the body    *)
(* nothing else counts.  "busy" is a retryable error, of the quota or an   *)
(* internal one.  With or without an error the message may have been acted *)
(* upon.                                                                   *)
(***************************************************************************)
Answers ==
    [error : {"none"}, url : BOOLEAN, tasks : TaskLists \cup {<<>>}, makes : {0, 1}]
      \cup [error : {"busy", "refused"}, url : {FALSE}, tasks : {<<>>}, makes : {0, 1}]

Init ==
    /\ Pool!Init
    /\ pc = [r \in Requests |-> "idle"]
    /\ kind \in {k \in [Requests -> {"image", "video", "upload"}] :
                   \A r \in Requests : (k[r] = "upload") = (r \in Uploads)}
    /\ refreshed = [r \in Requests |-> FALSE]
    /\ tries = [r \in Requests |-> 0]
    /\ tasks = [r \in Requests |-> <<>>]
    /\ late = [r \in Requests |-> FALSE]
    /\ reply = [r \in Requests |-> "none"]
    /\ made = [r \in Requests |-> 0]
    /\ resent = [r \in Requests |-> FALSE]
    /\ video = [r \in Requests |-> "running"]

Goto(r, l) == pc' = [pc EXCEPT ![r] = l]

Counted(r, n) == tries' = [tries EXCEPT ![r] = n]

Return(r, answer) ==
    /\ Goto(r, "done")
    /\ reply' = [reply EXCEPT ![r] = answer]

-----------------------------------------------------------------------------
(* The account *)

\* HandleImagesGeneration, HandleImagesEdit and HandleVideos begin with ResolveModel,
\* which takes an account to list the models with, or does without; HandleUploads begins
\* with the files.
Begin(r) ==
    /\ pc[r] = "idle"
    /\ IF r \in Uploads
       THEN /\ \E n \in 1..Files : Counted(r, n)
            /\ Goto(r, "choosing")
            /\ UNCHANGED poolVars
       ELSE /\ Pool!TakeAny(r) \/ ((~ready \/ pool = {}) /\ UNCHANGED poolVars)
            /\ Goto(r, "resolving")
            /\ UNCHANGED tries
    /\ UNCHANGED <<kind, refreshed, tasks, late, reply, upstreamVars>>

Resolved(r) ==
    /\ pc[r] = "resolving"
    /\ Pool!Release(r) \/ (held[r] = None /\ UNCHANGED poolVars)
    /\ Goto(r, "choosing")
    /\ UNCHANGED <<kind, refreshed, tries, tasks, late, reply, upstreamVars>>

\* GetAccountSession: not while the pool is not initialized or has no account.
Choose(r) ==
    /\ pc[r] = "choosing"
    /\ \/ /\ Pool!TakeAny(r)
          /\ Goto(r, IF r \in Uploads THEN "uploading" ELSE "creating")
          /\ UNCHANGED reply
       \/ (~ready \/ pool = {}) /\ Return(r, "error") /\ UNCHANGED poolVars
    /\ UNCHANGED <<kind, refreshed, tries, tasks, late, upstreamVars>>

\* An error goes to the client; the pool does not hear of it.
Fail(r) == Pool!Release(r) /\ Return(r, "error") /\ UNCHANGED refreshed

\* mutant: every account gets the second attempt.
MayRefreshAll(r) == ~refreshed[r]

\* mutant: the second attempt allows another one.
MayRefreshAlways(r) == held[r] = Guest /\ Guest \in pool

MayRefresh(r) == held[r] = Guest /\ Guest \in pool /\ ~refreshed[r]

\* refreshGuestSession, and generateAssetWithSession once more, from its start; without
\* it, or when the refresh fails, the error goes to the client.
RetryOrFail(r) ==
    \/ /\ MayRefresh(r)
       /\ UNCHANGED <<ready, pool>>
       /\ cooling' = cooling \ {held[r]}
       /\ held' = [held EXCEPT ![r] = None]
       /\ refreshed' = [refreshed EXCEPT ![r] = TRUE]
       /\ Goto(r, "idle")
       /\ UNCHANGED reply
    \/ Fail(r)

-----------------------------------------------------------------------------
(* The chat *)

NewChat(r) ==
    /\ pc[r] = "creating"
    /\ \/ /\ Goto(r, "sending")
          /\ UNCHANGED <<poolVars, refreshed, reply>>
       \/ RetryOrFail(r)
    /\ UNCHANGED <<kind, tries, tasks, late, upstreamVars>>

\* Real accounts only; a guest has no quota.  More than three are not told apart.
Paid(r, n) ==
    made' = [made EXCEPT ![r] = IF held[r] = Guest \/ @ = 3 THEN @ ELSE @ + n]

\* The call fails, or the answer cannot be read to its end.
SendBreaks(r) ==
    /\ pc[r] \in {"sending", "resending"}
    /\ \E n \in {0, 1} : Paid(r, n)
    /\ IF pc[r] = "sending" THEN RetryOrFail(r) ELSE Fail(r)
    /\ UNCHANGED <<kind, tries, tasks, late, resent, video>>

\* The answer is a retryable error, whatever the upstream did before it said so: after
\* 800 ms the same message goes into the same chat again.
SendAgain(r) ==
    /\ pc[r] = "sending"
    /\ \E n \in {0, 1} : Paid(r, n)
    /\ resent' = [resent EXCEPT ![r] = held[r] # Guest]
    /\ Goto(r, "resending")
    /\ UNCHANGED <<poolVars, kind, refreshed, tries, tasks, late, reply, video>>

Answered(r) ==
    /\ pc[r] \in {"sending", "resending"}
    /\ \E a \in Answers :
          /\ a.error = "busy" => pc[r] = "resending"
          /\ a.tasks # <<>> => kind[r] = "video"
          /\ Paid(r, a.makes)
          /\ tasks' = [tasks EXCEPT ![r] = a.tasks]
          /\ \/ a.error # "none" /\ RetryOrFail(r)
             \/ /\ a.error = "none" /\ a.url
                /\ Pool!Release(r) /\ Return(r, "url")
                /\ UNCHANGED refreshed
             \/ /\ a.error = "none" /\ ~a.url
                /\ Goto(r, "looking")
                /\ UNCHANGED <<poolVars, refreshed, reply>>
    /\ Counted(r, 0)
    /\ UNCHANGED <<kind, late, resent, video>>

-----------------------------------------------------------------------------
(* The asset that is not in the answer *)

\* What follows when the chat shows no URL.
AfterLooking(r) ==
    IF kind[r] = "video" THEN IF tasks[r] = <<>> THEN "listing" ELSE "polling"
    ELSE "giving up"

\* resolveAssetFromChatDetail; the loop also ends when the client is gone.
LookForAsset(r) ==
    /\ pc[r] = "looking"
    /\ \/ Pool!Release(r) /\ Return(r, "url") /\ UNCHANGED tries
       \/ /\ tries[r] + 1 < Looks
          /\ Counted(r, tries[r] + 1)
          /\ UNCHANGED <<poolVars, pc, reply>>
       \/ Counted(r, 0) /\ Goto(r, AfterLooking(r)) /\ UNCHANGED <<poolVars, reply>>
    /\ UNCHANGED <<kind, refreshed, tasks, late, upstreamVars>>

\* resolveVideoTasksFromChatDetail: the messages of a chat are in no order.
LookForTasks(r) ==
    /\ pc[r] = "listing"
    /\ \/ /\ \E found \in TaskLists : tasks' = [tasks EXCEPT ![r] = found]
          /\ Counted(r, 0)
          /\ Goto(r, "polling")
       \/ /\ tries[r] + 1 < Looks
          /\ Counted(r, tries[r] + 1)
          /\ UNCHANGED <<pc, tasks>>
       \/ Goto(r, "giving up") /\ UNCHANGED <<tries, tasks>>
    /\ UNCHANGED <<poolVars, kind, refreshed, late, reply, upstreamVars>>

GiveUp(r) ==
    /\ pc[r] = "giving up"
    /\ Fail(r)
    /\ UNCHANGED <<kind, tries, tasks, late, upstreamVars>>

\* pollVideo.  A call that fails, a task that runs and an id that is not a task's are
\* all asked again in five seconds, until two minutes after the first of them.
Polls(r) ==
    /\ pc[r] = "polling" /\ ~late[r]
    /\ tries[r] < Len(tasks[r])
    /\ tasks[r][tries[r] + 1] = "task"

Finished(r) ==
    /\ Polls(r) /\ video[r] = "finished"
    /\ Pool!Release(r) /\ Return(r, "url")
    /\ UNCHANGED <<kind, refreshed, tries, tasks, late, upstreamVars>>

\* mutant: a failed task ends both loops.
NoCandidate(r) == Len(tasks[r])

NextCandidate(r) == tries[r] + 1

NextTask(r) ==
    /\ Polls(r) /\ video[r] = "failed"
    /\ Counted(r, NextCandidate(r))
    /\ UNCHANGED <<poolVars, pc, kind, refreshed, tasks, late, reply, upstreamVars>>

TimedOut(r) ==
    /\ pc[r] = "polling"
    /\ late[r] \/ tries[r] = Len(tasks[r])
    /\ Pool!Release(r) /\ Return(r, "timeout")
    /\ UNCHANGED <<kind, refreshed, tries, tasks, late, upstreamVars>>

ClientLeaves(r) ==
    /\ pc[r] = "polling"
    /\ Fail(r)
    /\ UNCHANGED <<kind, tries, tasks, late, upstreamVars>>

-----------------------------------------------------------------------------
(* Uploads *)

\* HandleUploads: one file after the other, until all are there or one fails, be it
\* because it is empty.
Upload(r) ==
    /\ pc[r] = "uploading"
    /\ \/ /\ tries[r] > 0
          /\ Counted(r, tries[r] - 1)
          /\ UNCHANGED <<poolVars, pc, reply>>
       \/ tries[r] > 0 /\ Pool!RecordFailure(r) /\ Return(r, "error") /\ UNCHANGED tries
       \/ tries[r] = 0 /\ Pool!ResetFailure(r) /\ Return(r, "url") /\ UNCHANGED tries
    /\ UNCHANGED <<kind, refreshed, tasks, late, upstreamVars>>

-----------------------------------------------------------------------------
(* What goes on around the requests *)

PoolChanges ==
    /\ Pool!Change
    /\ UNCHANGED <<pc, kind, refreshed, tries, tasks, late, reply, upstreamVars>>

TwoMinutesPass(r) ==
    /\ pc[r] = "polling"
    /\ ~late[r]
    /\ late' = [late EXCEPT ![r] = TRUE]
    /\ UNCHANGED <<poolVars, pc, kind, refreshed, tries, tasks, reply, upstreamVars>>

VideoEnds(r) ==
    /\ pc[r] \in {"looking", "listing", "polling"} /\ kind[r] = "video"
    /\ video[r] = "running"
    /\ \E s \in {"finished", "failed"} : video' = [video EXCEPT ![r] = s]
    /\ UNCHANGED <<poolVars, pc, kind, refreshed, tries, tasks, late, reply, made, resent>>

Step(r) ==
    \/ Begin(r) \/ Resolved(r) \/ Choose(r) \/ NewChat(r) \/ SendBreaks(r) \/ SendAgain(r)
    \/ Answered(r) \/ LookForAsset(r) \/ LookForTasks(r) \/ GiveUp(r)
    \/ Finished(r) \/ NextTask(r) \/ TimedOut(r) \/ Upload(r)

Next ==
    \/ \E r \in Requests : Step(r) \/ ClientLeaves(r) \/ TwoMinutesPass(r) \/ VideoEnds(r)
    \/ PoolChanges

\* Every call returns, and time passes.
Fairness ==
    \A r \in Requests : WF_vars(Step(r)) /\ WF_vars(TwoMinutesPass(r))

Spec == Init /\ [][Next]_vars /\ Fairness

-----------------------------------------------------------------------------
(* Properties *)

(* However calls fail, and whether the upstream service acted or not on a call that it *)
(* failed or answered with an error, real accounts pay for one asset per request, and  *)
(* for a second one only where the error was a retryable one: what broke is not sent   *)
(* again, what was sent again is not sent a third time, and only guests begin anew.    *)
PaysTwiceOnlyIfResent == \A r \in Requests : made[r] <= IF resent[r] THEN 2 ELSE 1

(* A client that is told that the video took too long was either waited for two        *)
(* minutes, or every id its answer or chat named was that of a task that has failed.   *)
GivesUpOnlyLate ==
    \A r \in Requests :
        reply[r] = "timeout" =>
            \/ late[r]
            \/ ToSet(tasks[r]) = {"task"} /\ video[r] = "failed"

(* Every request and every upload comes to an end, also those of guests whose cookies  *)
(* are refused again and again, and those of videos that are never finished.           *)
RequestsReturn == \A r \in Requests : <>(pc[r] = "done")

=============================================================================
