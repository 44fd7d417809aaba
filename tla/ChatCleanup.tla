---------------------------- MODULE ChatCleanup ----------------------------
(***************************************************************************)
(* The cleaner of internal/cleanup/service.go over the chat tracker of     *)
(* internal/storage/chat_tracker.go: a goroutine that every hour deletes   *)
(* upstream chats, while requests use them, the administrator switches the *)
(* mode, accounts come and go, and the account's owner chats in a browser. *)
(*                                                                         *)
(* Every call to the tracker, the pool and the upstream service is a step. *)
(*                                                                         *)
(* Abstractions.  Times are compared with one cutoff only, 24 hours ago:   *)
(* "old" holds the chats last updated before it, "usageOld" the records of *)
(* the tracker.  No answer is streamed for a day.  The upstream service    *)
(* lists the chats of an account in a fixed order.                         *)
(*                                                                         *)
(* The specification's own names begin with Cleanup, so that one module of *)
(* proofs can extend it beside the data file's.                            *)
(***************************************************************************)
EXTENDS Naturals, FiniteSets, SequencesExt

CONSTANTS
    Chats,      \* bound: the chats there will ever be
    Order,      \* the order in which the upstream service lists them
    RealAccounts,   \* the accounts that can sign in
    Guest,      \* the anonymous account
    Owner,      \* Owner[c]: the account of chat c
    None,       \* no account
    Modes,      \* the values of CHAT_CLEANUP_MODE considered
    Redis,      \* the kinds of tracker considered: in Redis, or in memory
    PageSize    \* chats on one page of ListChats

ASSUME CleanupAssumption ==
    /\ Order \in Seq(Chats) /\ ToSet(Order) = Chats /\ IsInjective(Order)
    /\ Guest \notin RealAccounts /\ None \notin RealAccounts
    /\ Owner \in [Chats -> RealAccounts \cup {Guest}]
    /\ Modes \subseteq 0..2
    /\ Redis \subseteq BOOLEAN
    /\ PageSize \in Nat \ {0}

VARIABLES
    redis,      \* the tracker is in Redis
    mode,       \* runtime.ChatCleanupMode
    accounts,   \* the real accounts of the pool
    created,    \* history: the chats created so far,
    program,    \* history: by this program
    exists,     \* upstream: the chats there are
    old,        \* upstream: those not updated for a day
    using,      \* the chats in which a request gets its answer
    tracked,    \* the records of the tracker
    usageOld,   \* those not renewed for a day
    stage,      \* where the cleaner is
    todo,       \* the chats of its list it has still to delete
    current,    \* the chat it has deleted, and will remove from the tracker
    rest,       \* mode 2: the accounts it has still to visit,
    account,    \* the one it visits,
    page        \* and the page it asks for

upstreamVars == <<created, program, exists, old>>
cleanerVars == <<stage, todo, rest, account, page>>
cleanupVars == <<redis, mode, accounts, upstreamVars, using, tracked, usageOld, cleanerVars,
          current>>

NoChat == <<>>

----------------------------------------------------------------------------
CleanupInit ==
    /\ redis \in Redis
    /\ mode \in Modes
    /\ accounts \in SUBSET RealAccounts
    /\ created = {}
    /\ program = {}
    /\ exists = {}
    /\ old = {}
    /\ using = {}
    /\ tracked = {}
    /\ usageOld = {}
    /\ stage = "idle"
    /\ todo = {}
    /\ current = NoChat
    /\ rest = {}
    /\ account = None
    /\ page = 1

----------------------------------------------------------------------------
(* The cleaner. *)

EntersStage(l) == stage' = l

\* runOnce and cleanupProgramChats: the list of the tracker, less the records
\* renewed within a day.  An error of the tracker ends the pass.
Fresh(S) == S \ usageOld
Expired(S) == S \cap usageOld

ListUsages ==
    /\ stage = "idle"
    /\ mode = 1
    /\ todo' = Expired(tracked)
    /\ EntersStage("program")
    /\ UNCHANGED <<redis, mode, accounts, upstreamVars, using, tracked, usageOld,
                   rest, account, page, current>>

\* DeleteChatUsage, of whatever the records of the chats say by now.  Redis may
\* fail: nobody looks at the error, and the record stays.
DeletesUsage(S) == tracked' = tracked \ S /\ usageOld' = usageOld \ S
UsageStays == redis /\ UNCHANGED <<tracked, usageOld>>

\* The records of a guest's chats are dropped, the chats cannot be deleted.
VisitsGuest(c) ==
    /\ stage = "program" /\ current = NoChat
    /\ c \in todo
    /\ Owner[c] = Guest
    /\ todo' = todo \ {c}
    /\ UNCHANGED <<redis, mode, accounts, upstreamVars, using, stage, rest, account,
                   page, current>>

DropGuest(c) == VisitsGuest(c) /\ DeletesUsage({c})
DropGuestFails(c) == VisitsGuest(c) /\ UsageStays

\* GetAccountSessionByEmail has no session: the account is gone, or cools down.
SkipChat(c) ==
    /\ stage = "program" /\ current = NoChat
    /\ c \in todo
    /\ Owner[c] # Guest
    /\ todo' = todo \ {c}
    /\ UNCHANGED <<redis, mode, accounts, upstreamVars, using, tracked, usageOld, stage,
                   rest, account, page, current>>

\* DeleteChat succeeds, for a chat that is there.  Or it returns an error: then
\* the chat may be gone by now, and it does so each time for one that was gone.
ReallyDeletes(c) == exists' = exists \ {c} /\ old' = old \ {c}

DeleteTracked(c) ==
    /\ stage = "program" /\ current = NoChat
    /\ c \in todo
    /\ Owner[c] \in accounts
    /\ c \in exists
    /\ ReallyDeletes(c)
    /\ current' = <<c>>
    /\ todo' = todo \ {c}
    /\ UNCHANGED <<redis, mode, accounts, created, program, using, tracked, usageOld,
                   stage, rest, account, page>>

\* What becomes of the record when the upstream service reports an error.
Untracked(c) == tracked \ {c}
StillTracked(c) == tracked

DeleteTrackedFails(c) ==
    /\ stage = "program" /\ current = NoChat
    /\ c \in todo
    /\ Owner[c] \in accounts
    /\ ReallyDeletes(c) \/ UNCHANGED <<exists, old>>
    /\ tracked' = StillTracked(c)
    /\ usageOld' = usageOld \cap tracked'
    /\ todo' = todo \ {c}
    /\ UNCHANGED <<redis, mode, accounts, created, program, using, stage, rest, account,
                   page, current>>

DeleteChatUsage ==
    /\ stage = "program" /\ current # NoChat
    /\ DeletesUsage(ToSet(current)) \/ UsageStays
    /\ current' = NoChat
    /\ UNCHANGED <<redis, mode, accounts, upstreamVars, using, cleanerVars>>

\* cleanupAllChats: a copy of the pool.
ListAccounts ==
    /\ stage = "idle"
    /\ mode = 2
    /\ rest' = accounts
    /\ EntersStage("accounts")
    /\ UNCHANGED <<redis, mode, accounts, upstreamVars, using, tracked, usageOld,
                   todo, account, page, current>>

\* cleanupAccountAllChats starts with page 1.
SamePage == page
PageZero == 0
FirstPage == 1

NextAccount(a) ==
    /\ stage = "accounts"
    /\ a \in rest
    /\ rest' = rest \ {a}
    /\ account' = a
    /\ page' = FirstPage
    /\ EntersStage("listing")
    /\ UNCHANGED <<redis, mode, accounts, upstreamVars, using, tracked, usageOld,
                   todo, current>>

\* What is on page n when it is asked for.
Listed == {i \in DOMAIN Order : Order[i] \in exists /\ Owner[Order[i]] = account}
Rank(i) == Cardinality({j \in Listed : j <= i})
Page(n) == {Order[i] : i \in {j \in Listed :
                (n - 1) * PageSize < Rank(j) /\ Rank(j) <= n * PageSize}}

ListChats(n) ==
    /\ stage = "listing"
    /\ page = n
    /\ Page(n) # {}
    /\ todo' = Page(n) \cap old
    /\ EntersStage("deleting")
    /\ UNCHANGED <<redis, mode, accounts, upstreamVars, using, tracked, usageOld,
                   rest, account, page, current>>

\* An empty page, or an error, ends the visit.
LeaveAccount ==
    /\ stage = "listing"
    /\ account' = None
    /\ EntersStage("accounts")
    /\ UNCHANGED <<redis, mode, accounts, upstreamVars, using, tracked, usageOld,
                   todo, rest, page, current>>

DeleteListed(c) ==
    /\ stage = "deleting"
    /\ c \in todo \cap exists
    /\ ReallyDeletes(c)
    /\ todo' = todo \ {c}
    /\ UNCHANGED <<redis, mode, accounts, created, program, using, tracked, usageOld,
                   stage, rest, account, page, current>>

DeleteListedFails(c) ==
    /\ stage = "deleting"
    /\ c \in todo
    /\ ReallyDeletes(c) \/ UNCHANGED <<exists, old>>
    /\ todo' = todo \ {c}
    /\ UNCHANGED <<redis, mode, accounts, created, program, using, tracked, usageOld,
                   stage, rest, account, page, current>>

NextPage ==
    /\ stage = "deleting"
    /\ todo = {}
    /\ page' = page + 1
    /\ EntersStage("listing")
    /\ UNCHANGED <<redis, mode, accounts, upstreamVars, using, tracked, usageOld,
                   todo, rest, account, current>>

\* The pass is over; the goroutine waits for the next hour.
EndPass ==
    /\ \/ stage = "program" /\ todo = {} /\ current = NoChat
       \/ stage = "accounts" /\ rest = {}
    /\ EntersStage("idle")
    /\ UNCHANGED <<redis, mode, accounts, upstreamVars, using, tracked, usageOld,
                   todo, rest, account, page, current>>

----------------------------------------------------------------------------
(* Requests, administrator, upstream. *)

\* A request creates a chat, or is mapped to one; the answer begins.
OpenChat(c) ==
    /\ c \notin created
    /\ Owner[c] \in accounts \cup {Guest}
    /\ created' = created \cup {c}
    /\ program' = program \cup {c}
    /\ exists' = exists \cup {c}
    /\ using' = using \cup {c}
    /\ UNCHANGED <<redis, mode, accounts, old, tracked, usageOld, cleanerVars, current>>

ReuseChat(c) ==
    /\ c \in program \cap exists
    /\ c \notin using
    /\ using' = using \cup {c}
    /\ old' = old \ {c}
    /\ UNCHANGED <<redis, mode, accounts, created, program, exists, tracked, usageOld,
                   cleanerVars, current>>

RecordChatUsage(c) ==
    /\ c \in using
    /\ tracked' = tracked \cup {c}
    /\ usageOld' = usageOld \ {c}
    /\ UNCHANGED <<redis, mode, accounts, upstreamVars, using, cleanerVars, current>>

EndRequest(c) ==
    /\ c \in using
    /\ using' = using \ {c}
    /\ UNCHANGED <<redis, mode, accounts, upstreamVars, tracked, usageOld,
                   cleanerVars, current>>

\* The owner of the account opens a chat in a browser, or deletes one.
OpenInBrowser(c) ==
    /\ c \notin created
    /\ Owner[c] \in RealAccounts
    /\ created' = created \cup {c}
    /\ exists' = exists \cup {c}
    /\ UNCHANGED <<redis, mode, accounts, program, old, using, tracked, usageOld,
                   cleanerVars, current>>

DeleteInBrowser(c) ==
    /\ c \in exists
    /\ Owner[c] \in RealAccounts
    /\ ReallyDeletes(c)
    /\ UNCHANGED <<redis, mode, accounts, created, program, using, tracked, usageOld,
                   cleanerVars, current>>

\* A day has passed since the chat was updated, or since its record was.
ChatAges(c) ==
    /\ c \in exists \ (old \cup using)
    /\ old' = old \cup {c}
    /\ UNCHANGED <<redis, mode, accounts, created, program, exists, using, tracked,
                   usageOld, cleanerVars, current>>

UsageAges(c) ==
    /\ c \in tracked \ (usageOld \cup using)
    /\ usageOld' = usageOld \cup {c}
    /\ UNCHANGED <<redis, mode, accounts, upstreamVars, using, tracked, cleanerVars,
                   current>>

\* Redis drops a record after two days.
UsageExpires(c) ==
    /\ redis
    /\ c \in usageOld
    /\ tracked' = tracked \ {c}
    /\ usageOld' = usageOld \ {c}
    /\ UNCHANGED <<redis, mode, accounts, upstreamVars, using, cleanerVars, current>>

HandleSetChatCleanupMode(m) ==
    /\ m # mode
    /\ mode' = m
    /\ UNCHANGED <<redis, accounts, upstreamVars, using, tracked, usageOld,
                   cleanerVars, current>>

PoolChanges ==
    /\ accounts' \in SUBSET RealAccounts
    /\ UNCHANGED <<redis, mode, upstreamVars, using, tracked, usageOld, cleanerVars,
                   current>>

\* A crash; only Redis keeps the records of the tracker.
Restart ==
    /\ using' = {}
    /\ \/ redis /\ UNCHANGED <<tracked, usageOld>>
       \/ ~redis /\ tracked' = {} /\ usageOld' = {}
    /\ stage' = "idle"
    /\ todo' = {}
    /\ current' = NoChat
    /\ rest' = {}
    /\ account' = None
    /\ page' = 1
    /\ UNCHANGED <<redis, mode, accounts, upstreamVars>>

Clean ==
    \/ ListUsages
    \/ \E c \in Chats :
          \/ DropGuest(c)
          \/ DropGuestFails(c)
          \/ SkipChat(c)
          \/ DeleteTracked(c)
          \/ DeleteTrackedFails(c)
          \/ DeleteListed(c)
          \/ DeleteListedFails(c)
    \/ DeleteChatUsage
    \/ ListAccounts
    \/ \E a \in RealAccounts : NextAccount(a)
    \/ \E n \in 1..(Len(Order) + 1) : ListChats(n)
    \/ LeaveAccount
    \/ NextPage
    \/ EndPass

CleanupNext ==
    \/ Clean
    \/ \E c \in Chats :
          \/ OpenChat(c)
          \/ ReuseChat(c)
          \/ RecordChatUsage(c)
          \/ EndRequest(c)
          \/ OpenInBrowser(c)
          \/ DeleteInBrowser(c)
          \/ ChatAges(c)
          \/ UsageAges(c)
          \/ UsageExpires(c)
    \/ \E m \in Modes : HandleSetChatCleanupMode(m)
    \/ PoolChanges
    \/ Restart

\* The hourly pass runs on.  A call that is made again and again, for a chat that
\* is there, with an account that has a session, succeeds some time.
CleanupSpec ==
    /\ CleanupInit /\ [][CleanupNext]_cleanupVars
    /\ WF_cleanupVars(Clean)
    /\ \A c \in Chats : /\ SF_cleanupVars(DeleteTracked(c))
                         /\ SF_cleanupVars(DeleteListed(c))
    /\ \A n \in 1..(Len(Order) + 1) : SF_cleanupVars(ListChats(n))
----------------------------------------------------------------------------
(* Properties. *)

\* Every variable has its type.
CleanupTypeOK ==
    /\ redis \in Redis
    /\ mode \in Modes
    /\ accounts \in SUBSET RealAccounts
    /\ created \in SUBSET Chats
    /\ program \in SUBSET created
    /\ exists \in SUBSET created
    /\ old \in SUBSET exists
    /\ using \in SUBSET created
    /\ tracked \in SUBSET program
    /\ usageOld \in SUBSET tracked
    /\ stage \in {"idle", "program", "accounts", "listing", "deleting"}
    /\ todo \in SUBSET created
    /\ current \in {NoChat} \cup {<<c>> : c \in Chats}
    /\ rest \in SUBSET RealAccounts
    /\ account \in RealAccounts \cup {None}
    /\ page \in 1..(Len(Order) + 1)

\* The cleaner forgets a chat of a real account only when it is gone: an
\* error of the upstream service, a crash between the two deletions and a
\* request that records the chat meanwhile leave no chat behind untracked.
ForgetsOnlyGone ==
    [][Clean => \A c \in tracked \ tracked' :
            Owner[c] = Guest \/ c \notin exists']_cleanupVars

\* In mode 2, unless the process crashes for ever, every chat that is a day
\* old and stays so is deleted, although the pages shift under the cleaner as
\* it deletes, and it skips chats.
EventuallyCleaned ==
    \A c \in Chats :
        (<>[](mode = 2 /\ Owner[c] \in accounts) /\ <>[][~Restart]_cleanupVars)
            => []<>(c \notin old)

\* In mode 1, unless the process crashes for ever, a real account's chat whose
\* record is a day old and stays so is deleted, although a pass skips chats whose
\* account has no session and calls fail.  That its record goes too is not
\* promised: DeleteChat fails each time for a chat that somebody else deleted,
\* or that was deleted although an error was reported, and the record stays.
EventuallyDeleted ==
    \A c \in Chats :
        (<>[](mode = 1 /\ Owner[c] \in accounts) /\ <>[][~Restart]_cleanupVars)
            => []<>(c \notin usageOld \/ c \notin exists)
============================================================================
