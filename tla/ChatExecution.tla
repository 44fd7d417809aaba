--------------------------- MODULE ChatExecution ---------------------------
(***************************************************************************)
(* executeChatRequest of internal/openai/chat_execution.go: how a chat     *)
(* request finds an account and an upstream chat, fails over, and leaves   *)
(* the mapping by which the conversation's next request finds its chat.    *)
(*                                                                         *)
(* It composes the pool (Rotation) with the conversation mappings and the  *)
(* chat tracker, here atomic maps, and with the upstream service, which    *)
(* may answer or fail any call.  Every call that takes a lock or goes to   *)
(* the network is a step; any number of requests interleave.               *)
(*                                                                         *)
(* Abstractions.  A context hash, which covers model and chat type, is a   *)
(* value of Hashes, or NoHash for a conversation without a prefix.  Of a   *)
(* message list only "all of it" or "the tail" remains.  A mapping is lost *)
(* at any time: it expires, the admin page deletes it, or the store failed *)
(* to save it.                                                             *)
(***************************************************************************)
EXTENDS Naturals, FiniteSets

CONSTANTS
    Emails, Guest, None, Requests,  \* as in Rotation
    Hashes,     \* context hashes
    NoHash,     \* the empty context hash
    Chats,      \* bound: the chats the upstream service will create
    NoSession   \* no mapping

ASSUME EmailsAssumption == IsFiniteSet(Emails)
ASSUME NoneAssumption == /\ None \notin Emails \cup {Guest} \cup Chats
                         /\ NoHash \notin Hashes
                         /\ NoSession \notin [account : Emails \cup {Guest}, chat : Chats]

VARIABLES
    ready, pool, cooling, held,   \* see Rotation
    sessions,   \* the mapping of each context hash: account and chat
    tracked,    \* the tracker: <<account, chat>>
    owner,      \* upstream: whose chat it is, None before it is created
    answered,   \* upstream: the chats that hold an exchange
    pc,         \* where each request is
    hash,       \* prepared.ContextHash
    limit,      \* maxAttempts
    attempted,  \* the accounts not to choose again
    mapping,    \* the chat of the mapping in use, None in the loop
    account,    \* the e-mail of the mapping, then of executedChat
    chat,       \* chatID
    tail,       \* "incremental": only the latest messages are sent
    refreshed   \* ~allowGuestRefresh

Pool == INSTANCE Rotation

poolVars == <<ready, pool, cooling, held>>
dataVars == <<sessions, tracked, owner, answered>>
vars == <<poolVars, dataVars, pc, hash, limit, attempted, mapping, account,
          chat, tail, refreshed>>

Keys == Emails \cup {Guest}
Session == [account : Keys, chat : Chats]

----------------------------------------------------------------------------
\* The process starts; before Initialize is over the pool is empty.
Init ==
    /\ Pool!Init
    /\ sessions = [h \in Hashes |-> NoSession]
    /\ tracked = {}
    /\ owner = [c \in Chats |-> None]
    /\ answered = {}
    /\ pc = [r \in Requests |-> "idle"]
    /\ hash = [r \in Requests |-> NoHash]
    /\ limit = [r \in Requests |-> 1]
    /\ attempted = [r \in Requests |-> {}]
    /\ mapping = [r \in Requests |-> None]
    /\ account = [r \in Requests |-> None]
    /\ chat = [r \in Requests |-> None]
    /\ tail = [r \in Requests |-> FALSE]
    /\ refreshed = [r \in Requests |-> FALSE]

Goto(r, l) == pc' = [pc EXCEPT ![r] = l]

\* return: nothing of the request's locals is left.
Return(r) ==
    /\ Goto(r, "idle")
    /\ hash' = [hash EXCEPT ![r] = NoHash]
    /\ limit' = [limit EXCEPT ![r] = 1]
    /\ attempted' = [attempted EXCEPT ![r] = {}]
    /\ mapping' = [mapping EXCEPT ![r] = None]
    /\ account' = [account EXCEPT ![r] = None]
    /\ chat' = [chat EXCEPT ![r] = None]
    /\ tail' = [tail EXCEPT ![r] = FALSE]
    /\ refreshed' = [refreshed EXCEPT ![r] = FALSE]

----------------------------------------------------------------------------
(* Preparation. *)

\* prepareChatRequest: ResolveModel takes an account to list the models with,
\* or does without: GetAccountSession refuses while the pool is not initialized
\* or has no account.
Prepare(r, h) ==
    /\ pc[r] = "idle"
    /\ Pool!TakeAny(r) \/ ((~ready \/ pool = {}) /\ UNCHANGED poolVars)
    /\ hash' = [hash EXCEPT ![r] = h]
    /\ Goto(r, "resolving")
    /\ UNCHANGED <<dataVars, limit, attempted, mapping, account, chat, tail,
                   refreshed>>

\* maxAttempts is the size of the pool at this moment, or one.
Unfloored == Cardinality(pool)
MaxAttempts == IF pool = {} THEN 1 ELSE Cardinality(pool)

Resolved(r) ==
    /\ pc[r] = "resolving"
    /\ Pool!Release(r) \/ (held[r] = None /\ UNCHANGED poolVars)
    /\ limit' = [limit EXCEPT ![r] = MaxAttempts]
    /\ Goto(r, IF hash[r] = NoHash THEN "choosing" ELSE "looking")
    /\ UNCHANGED <<dataVars, hash, attempted, mapping, account, chat, tail,
                   refreshed>>

----------------------------------------------------------------------------
(* The mapped chat, and the loop over accounts. *)

\* sessions.Get.
LookUp(r) ==
    /\ pc[r] = "looking"
    /\ IF sessions[hash[r]] = NoSession
       THEN Goto(r, "choosing") /\ UNCHANGED <<mapping, account>>
       ELSE /\ mapping' = [mapping EXCEPT ![r] = sessions[hash[r]].chat]
            /\ account' = [account EXCEPT ![r] = sessions[hash[r]].account]
            /\ Goto(r, "mapped")
    /\ UNCHANGED <<poolVars, dataVars, hash, limit, attempted, chat, tail,
                   refreshed>>

\* GetAccountSessionByEmail for the mapping's account, and only it.
TakeMapped(r) ==
    /\ pc[r] = "mapped"
    /\ \/ /\ Pool!TakeAmong(r, {account[r]})
          /\ chat' = [chat EXCEPT ![r] = mapping[r]]
          /\ tail' = [tail EXCEPT ![r] = TRUE]
          /\ Goto(r, "sending")
          /\ UNCHANGED mapping
       \/ /\ ~ready \/ account[r] \notin pool \/ account[r] \in cooling
          /\ mapping' = [mapping EXCEPT ![r] = None]
          /\ Goto(r, "choosing")
          /\ UNCHANGED <<poolVars, chat, tail>>
    /\ account' = [account EXCEPT ![r] = None]
    /\ UNCHANGED <<dataVars, hash, limit, attempted, refreshed>>

\* The accounts a request has tried, once it has chosen k.
Forgetful(r, k) == attempted[r]
Tried(r, k) == attempted[r] \cup {k}

\* The loop's condition fails: no attempt is left.
ExhaustedEarly(r) == Cardinality(attempted[r]) + 1 >= limit[r]
Exhausted(r) == Cardinality(attempted[r]) >= limit[r]

\* One round of the loop: GetAccountSessionExcluding.
Choose(r) ==
    /\ pc[r] = "choosing"
    /\ ~Exhausted(r)
    /\ Pool!TakeExcluding(r, attempted[r])
    /\ attempted' = [attempted EXCEPT ![r] = Tried(r, held'[r])]
    /\ Goto(r, "creating")
    /\ UNCHANGED <<dataVars, hash, limit, mapping, account, chat, tail,
                   refreshed>>

\* The loop ends for want of attempts or of accounts, or because the pool is not
\* initialized: then GetAccountSessionExcluding refuses whoever is in it.
GiveUp(r) ==
    /\ pc[r] = "choosing"
    /\ \/ Exhausted(r)
       \/ ~ready
       \/ Pool!Rested(attempted[r]) = {}
    /\ Return(r)
    /\ UNCHANGED <<poolVars, dataVars>>

----------------------------------------------------------------------------
(* sendChatWithSessionAttempt. *)

NewChat(r) ==
    /\ pc[r] = "creating"
    /\ \E c \in Chats :
          /\ owner[c] = None
          /\ owner' = [owner EXCEPT ![c] = held[r]]
          /\ chat' = [chat EXCEPT ![r] = c]
    /\ Goto(r, "sending")
    /\ UNCHANGED <<poolVars, sessions, tracked, answered, hash, limit,
                   attempted, mapping, account, tail, refreshed>>

\* The stream begins well: ResetFailure.
Succeed(r) ==
    /\ pc[r] = "sending"
    /\ Pool!ResetFailure(r)
    /\ answered' = answered \cup {chat[r]}
    /\ account' = [account EXCEPT ![r] = held[r]]
    /\ Goto(r, IF hash[r] = NoHash THEN "serving" ELSE "saving")
    /\ UNCHANGED <<sessions, tracked, owner, hash, limit, attempted, mapping,
                   chat, tail, refreshed>>

\* What the second attempt of a guest sends: everything, into a new chat.
SameTail(r) == tail[r]
NotTail(r) == FALSE

\* A guest's call failed: refreshGuestSession, and one more attempt.
RefreshGuest(r) ==
    /\ pc[r] \in {"creating", "sending"}
    /\ held[r] = Guest
    /\ Guest \in pool
    /\ ~refreshed[r]
    /\ cooling' = cooling \ {Guest}
    /\ refreshed' = [refreshed EXCEPT ![r] = TRUE]
    /\ tail' = [tail EXCEPT ![r] = NotTail(r)]
    /\ chat' = [chat EXCEPT ![r] = None]
    /\ Goto(r, "creating")
    /\ UNCHANGED <<ready, pool, held, dataVars, hash, limit, attempted,
                   mapping, account>>

\* sessions.Delete: the hash and every alias of its chat.
OnlyHash(h) == [sessions EXCEPT ![h] = NoSession]
WithoutAliases(h) ==
    [g \in Hashes |->
        IF g = h \/ (sessions[h] # NoSession /\ sessions[g] = sessions[h])
        THEN NoSession ELSE sessions[g]]

\* What is left of the mapping for the next attempt: nothing, the loop starts
\* without a chat.
SameMapping(r) == mapping[r]
NoMapping(r) == None

\* Another attempt follows.
Again(r) ==
    /\ Goto(r, "choosing")
    /\ mapping' = [mapping EXCEPT ![r] = NoMapping(r)]
    /\ chat' = [chat EXCEPT ![r] = None]
    /\ tail' = [tail EXCEPT ![r] = FALSE]
    /\ refreshed' = [refreshed EXCEPT ![r] = FALSE]
    /\ UNCHANGED <<hash, limit, account>>

\* The mapped chat failed.  Without the mapping the same account may be
\* chosen again; a retryable error, or one that the upstream did not explain,
\* sends the request to another account; any other ends it.
MappedFails(r) ==
    /\ pc[r] \in {"creating", "sending"}
    /\ mapping[r] # None
    /\ \/ /\ sessions' = WithoutAliases(hash[r])
          /\ Pool!Release(r)
          /\ Again(r)
          /\ UNCHANGED attempted
       \/ /\ attempted' = [attempted EXCEPT ![r] = Tried(r, held[r])]
          /\ Pool!RecordFailure(r)
          /\ Again(r)
          /\ UNCHANGED sessions
       \/ /\ Pool!Release(r)
          /\ Return(r)
          /\ UNCHANGED sessions
    /\ UNCHANGED <<tracked, owner, answered>>

\* An attempt of the loop failed.  Only errors that the upstream explained
\* count against the account, and only retryable ones lead to another.
AttemptFails(r) ==
    /\ pc[r] \in {"creating", "sending"}
    /\ mapping[r] = None
    /\ \/ /\ Pool!RecordFailure(r)
          /\ \/ UNCHANGED sessions
             \/ hash[r] # NoHash /\ sessions' = WithoutAliases(hash[r])
          /\ (Again(r) /\ UNCHANGED attempted) \/ Return(r)
       \/ /\ Pool!Release(r)
          /\ Return(r)
          /\ UNCHANGED sessions
    /\ UNCHANGED <<tracked, owner, answered>>

----------------------------------------------------------------------------
(* After the answer. *)

\* The chat to map and to track: the mapped path takes the chat of the
\* mapping, the loop the chat of the stream.
FirstSaved(r) ==
    IF sessions[hash[r]] # NoSession THEN sessions[hash[r]].chat ELSE chat[r]
ChatToSave(r) == IF mapping[r] # None THEN mapping[r] ELSE chat[r]

\* sessions.Save.
Save(r) ==
    /\ pc[r] = "saving"
    /\ sessions' = [sessions EXCEPT ![hash[r]] =
                      [account |-> account[r], chat |-> ChatToSave(r)]]
    /\ Goto(r, "recording")
    /\ UNCHANGED <<poolVars, tracked, owner, answered, hash, limit, attempted,
                   mapping, account, chat, tail, refreshed>>

\* recordChatUsage.
Record(r) ==
    /\ pc[r] = "recording"
    /\ tracked' = tracked \cup {<<account[r], ChatToSave(r)>>}
    /\ Goto(r, "serving")
    /\ UNCHANGED <<poolVars, sessions, owner, answered, hash, limit, attempted,
                   mapping, account, chat, tail, refreshed>>

\* The stream is over.  HandleChatCompletion maps the request's hash and the
\* hash of the conversation with the answer, whole or cut short; the Anthropic
\* handler, and an answer that cannot be read at all, map nothing.
Finish(r) ==
    /\ pc[r] = "serving"
    /\ \/ UNCHANGED sessions
       \/ \E g \in Hashes \ {hash[r]} :
             sessions' = [h \in Hashes |->
                IF h \in {g, hash[r]}
                THEN [account |-> account[r], chat |-> chat[r]]
                ELSE sessions[h]]
    /\ Return(r)
    /\ UNCHANGED <<poolVars, tracked, owner, answered>>

----------------------------------------------------------------------------
(* The rest of the program. *)

PoolChanges ==
    /\ Pool!Change
    /\ UNCHANGED <<dataVars, pc, hash, limit, attempted, mapping, account,
                   chat, tail, refreshed>>

MappingLost ==
    /\ \E h \in Hashes :
          sessions[h] # NoSession /\ sessions' = OnlyHash(h)
    /\ UNCHANGED <<poolVars, tracked, owner, answered, pc, hash, limit,
                   attempted, mapping, account, chat, tail, refreshed>>

\* A crash: handlers and pool are gone.  The mappings survive in a file or in
\* Redis, the tracker only in Redis.
Restart ==
    /\ Pool!Restart
    /\ \/ UNCHANGED <<sessions, tracked>>
       \/ tracked' = {} /\ sessions' \in {sessions, [h \in Hashes |-> NoSession]}
    /\ pc' = [r \in Requests |-> "idle"]
    /\ hash' = [r \in Requests |-> NoHash]
    /\ limit' = [r \in Requests |-> 1]
    /\ attempted' = [r \in Requests |-> {}]
    /\ mapping' = [r \in Requests |-> None]
    /\ account' = [r \in Requests |-> None]
    /\ chat' = [r \in Requests |-> None]
    /\ tail' = [r \in Requests |-> FALSE]
    /\ refreshed' = [r \in Requests |-> FALSE]
    /\ UNCHANGED <<owner, answered>>

Step(r) ==
    \/ Resolved(r)
    \/ LookUp(r)
    \/ TakeMapped(r)
    \/ Choose(r)
    \/ GiveUp(r)
    \/ NewChat(r)
    \/ Succeed(r)
    \/ RefreshGuest(r)
    \/ MappedFails(r)
    \/ AttemptFails(r)
    \/ Save(r)
    \/ Record(r)
    \/ Finish(r)

Next ==
    \/ \E r \in Requests :
          \/ \E h \in Hashes \cup {NoHash} : Prepare(r, h)
          \/ Step(r)
    \/ PoolChanges
    \/ MappingLost
    \/ Restart

\* A handler that has begun runs on, and the upstream client's time limits
\* end every call it waits for.
Spec == Init /\ [][Next]_vars /\ \A r \in Requests : WF_vars(Step(r))
----------------------------------------------------------------------------
(* Properties. *)

\* Every variable has its type.
TypeOK ==
    /\ ready \in BOOLEAN
    /\ pool \in SUBSET Keys
    /\ cooling \in SUBSET Keys
    /\ held \in [Requests -> Keys \cup {None}]
    /\ sessions \in [Hashes -> Session \cup {NoSession}]
    /\ tracked \in SUBSET (Keys \X Chats)
    /\ owner \in [Chats -> Keys \cup {None}]
    /\ answered \in SUBSET Chats
    /\ pc \in [Requests -> {"idle", "resolving", "looking", "mapped", "choosing",
                            "creating", "sending", "saving", "recording",
                            "serving"}]
    /\ hash \in [Requests -> Hashes \cup {NoHash}]
    /\ limit \in [Requests -> 1..Cardinality(Keys)]
    /\ attempted \in [Requests -> SUBSET Keys]
    /\ mapping \in [Requests -> Chats \cup {None}]
    /\ account \in [Requests -> Keys \cup {None}]
    /\ chat \in [Requests -> Chats \cup {None}]
    /\ tail \in [Requests -> BOOLEAN]
    /\ refreshed \in [Requests -> BOOLEAN]

\* A mapping and a tracker entry name a chat together with the account that
\* owns it, whatever failovers and concurrent requests wrote them: anything
\* else sends the conversation's next message with a stranger's token.
OwnChat ==
    /\ \A h \in Hashes :
          sessions[h] # NoSession => owner[sessions[h].chat] = sessions[h].account
    /\ \A t \in tracked : owner[t[2]] = t[1]

\* The tail of a conversation alone is only ever sent into a chat that
\* already holds an exchange, never into a new one.
TailNeedsHistory ==
    \A r \in Requests : (pc[r] = "sending" /\ tail[r]) => chat[r] \in answered

\* From a pool that is initialized a request gives up only when it has tried
\* every account that is rested, unless the pool outgrew the number of attempts
\* fixed at its start.  (One that is not refuses everybody, also where the
\* administrator has filled it since LoadAccounts failed.)
TriesEveryone ==
    [][\A r \in Requests :
          (ready /\ GiveUp(r) /\ Cardinality(pool \cup attempted[r]) <= limit[r])
              => Pool!Rested(attempted[r]) = {}]_vars

\* The chat that answered is the one mapped and tracked.
SavesAnswer(r) ==
    /\ Save(r) =>
          sessions'[hash[r]] = [account |-> account[r], chat |-> chat[r]]
    /\ Record(r) => <<account[r], chat[r]>> \in tracked'

\* The chat that answered a real account's request is the one mapped and
\* tracked for it, whatever happened to its mapping meanwhile.  (A guest's is
\* not: after RefreshGuest the mapping still names the chat that failed.)
RealSavesAnswer ==
    [][\A r \in Requests : account[r] # Guest => SavesAnswer(r)]_vars

\* Every request ends: the retries of a guest and the loop over accounts are
\* bounded although accounts come, go, cool down and rest meanwhile.
RequestsEnd == \A r \in Requests : pc[r] # "idle" ~> pc[r] = "idle"
============================================================================
