-------------------------- MODULE UpstreamClient --------------------------
(***************************************************************************)
(* The client of the Qwen service (internal/qwen/client.go, guest.go): one *)
(* Client, whose state all requests of the proxy share, called by many of  *)
(* them at a time.                                                         *)
(*                                                                         *)
(* A call with an account's token is sent once.  A call without one, of a  *)
(* guest or a sign-in, needs the guest cookies: they are fetched under     *)
(* guestMu, kept for half an hour, and fetched anew when an attempt fails, *)
(* before the same request is sent a second and last time.  The list of    *)
(* models is kept for five minutes, unless the caller wants a new one.  An *)
(* answer to a chat is inspected before the client sees it.                *)
(*                                                                         *)
(* The six requests that fetch guest cookies may all fail: made-up cookies *)
(* take their place, so that fetching ends always and fails never.         *)
(* Requests end because every one has a time limit.  Cookies are either    *)
(* usable or not; which ones they are is told by the callers whose failed  *)
(* attempt came before they were fetched.                                  *)
(***************************************************************************)
EXTENDS StreamInspection, FiniteSets

CONSTANTS
    Callers,     \* requests that use the client at the same time
    Readers,     \* those of them that also ask for chat completions
    NoOne,       \* nobody holds guestMu
    MaxLists,    \* bound: the lists of models the service has had
    MaxEvents    \* bound: the events of a chat answer

ASSUME CallersAssumption == NoOne \notin Callers /\ Readers \subseteq Callers
ASSUME BoundsAssumption  == MaxLists \in Nat /\ MaxEvents \in Nat

VARIABLES
    pc,          \* pc[c]: what c does next
    phase,       \* phase[c]: "first" attempt, "refresh" of the cookies, "second" attempt
    op,          \* op[c]: what c called for
    carries,     \* carries[c]: the cookies of c's request were fetched after its failure
    guestAuth,   \* the cookies kept
    guestMu,     \* who fetches cookies
    models,      \* the list kept, 0 when there is none to serve: empty, or too old
    catalogue,   \* the list the service has, 0 an empty one
    answer       \* answer[c]: what c got

clientVars == <<guestAuth, guestMu, models>>
callVars   == <<pc, phase, op, carries, answer>>
vars       == <<callVars, clientVars, catalogue>>

-----------------------------------------------------------------------------

\* plain: SignIn, NewChat, ListChats, DeleteChat, GetChatDetail, GetVideoTaskStatus and
\* getSTSToken, which all send one request and decode its answer.
Calls(c) == [kind : {"plain"} \union (IF c \in Readers THEN {"chat"} ELSE {}),
             token : BOOLEAN, force : {FALSE}]
            \union [kind : {"models"}, token : BOOLEAN, force : BOOLEAN]

NoCall   == [kind |-> "none", token |-> FALSE, force |-> FALSE]
\* What came of a chat and what was due, by the body; the list of models, and the one
\* the service had when a new one was asked for.  That of other calls is of no matter.
NoAnswer == [outcome |-> "none", due |-> "none", list |-> 0, since |-> 0]

Steps  == {"idle", "lookup", "cookie", "lock", "fetch", "send", "store", "done"}
Phases == {"first", "refresh", "second"}

\* Types of the variables the proofs are about.
CookiesOK ==
    /\ pc \in [Callers -> Steps]
    /\ phase \in [Callers -> Phases]
    /\ carries \in [Callers -> BOOLEAN]
    /\ guestAuth \in [usable : BOOLEAN, after : SUBSET Callers]
    /\ guestMu \in [holder : Callers \union {NoOne}, after : SUBSET Callers]

\* None were fetched, or half an hour ago.
NoCookies == [usable |-> FALSE, after |-> {}]

Init ==
    /\ pc = [c \in Callers |-> "idle"]
    /\ phase = [c \in Callers |-> "first"]
    /\ op = [c \in Callers |-> NoCall]
    /\ carries = [c \in Callers |-> FALSE]
    /\ answer = [c \in Callers |-> NoAnswer]
    /\ guestAuth = NoCookies
    /\ guestMu = [holder |-> NoOne, after |-> {}]
    /\ models = 0
    /\ catalogue \in 0 .. MaxLists

-----------------------------------------------------------------------------
(* Building the request *)

isAnonymousRequest(c) == ~op[c].token

Goto(c, step) == pc' = [pc EXCEPT ![c] = step]

\* buildCookieHeader: the token is a cookie of its own, only a guest's request needs more.
Building(o) == IF o.token THEN "send" ELSE "cookie"

Call(c, o) ==
    /\ pc[c] = "idle"
    /\ Goto(c, IF o.kind = "models" THEN "lookup" ELSE Building(o))
    /\ op' = [op EXCEPT ![c] = o]
    /\ answer' = [answer EXCEPT ![c].since = IF o.force THEN catalogue ELSE 0]
    /\ UNCHANGED <<phase, carries, clientVars, catalogue>>

CachedEvenForced(c) == models # 0

ListIsCached(c) == ~op[c].force /\ models # 0

ListModels(c) ==
    /\ pc[c] = "lookup"
    /\ IF ListIsCached(c)
       THEN /\ Goto(c, "done")
            /\ answer' = [answer EXCEPT ![c].list = models]
       ELSE /\ Goto(c, Building(op[c]))
            /\ UNCHANGED answer
    /\ UNCHANGED <<phase, op, carries, clientVars, catalogue>>

-----------------------------------------------------------------------------
(* Guest cookies *)

Forced(c) == phase[c] = "refresh"

ServesEvenFailed(c) == guestAuth.usable

CookiesServe(c) == ~Forced(c) /\ guestAuth.usable

\* The clone of a failed request asks for new cookies first, and then for cookies like
\* the first request did: these are the ones it carries.
WithCookies(c, after) ==
    IF Forced(c)
    THEN /\ Goto(c, "cookie")
         /\ phase' = [phase EXCEPT ![c] = "second"]
         /\ UNCHANGED carries
    ELSE /\ Goto(c, "send")
         /\ carries' = [carries EXCEPT ![c] = c \in after]
         /\ UNCHANGED phase

\* guestMu.RLock: readers wait as long as somebody fetches.
ReadCookies(c) ==
    /\ pc[c] = "cookie"
    /\ guestMu.holder = NoOne
    /\ IF CookiesServe(c)
       THEN WithCookies(c, guestAuth.after)
       ELSE Goto(c, "lock") /\ UNCHANGED <<phase, carries>>
    /\ UNCHANGED <<op, answer, clientVars, models, catalogue>>

LooksOnce(c) == FALSE

\* guestMu.Lock: the cookies are looked at again, somebody may have fetched them.
ServeAfterWait(c) == CookiesServe(c)

LockCookies(c) ==
    /\ pc[c] = "lock"
    /\ guestMu.holder = NoOne
    /\ IF ServeAfterWait(c)
       THEN WithCookies(c, guestAuth.after) /\ UNCHANGED guestMu
       ELSE /\ Goto(c, "fetch")
            /\ guestMu' = [holder |-> c, after |-> {d \in Callers : phase[d] # "first"}]
            /\ UNCHANGED <<phase, carries>>
    /\ UNCHANGED <<op, answer, guestAuth, models, catalogue>>

StillLocked == guestMu

Unlocked == [holder |-> NoOne, after |-> {}]

FetchCookies(c) ==
    /\ pc[c] = "fetch"
    /\ guestAuth' = [usable |-> TRUE, after |-> guestMu.after]
    /\ guestMu' = Unlocked
    /\ WithCookies(c, guestMu.after)
    /\ UNCHANGED <<op, answer, models, catalogue>>

-----------------------------------------------------------------------------
(* Sending it *)

\* What was fetched so far does not count for a request that fails now.
FailsNow(c, record) == [record EXCEPT !.after = @ \ {c}]

\* do: no answer, one that cannot be decompressed, or a status of 400 and more.
SendFails(c) ==
    /\ pc[c] = "send"
    /\ IF isAnonymousRequest(c) /\ phase[c] = "first"
       THEN /\ Goto(c, "cookie")
            /\ phase' = [phase EXCEPT ![c] = "refresh"]
            /\ guestAuth' = FailsNow(c, guestAuth)
            /\ guestMu' = FailsNow(c, guestMu)
       ELSE /\ Goto(c, "done")
            /\ UNCHANGED <<phase, guestAuth, guestMu>>
    /\ UNCHANGED <<op, carries, answer, models, catalogue>>

\* The answer is decoded, or turns out to be no JSON or without what the call is for.
Answered(c) ==
    /\ pc[c] = "send"
    /\ op[c].kind # "chat"
    /\ \/ /\ op[c].kind = "models"
          /\ Goto(c, "store")
          /\ answer' = [answer EXCEPT ![c].list = catalogue]
       \/ Goto(c, "done") /\ UNCHANGED answer
    /\ UNCHANGED <<phase, op, carries, clientVars, catalogue>>

StoreModels(c) ==
    /\ pc[c] = "store"
    /\ models' = answer[c].list
    /\ Goto(c, "done")
    /\ UNCHANGED <<phase, op, carries, answer, guestAuth, guestMu, catalogue>>

\* What is due for a body, decided by its first event that is neither silent nor left
\* unread: the reference for what InspectUpstreamStream makes of it line by line.
Decisive(body, i) ==
    /\ body.events[i] \notin Silent
    /\ Parsed(body, i) \/ body.events[i] = "captcha"

Due(body) ==
    LET hits  == {i \in DOMAIN body.events : Decisive(body, i)}
        first == body.events[CHOOSE i \in hits : \A j \in hits : i <= j]
    IN  IF hits # {}                   THEN IF first = "text" THEN "stream" ELSE first
        ELSE IF body.ending = "broken" THEN "failed"
        ELSE "stream"

Readings == {[outcome |-> InspectUpstreamStream(body), due |-> Due(body)] :
                 body \in Bodies(MaxEvents)}

ChatAnswered(c) ==
    /\ pc[c] = "send"
    /\ op[c].kind = "chat"
    /\ \E r \in Readings :
          answer' = [answer EXCEPT ![c].outcome = r.outcome, ![c].due = r.due]
    /\ Goto(c, "done")
    /\ UNCHANGED <<phase, op, carries, clientVars, catalogue>>

Return(c) ==
    /\ pc[c] = "done"
    /\ Goto(c, "idle")
    /\ phase' = [phase EXCEPT ![c] = "first"]
    /\ op' = [op EXCEPT ![c] = NoCall]
    /\ carries' = [carries EXCEPT ![c] = FALSE]
    /\ answer' = [answer EXCEPT ![c] = NoAnswer]
    /\ guestAuth' = FailsNow(c, guestAuth)
    /\ guestMu' = FailsNow(c, guestMu)
    /\ UNCHANGED <<models, catalogue>>

-----------------------------------------------------------------------------
(* Time, and the service *)

CookiesExpire ==
    /\ guestAuth.usable
    /\ guestAuth' = NoCookies
    /\ UNCHANGED <<callVars, guestMu, models, catalogue>>

ModelsExpire ==
    /\ models # 0
    /\ models' = 0
    /\ UNCHANGED <<callVars, guestAuth, guestMu, catalogue>>

CatalogueChanges ==
    /\ catalogue < MaxLists
    /\ catalogue' = catalogue + 1
    /\ UNCHANGED <<callVars, clientVars>>

Step(c) ==
    \/ ListModels(c) \/ ReadCookies(c) \/ LockCookies(c) \/ FetchCookies(c)
    \/ SendFails(c) \/ Answered(c) \/ StoreModels(c) \/ ChatAnswered(c) \/ Return(c)

Next ==
    \/ \E c \in Callers : Step(c) \/ \E o \in Calls(c) : Call(c, o)
    \/ CookiesExpire \/ ModelsExpire \/ CatalogueChanges

\* Every request has a time limit, and Go's mutex lets nobody wait for ever.
Fairness ==
    \A c \in Callers : /\ WF_vars(Step(c))
                       /\ SF_vars(ReadCookies(c))
                       /\ SF_vars(LockCookies(c))

Spec == Init /\ [][Next]_vars /\ Fairness

-----------------------------------------------------------------------------
(* Properties *)

\* Cookies are fetched by one caller at a time, who holds guestMu, and while there are
\* good ones only by a caller whose own first attempt failed: those who found none
\* together do not all go and fetch (guest.go:57-63).  Who failed does fetch, also when
\* somebody else's new cookies are already there, which have failed nobody: with force
\* the code does not look at them (guest.go:52, 59).
NoStampede ==
    \A c \in Callers : pc[c] = "fetch" =>
        /\ guestMu.holder = c
        /\ phase[c] # "refresh" => ~guestAuth.usable

\* The second attempt of a guest's request carries cookies that were fetched after its
\* first attempt had failed, whoever fetched them: it never repeats with those that
\* failed it (client.go:187-191).
RetryIsFresh ==
    \A c \in Callers : pc[c] = "send" /\ phase[c] = "second" => carries[c]

\* Whoever asks for a new list of models gets one at least as new as the service had
\* when the call began, whatever is kept or stored by others meanwhile (client.go:418-450).
RefreshIsCurrent ==
    \A c \in Callers :
        pc[c] = "done" /\ op[c].force /\ answer[c].list # 0
            => answer[c].list >= answer[c].since

\* What the client sees of a body is decided by the first event that is neither silent nor
\* left unread: an error or a verification that comes before the first visible text is
\* reported as one and never streamed, and an answer that begins with visible text is
\* always streamed (upstream.go:72-131).
FirstEventDecides == \A c \in Callers : answer[c].outcome = answer[c].due

\* Every call comes to an end, however many callers wait for cookies, fail and fetch
\* them again.
CallsEnd == \A c \in Callers : pc[c] # "idle" ~> pc[c] = "idle"

=============================================================================
