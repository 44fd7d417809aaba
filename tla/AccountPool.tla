---------------------------- MODULE AccountPool ----------------------------
(***************************************************************************)
(* The account pool of internal/account/service.go over the AccountStore   *)
(* of internal/storage/accounts.go: the start-up goroutine (Initialize),   *)
(* the administrator's add, delete and refresh calls, the rotation that    *)
(* hands accounts to chat requests, and the cool-down of failing accounts. *)
(*                                                                         *)
(* Every method that holds s.mu from its first to its last line is one     *)
(* action.  The two that do not are split where they let go of it:         *)
(* AddAccount (check, sign in upstream, insert) and Initialize (load,      *)
(* check each account, publish the slice, read it again, save).            *)
(*                                                                         *)
(* Abstractions.  A token is fresh or expired; a sign-in succeeds or       *)
(* fails.  time.Time is kept as far as the code compares it: lastUsed[k]   *)
(* ranks k's last use among all last uses (0 is the zero time), and        *)
(* "recent" holds the keys used less than five minutes ago.  Failure       *)
(* counts saturate at MaxFailures, the only number they are compared with. *)
(* The store is how often it holds each e-mail, loaded in any order: a     *)
(* file and ACCOUNTS can hold one twice, redis cannot.  Tokens held in     *)
(* memory are never blank: every path into the slice decodes one.          *)
(***************************************************************************)
EXTENDS Naturals, SequencesExt

CONSTANTS
    Emails,        \* spellings of the e-mail addresses of real accounts
    Mailbox,       \* Mailbox[k]: k with its case folded (strings.EqualFold)
    Guest,         \* guestAccountEmail: the entry of the anonymous account
    None,          \* no account
    Adders,        \* handlers that may be running AddAccount at once
    Requests,      \* handlers that may hold an account session at once
    Modes,         \* the DATA_SAVE_MODEs considered
    MaxFailures,   \* failures that start a cool-down (3 in the code)
    MaxNamed,      \* bound: how often ACCOUNTS names a mailbox
    MaxRestarts    \* bound: crashes of the process

Keys == Emails \cup {Guest}

ASSUME PoolAssumption ==
    /\ IsFiniteSet(Emails)
    /\ Guest \notin Emails
    /\ None \notin Keys
    /\ \A e \in Emails : Mailbox[e] # Mailbox[Guest]
    /\ Modes \subseteq {"file", "redis", "env"}
    /\ MaxFailures \in Nat \ {0}
    /\ MaxNamed \in Nat \ {0}
    /\ MaxRestarts \in Nat

VARIABLES
    \* the fields of Service
    accounts, initialized, currentIndex, lastUsed, recent, failures,
    \* Initialize: its step, the accounts still to check, the slice
    \* "validated", its capacity, whether s.accounts still aliases it, and
    \* what filterPersistentAccounts read from it
    boot, todo, array, capacity, shared, snapshot,
    \* the AccountStore: its kind, how many accounts it holds for each
    \* e-mail, the e-mails of which a stored token has expired
    mode, store, expired,
    \* callers: the e-mail an adder signs in, the account a request holds,
    \* the accounts RefreshAllAccounts has still to visit
    adding, held, refreshing,
    \* history: crashes; whether nothing has yet set store and pool apart
    \* (a failed write, a call during Initialize, an account loaded twice)
    restarts, clean

poolVars  == <<accounts, initialized, currentIndex, lastUsed, recent, failures>>
bootVars  == <<boot, todo, array, capacity, shared, snapshot>>
storeVars == <<mode, store, expired>>
histVars  == <<restarts, clean>>
vars == <<poolVars, bootVars, storeVars, adding, held, refreshing, histVars>>

----------------------------------------------------------------------------
(* Helpers. *)

EqualFold(j, k) == Mailbox[j] = Mailbox[k]

Listed(k) == \E i \in DOMAIN accounts : EqualFold(accounts[i], k)

\* The position at which a loop over s.accounts meets k first.
FirstMatch(i, k) ==
    /\ EqualFold(accounts[i], k)
    /\ \A j \in 1..(i - 1) : ~EqualFold(accounts[j], k)

\* Writing the elements of "new" in place over the slots of the slice "old".
Overlay(new, old) ==
    [i \in DOMAIN old |-> IF i <= Len(new) THEN new[i] ELSE old[i]]

\* What Initialize's own slice shows once s.accounts was rebuilt in place
\* as "new": append reuses the array while it fits.
WriteThrough(new) ==
    IF shared /\ Len(new) <= capacity THEN Overlay(new, array) ELSE array

\* delete(s.lastUsed, k), and s.lastUsed[k] = time.Now().
Forgotten(k) ==
    [j \in Keys |->
        IF j = k THEN 0
        ELSE IF lastUsed[k] > 0 /\ lastUsed[j] > lastUsed[k]
             THEN lastUsed[j] - 1
             ELSE lastUsed[j]]

Stamped(k) ==
    [Forgotten(k) EXCEPT
        ![k] = 1 + Cardinality({j \in Keys \ {k} : lastUsed[j] > 0})]

Touch(k) ==
    /\ lastUsed' = Stamped(k)
    /\ recent' = recent \cup {k}

----------------------------------------------------------------------------
(* The store: a write succeeds, is refused by the read-only environment    *)
(* store (isReadonlyStoreError), or fails and leaves the store as it was.  *)

NoAccounts == [e \in Emails |-> 0]

Stored == {e \in Emails : store[e] > 0}

\* LoadAccounts: every account of the store, in some order.
LoadAccounts ==
    LET entries == UNION {{e} \X (1..store[e]) : e \in Emails}
    IN  {[i \in DOMAIN s |-> s[i][1]] : s \in SetToSeqs(entries)}

SameKey(e, f) == IF mode = "redis" THEN e = f ELSE EqualFold(e, f)

\* SaveAccount writes over the first account with e's key, or adds one ...
SaveAccount(e) ==
    LET same == {f \in Stored : SameKey(f, e)} IN
    IF same = {} THEN {[store EXCEPT ![e] = @ + 1]}
    ELSE {IF f = e THEN store ELSE [store EXCEPT ![f] = @ - 1, ![e] = @ + 1] :
             f \in same}

\* ... the store's DeleteAccount drops every one with that key, and
Without(e) == {[f \in Emails |-> IF SameKey(f, e) THEN 0 ELSE store[f]]}

\* SaveAllAccounts makes the list given the store's: redis keeps one a key.
SaveAllAccounts(list) ==
    {[e \in Emails |-> IF mode = "redis" /\ list[e] > 1 THEN 1 ELSE list[e]]}

Writes(S) == mode # "env" /\ store' \in S
Refuses   == mode = "env" /\ UNCHANGED store
Breaks    == mode # "env" /\ UNCHANGED store

\* A save of e leaves no expired token behind, unless a second account of e
\* is in the store (its token may be the old one).
SavedFresh(e) == expired' = IF store'[e] <= 1 THEN expired \ {e} ELSE expired

----------------------------------------------------------------------------
Init ==
    /\ accounts = <<>>
    /\ initialized = FALSE
    /\ currentIndex = 0
    /\ lastUsed = [k \in Keys |-> 0]
    /\ recent = {}
    /\ failures = [k \in Keys |-> 0]
    /\ boot = "loading"
    /\ todo = <<>>
    /\ array = <<>>
    /\ capacity = 0
    /\ shared = FALSE
    /\ snapshot = NoAccounts
    /\ mode \in Modes
    /\ store \in [Emails -> 0..MaxNamed]
    /\ \A e, f \in Stored :                  \* ACCOUNTS may repeat itself
          /\ mode # "env" => store[e] = 1
          /\ EqualFold(e, f) /\ e # f =>
                mode = "env" /\ store[e] + store[f] <= MaxNamed
    /\ expired \in SUBSET Stored
    /\ mode = "env" => expired = Stored      \* and holds no tokens
    /\ adding = [p \in Adders |-> None]
    /\ held = [r \in Requests |-> None]
    /\ refreshing = <<>>
    /\ restarts = 0
    /\ clean = TRUE

----------------------------------------------------------------------------
(* Initialize, in the goroutine that main starts beside the HTTP server. *)

\* LoadAccounts, which may fail: then Initialize returns and nobody retries.
BootLoad ==
    /\ boot = "loading"
    /\ \/ /\ todo' \in LoadAccounts
          /\ capacity' = IF todo' = <<>> THEN 1 ELSE Len(todo')
          /\ boot' = "checking"
          /\ clean' = (clean /\ \A e \in Emails : store[e] <= 1)
       \/ /\ mode # "env"
          /\ boot' = "failed"
          /\ UNCHANGED <<todo, capacity, clean>>
    /\ UNCHANGED <<poolVars, array, shared, snapshot, storeVars, adding, held,
                   refreshing, restarts>>

\* ensureAccountReady: a fresh token is kept as it is, an expired one costs
\* a sign-in, and an account whose sign-in fails is left out.
BootCheck ==
    /\ boot = "checking"
    /\ todo # <<>>
    /\ \/ array' = Append(array, Head(todo))
       \/ Head(todo) \in expired /\ UNCHANGED array
    /\ todo' = Tail(todo)
    /\ UNCHANGED <<poolVars, boot, capacity, shared, snapshot, storeVars,
                   adding, held, refreshing, histVars>>

\* s.accounts = validated; s.initialized = true.
BootPublish ==
    /\ boot = "checking"
    /\ todo = <<>>
    /\ array' = IF array = <<>> THEN <<Guest>> ELSE array
    /\ accounts' = array'
    /\ initialized' = TRUE
    /\ shared' = TRUE
    /\ boot' = "published"
    /\ UNCHANGED <<currentIndex, lastUsed, recent, failures, todo, capacity,
                   snapshot, storeVars, adding, held, refreshing, histVars>>

\* filterPersistentAccounts: every real account of the list, as often as it
\* is there; the guest is never saved.
WithGuest(s) ==
    [k \in Keys |-> Cardinality({i \in DOMAIN s : s[i] = k})]
filterPersistentAccounts(s) ==
    [e \in Emails |-> Cardinality({i \in DOMAIN s : s[i] = e})]

\* filterPersistentAccounts(validated), read without the lock.
BootFilter ==
    /\ boot = "published"
    /\ snapshot' = filterPersistentAccounts(array)
    /\ shared' = FALSE
    /\ boot' = "saving"
    /\ UNCHANGED <<poolVars, todo, array, capacity, storeVars, adding, held,
                   refreshing, histVars>>

\* SaveAllAccounts; an error is only logged.
BootSave ==
    /\ boot = "saving"
    /\ \/ /\ Writes(SaveAllAccounts(snapshot))
          /\ expired' = expired \ {e \in Emails : snapshot[e] > 0}
          /\ UNCHANGED clean
       \/ /\ Refuses
          /\ UNCHANGED <<expired, clean>>
       \/ /\ Breaks
          /\ clean' = FALSE
          /\ UNCHANGED expired
    /\ boot' = "done"
    /\ UNCHANGED <<poolVars, todo, array, capacity, shared, snapshot, mode,
                   adding, held, refreshing, restarts>>

\* Initialize is between reading the store and writing it back.
Booting == boot \in {"checking", "published", "saving"}

----------------------------------------------------------------------------
(* The administrator's calls. *)

\* AddAccount up to the point where it lets go of the read lock.
AddAccount(p, e) ==
    /\ adding[p] = None
    /\ ~Listed(e)
    /\ adding' = [adding EXCEPT ![p] = e]
    /\ UNCHANGED <<poolVars, bootVars, storeVars, held, refreshing, histVars>>

AddSignInFails(p) ==
    /\ adding[p] # None
    /\ adding' = [adding EXCEPT ![p] = None]
    /\ UNCHANGED <<poolVars, bootVars, storeVars, held, refreshing, histVars>>

\* AddAccountWithToken asks again whether e is listed: nobody held the lock
\* while p signed in.
AskedOnce(e) == TRUE
MayInsert(e) == ~Listed(e)

\* Somebody else added the mailbox while p signed in: nothing to do.
AddRejected(p) ==
    /\ adding[p] # None
    /\ ~MayInsert(adding[p])
    /\ adding' = [adding EXCEPT ![p] = None]
    /\ UNCHANGED <<poolVars, bootVars, storeVars, held, refreshing, histVars>>

\* What AddAccountWithToken makes of s.accounts: the guest entry makes room,
GrownBesideGuest(e) == Append(accounts, e)
Grown(e) == Append(RemoveFirst(accounts, Guest), e)

\* and what a failed save restores.
NotRestored(e) == Grown(e)
Previous(e) == accounts

\* AddAccountWithToken: a failed save restores "previous", a fresh slice.
AddAccountWithToken(p) ==
    LET e == adding[p] IN
    /\ e # None
    /\ MayInsert(e)
    /\ array' = WriteThrough(Grown(e))
    /\ \/ /\ Writes(SaveAccount(e))
          /\ accounts' = Grown(e)
          /\ shared' = (shared /\ Len(Grown(e)) <= capacity)
          /\ SavedFresh(e)
       \/ /\ Refuses
          /\ accounts' = Grown(e)
          /\ shared' = (shared /\ Len(Grown(e)) <= capacity)
          /\ UNCHANGED expired
       \/ /\ Breaks
          /\ accounts' = Previous(e)
          /\ shared' = FALSE
          /\ UNCHANGED expired
    /\ clean' = (clean /\ ~Booting)
    /\ adding' = [adding EXCEPT ![p] = None]
    /\ UNCHANGED <<initialized, currentIndex, lastUsed, recent, failures, boot,
                   todo, capacity, snapshot, mode, held, refreshing, restarts>>

\* s.accounts without its entry i,
ShrunkToNothing(i) == RemoveAt(accounts, i)

\* with the guest back when no real account
\* is left.
Shrunk(i) ==
    LET rest == RemoveAt(accounts, i) IN
    IF filterPersistentAccounts(rest) = NoAccounts THEN Append(rest, Guest)
    ELSE rest

\* DeleteAccount: the counters are deleted under the spelling asked for, and
\* an error of the store is reported after the pool has changed.
DeleteAccount(e) ==
    \E i \in DOMAIN accounts :
        /\ FirstMatch(i, e)
        /\ accounts[i] # Guest
        /\ accounts' = Shrunk(i)
        /\ array' = WriteThrough(Shrunk(i))
        /\ failures' = [failures EXCEPT ![e] = 0]
        /\ lastUsed' = Forgotten(e)
        /\ recent' = recent \ {e}
        /\ \/ /\ Writes(Without(e))
              /\ expired' = {f \in expired : store'[f] > 0}
              /\ clean' = (clean /\ ~Booting)
           \/ /\ Refuses
              /\ UNCHANGED <<expired, clean>>
           \/ /\ Breaks
              /\ clean' = FALSE
              /\ UNCHANGED expired
        /\ UNCHANGED <<initialized, currentIndex, boot, todo, capacity, shared,
                       snapshot, mode, adding, held, refreshing, restarts>>

\* RefreshAccount: what it does to the counters and the store, errors
\* included.  A call for an e-mail that is not listed changes nothing.
RefreshEffect(k) ==
    \/ UNCHANGED <<failures, store, expired>>
    \/ /\ k = Guest
       /\ Listed(Guest)
       /\ failures' = [failures EXCEPT ![Guest] = 0]
       /\ UNCHANGED <<store, expired>>
    \/ \E i \in DOMAIN accounts :
          /\ FirstMatch(i, k)
          /\ accounts[i] # Guest
          /\ failures' = [failures EXCEPT ![k] = 0]
          /\ \/ /\ Writes(SaveAccount(accounts[i]))
                /\ SavedFresh(accounts[i])
             \/ (Refuses \/ Breaks) /\ UNCHANGED expired

RefreshAccount(k) ==
    /\ RefreshEffect(k)
    /\ UNCHANGED <<accounts, initialized, currentIndex, lastUsed, recent,
                   bootVars, mode, adding, held, refreshing, histVars>>

\* RefreshAllAccounts takes a copy of the pool, then refreshes each account
\* of the copy that is due, one lock at a time, ignoring errors.
RefreshAllAccounts ==
    /\ refreshing = <<>>
    /\ accounts # <<>>
    /\ refreshing' = accounts
    /\ UNCHANGED <<poolVars, bootVars, storeVars, adding, held, histVars>>

RefreshNext ==
    /\ refreshing # <<>>
    /\ RefreshEffect(Head(refreshing))
    /\ refreshing' = Tail(refreshing)
    /\ UNCHANGED <<accounts, initialized, currentIndex, lastUsed, recent,
                   bootVars, mode, adding, held, histVars>>

----------------------------------------------------------------------------
(* The rotation. *)

InCooldown(k) == failures[k] >= MaxFailures /\ k \in recent

\* availableLocked: the accounts it returns, less those in "excluded" ...
AvailableEvenHot(excluded) == ToSet(accounts) \ excluded
Available(excluded) == {k \in ToSet(accounts) \ excluded : ~InCooldown(k)}

\* ... and the failures it forgives on the way, whoever is chosen then.
ForgiveRested ==
    failures' = [k \in Keys |->
        IF k \in ToSet(accounts) /\ failures[k] >= MaxFailures /\ k \notin recent
        THEN 0 ELSE failures[k]]

\* The first account of S,
FirstListed(S) == Head(SelectSeq(accounts, LAMBDA k : k \in S))

\* and the one the code's loop ends on.  It takes the next candidate where
\* that was used longer ago, and in any case where the best so far was never
\* used: so it starts afresh behind the last candidate that never was.
LeastRecent(S) ==
    LET at == {i \in DOMAIN accounts : accounts[i] \in S}
        fresh == {i \in at : \A j \in at : lastUsed[accounts[j]] = 0 => j < i}
        Before(i, j) ==
            \/ lastUsed[accounts[i]] < lastUsed[accounts[j]]
            \/ lastUsed[accounts[i]] = lastUsed[accounts[j]] /\ i <= j
    IN  accounts[IF fresh = {} THEN Max(at)
                 ELSE CHOOSE i \in fresh : \A j \in fresh : Before(i, j)]

HandOut(r, k) ==
    /\ held' = [held EXCEPT ![r] = k]
    /\ Touch(k)

\* roundRobinLocked serves when every account cools down.
RoundRobin(r) ==
    LET i == IF currentIndex >= Len(accounts) THEN 1 ELSE currentIndex + 1
    IN  HandOut(r, accounts[i]) /\ currentIndex' = i

GetAccountSession(r) ==
    /\ held[r] = None
    /\ initialized
    /\ accounts # <<>>
    /\ ForgiveRested
    /\ \/ /\ \E k \in Available({}) :
                k = LeastRecent(Available({})) /\ HandOut(r, k)
          /\ UNCHANGED currentIndex
       \/ Available({}) = {} /\ RoundRobin(r)
    /\ UNCHANGED <<accounts, initialized, bootVars, storeVars, adding,
                   refreshing, histVars>>

\* GetAccountSessionByEmail hands out the first available account that
\* matches; with none it still forgives the rested ones.
ServesEmail(i, e) == accounts[i] \in Available({}) /\ EqualFold(accounts[i], e)

GetAccountSessionByEmail(r, e) ==
    /\ held[r] = None
    /\ initialized
    /\ ForgiveRested
    /\ \/ \E i \in DOMAIN accounts :
             /\ ServesEmail(i, e)
             /\ \A j \in 1..(i - 1) : ~ServesEmail(j, e)
             /\ HandOut(r, accounts[i])
       \/ /\ \A i \in DOMAIN accounts : ~ServesEmail(i, e)
          /\ UNCHANGED <<held, lastUsed, recent>>
    /\ UNCHANGED <<accounts, initialized, currentIndex, bootVars, storeVars,
                   adding, refreshing, histVars>>

GetAccountSessionExcluding(r, excluded) ==
    /\ held[r] = None
    /\ initialized
    /\ accounts # <<>>
    /\ ForgiveRested
    /\ \/ \E k \in Available(excluded) :
             k = LeastRecent(Available(excluded)) /\ HandOut(r, k)
       \/ /\ Available(excluded) = {}
          /\ UNCHANGED <<held, lastUsed, recent>>
    /\ UNCHANGED <<accounts, initialized, currentIndex, bootVars, storeVars,
                   adding, refreshing, histVars>>

Failed(k) == [failures EXCEPT ![k] = IF @ < MaxFailures THEN @ + 1 ELSE @]

\* RecordFailure and ResetFailure, by a request that is done with its
\* account; neither asks whether the account is still in the pool.
RecordFailure(r) ==
    /\ held[r] # None
    /\ failures' = Failed(held[r])
    /\ Touch(held[r])
    /\ held' = [held EXCEPT ![r] = None]
    /\ UNCHANGED <<accounts, initialized, currentIndex, bootVars, storeVars,
                   adding, refreshing, histVars>>

ResetFailure(r) ==
    /\ held[r] # None
    /\ failures' = [failures EXCEPT ![held[r]] = 0]
    /\ held' = [held EXCEPT ![r] = None]
    /\ UNCHANGED <<accounts, initialized, currentIndex, lastUsed, recent,
                   bootVars, storeVars, adding, refreshing, histVars>>

\* A request that ends without either call (a client error, a model list).
Release(r) ==
    /\ held[r] # None
    /\ held' = [held EXCEPT ![r] = None]
    /\ UNCHANGED <<poolVars, bootVars, storeVars, adding, refreshing, histVars>>

----------------------------------------------------------------------------
(* The environment. *)

\* Five minutes have passed since the oldest of the recent uses.
MinutesPass ==
    /\ \E k \in recent :
          /\ \A j \in recent : lastUsed[k] <= lastUsed[j]
          /\ recent' = recent \ {k}
    /\ UNCHANGED <<accounts, initialized, currentIndex, lastUsed, failures,
                   bootVars, storeVars, adding, held, refreshing, histVars>>

TokenExpires(e) ==
    /\ e \in Stored \ expired
    /\ expired' = expired \cup {e}
    /\ UNCHANGED <<poolVars, bootVars, mode, store, adding, held, refreshing,
                   histVars>>

\* A crash loses everything but the store; the next process starts over.
Restart ==
    /\ restarts < MaxRestarts
    /\ restarts' = restarts + 1
    /\ accounts' = <<>>
    /\ initialized' = FALSE
    /\ currentIndex' = 0
    /\ lastUsed' = [k \in Keys |-> 0]
    /\ recent' = {}
    /\ failures' = [k \in Keys |-> 0]
    /\ boot' = "loading"
    /\ todo' = <<>>
    /\ array' = <<>>
    /\ capacity' = 0
    /\ shared' = FALSE
    /\ snapshot' = NoAccounts
    /\ adding' = [p \in Adders |-> None]
    /\ held' = [r \in Requests |-> None]
    /\ refreshing' = <<>>
    /\ clean' = TRUE
    /\ UNCHANGED storeVars

----------------------------------------------------------------------------
Boot == BootLoad \/ BootCheck \/ BootPublish \/ BootFilter \/ BootSave

Administer ==
    \/ \E p \in Adders :
          \/ \E e \in Emails : AddAccount(p, e)
          \/ AddSignInFails(p)
          \/ AddRejected(p)
          \/ AddAccountWithToken(p)
    \/ \E e \in Emails : DeleteAccount(e)
    \/ \E k \in Keys : RefreshAccount(k)
    \/ RefreshAllAccounts
    \/ RefreshNext

Serve ==
    \E r \in Requests :
        \/ GetAccountSession(r)
        \/ \E e \in Emails : GetAccountSessionByEmail(r, e)
        \/ \E X \in SUBSET Keys : GetAccountSessionExcluding(r, X)
        \/ RecordFailure(r)
        \/ ResetFailure(r)
        \/ Release(r)

Environment == MinutesPass \/ (\E e \in Emails : TokenExpires(e)) \/ Restart

Next == Boot \/ Administer \/ Serve \/ Environment

Spec == Init /\ [][Next]_vars
----------------------------------------------------------------------------
(* Properties. *)

\* Every variable has its type.
TypeOK ==
    /\ accounts \in Seq(Keys)
    /\ initialized \in BOOLEAN
    /\ currentIndex \in Nat
    /\ lastUsed \in [Keys -> Nat]
    /\ recent \in SUBSET Keys
    /\ failures \in [Keys -> 0..MaxFailures]
    /\ boot \in {"loading", "failed", "checking", "published", "saving", "done"}
    /\ todo \in Seq(Emails)
    /\ array \in Seq(Keys)
    /\ capacity \in Nat
    /\ shared \in BOOLEAN
    /\ snapshot \in [Emails -> Nat]
    /\ mode \in Modes
    /\ store \in [Emails -> Nat]
    /\ expired \in SUBSET Emails
    /\ adding \in [Adders -> Emails \cup {None}]
    /\ held \in [Requests -> Keys \cup {None}]
    /\ refreshing \in Seq(Keys)
    /\ restarts \in 0..MaxRestarts
    /\ clean \in BOOLEAN

\* Once initialized, the pool is never empty, and the guest is in it exactly
\* when no real account is (TestGuestFallbackYieldsToRealAccounts...): neither
\* an add that is rolled back nor a delete may leave requests with nothing to
\* use, or with the guest beside a real account.
GuestFallback ==
    /\ initialized => accounts # <<>>
    /\ Guest \in ToSet(accounts) => accounts = <<Guest>>

\* No call gives a pool without duplicates two entries for one mailbox, even
\* when two adders sign in the same address at once: AddAccountWithToken has
\* to look again after the sign-in.
Distinct ==
    \A i, j \in DOMAIN accounts : EqualFold(accounts[i], accounts[j]) => i = j

StaysDistinct == [][(Distinct /\ boot' = boot) => Distinct']_vars

\* Initialize over, the store holds each real account of the pool once, and
\* nothing else: the save inside the lock, the rollback of a failed add and
\* the rebuilt store of the next process keep them together through crashes.
\* Excused are a write of the store that failed, a call that overlapped
\* Initialize, and a process that loaded some account twice: its deletion
\* takes one of them from the pool and both from the store.
StoreAgrees ==
    (boot = "done" /\ clean /\ mode # "env") =>
        \A e \in Emails : store[e] = IF e \in ToSet(accounts) THEN 1 ELSE 0

\* A request is only given an account that is in the pool at that moment, and
\* one that cools down only when all of them do, although the counters it is
\* judged by are kept per spelling and outlive the account.
HandsOutRested ==
    [][\A r \in Requests :
          (held'[r] # held[r] /\ held'[r] # None) =>
              /\ held'[r] \in ToSet(accounts)
              /\ InCooldown(held'[r]) => \A k \in ToSet(accounts) : InCooldown(k)
      ]_vars

\* Of accounts that have all been used, a request without a conversation gets
\* the one used longest ago.
LeastRecentServes ==
    [][\A r \in Requests :
          (GetAccountSession(r) /\ \A k \in Available({}) : lastUsed[k] > 0) =>
              \A k \in Available({}) : lastUsed[held'[r]] <= lastUsed[k]
      ]_vars

\* Seen from the requests, the pool is no more than Rotation says.
Promise == INSTANCE Rotation WITH
    ready <- initialized,
    pool <- ToSet(accounts),
    cooling <- {k \in Keys : InCooldown(k)}

ImplementsRotation == Promise!Spec
============================================================================
