------------------------------ MODULE Rotation ------------------------------
(***************************************************************************)
(* What the account pool of internal/account/service.go promises to the    *)
(* requests it serves, whatever start-up, the administrator, the store and *)
(* the clock do behind it: the pool is the guest alone or real accounts,   *)
(* an account starts to cool down only through a failure of a request that *)
(* held it, and it is not handed out again while another one is rested.    *)
(* Before Initialize has succeeded nobody is handed out, not even from a    *)
(* pool that the administrator has filled already.                         *)
(*                                                                         *)
(* AccountPool implements this specification; ChatExecution uses it.       *)
(***************************************************************************)
EXTENDS FiniteSets

CONSTANTS
    Emails,     \* real accounts
    Guest,      \* the entry of the anonymous account
    None,       \* no account
    Requests    \* handlers that may hold an account at once

Keys == Emails \cup {Guest}

VARIABLES
    ready,      \* s.initialized
    pool,       \* the accounts of the service
    cooling,    \* the accounts skipped until five minutes have passed
    held        \* the account each request works with

vars == <<ready, pool, cooling, held>>

\* The pools that start-up, adds and deletes may leave.
Pools == {{Guest}} \cup ((SUBSET Emails) \ {{}})

Init ==
    /\ ready = FALSE
    /\ pool = {}
    /\ cooling = {}
    /\ held = [r \in Requests |-> None]

Take(r, k) ==
    /\ ready
    /\ held[r] = None
    /\ held' = [held EXCEPT ![r] = k]
    /\ UNCHANGED <<ready, pool, cooling>>

Rested(excluded) == (pool \ cooling) \ excluded

\* GetAccountSessionExcluding.
TakeExcluding(r, excluded) == \E k \in Rested(excluded) : Take(r, k)

\* GetAccountSession, which serves even when every account cools down.
TakeAny(r) ==
    \/ TakeExcluding(r, {})
    \/ pool \subseteq cooling /\ \E k \in pool : Take(r, k)

\* GetAccountSessionByEmail; S holds the spellings that match.
TakeAmong(r, S) == TakeExcluding(r, Keys \ S)

\* RecordFailure: one failure more may be one too many.
RecordFailure(r) ==
    /\ held[r] # None
    /\ cooling' \in {cooling, cooling \cup {held[r]}}
    /\ held' = [held EXCEPT ![r] = None]
    /\ UNCHANGED <<ready, pool>>

\* ResetFailure.
ResetFailure(r) ==
    /\ held[r] # None
    /\ cooling' = cooling \ {held[r]}
    /\ held' = [held EXCEPT ![r] = None]
    /\ UNCHANGED <<ready, pool>>

\* The request is over and says nothing about its account.
Release(r) ==
    /\ held[r] # None
    /\ held' = [held EXCEPT ![r] = None]
    /\ UNCHANGED <<ready, pool, cooling>>

\* AddAccount, DeleteAccount and Initialize change the pool; these, time and
\* RefreshAccount let accounts rest.  Initialize also opens the pool, which is
\* never empty then; where it fails, nobody calls it again.
Change ==
    /\ pool' \in Pools \cup {pool}
    /\ ready' \in {ready, TRUE}
    /\ ready' => pool' # {}
    /\ cooling' \in SUBSET cooling
    /\ UNCHANGED held

Restart ==
    /\ ready' = FALSE
    /\ pool' = {}
    /\ cooling' = {}
    /\ held' = [r \in Requests |-> None]

Next ==
    \/ \E r \in Requests :
          \/ TakeAny(r)
          \/ \E X \in SUBSET Keys : TakeExcluding(r, X)
          \/ RecordFailure(r)
          \/ ResetFailure(r)
          \/ Release(r)
    \/ Change
    \/ Restart

Spec == Init /\ [][Next]_vars
============================================================================
