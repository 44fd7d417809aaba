------------------------ MODULE ChatExecutionProofs ------------------------
(***************************************************************************)
(* Proofs about ChatExecution, for every set of accounts, requests, hashes *)
(* and chats, and for every pool that keeps to Rotation.                   *)
(***************************************************************************)
EXTENDS ChatExecution, FiniteSetTheorems, TLAPS

----------------------------------------------------------------------------
(* The inductive invariant: whose chat a request has in hand at each point. *)

\* Chat c belongs to account k; and it holds an exchange.
Owned(c, k) == c \in Chats /\ k \in Keys /\ owner[c] = k
Known(c, k) == Owned(c, k) /\ c \in answered

\* What the sessions and the tracker keep.
Kept ==
    /\ \A h \in Hashes :
          sessions[h] # NoSession => Known(sessions[h].chat, sessions[h].account)
    /\ \A t \in tracked : Owned(t[2], t[1])

\* A mapping that is in use leads to a chat of account k, and unless k is the
\* guest, whose second attempt opens a chat of its own, it is the chat in use.
Mapped(r, k) ==
    mapping[r] # None => Known(mapping[r], k) /\ (k # Guest => chat[r] = mapping[r])

Locals(r) ==
    /\ pc[r] \in {"idle", "resolving", "looking", "choosing"} => mapping[r] = None
    /\ pc[r] \in {"looking", "saving"} => hash[r] # NoHash
    /\ pc[r] = "mapped" => Known(mapping[r], account[r])
    /\ pc[r] \in {"creating", "sending"} => held[r] \in Keys /\ Mapped(r, held[r])
    /\ pc[r] = "creating" => mapping[r] = None \/ held[r] = Guest
    /\ pc[r] \notin {"sending", "saving", "recording", "serving"} => ~tail[r]
    /\ pc[r] = "sending" => /\ Owned(chat[r], held[r])
                            /\ tail[r] => chat[r] \in answered
    /\ pc[r] \in {"saving", "recording", "serving"} =>
          Known(chat[r], account[r]) /\ Mapped(r, account[r])

IInv == TypeOK /\ Kept /\ \A r \in Requests : Locals(r)

----------------------------------------------------------------------------
(* What a step leaves alone. *)

\* Chats keep their owners and their exchanges.
Growing ==
    /\ \A c \in Chats : owner[c] \in Keys => owner'[c] = owner[c]
    /\ answered \subseteq answered'

Unmoved(r) ==
    /\ pc'[r] = pc[r]
    /\ hash'[r] = hash[r]
    /\ mapping'[r] = mapping[r]
    /\ account'[r] = account[r]
    /\ chat'[r] = chat[r]
    /\ tail'[r] = tail[r]
    /\ held'[r] = held[r]

\* A request that does not move keeps what it knows.
LEMMA Bystander ==
    ASSUME NEW r \in Requests, Locals(r), Unmoved(r), Growing
    PROVE  Locals(r)'
<1>1. ASSUME NEW c, NEW k, Owned(c, k) PROVE Owned(c, k)'
  BY <1>1 DEF Owned, Growing
<1>2. ASSUME NEW c, NEW k, Known(c, k) PROVE Known(c, k)'
  BY <1>1, <1>2 DEF Known, Growing
<1>3. ASSUME NEW k, Mapped(r, k) PROVE Mapped(r, k)'
  BY <1>2, <1>3 DEF Mapped, Unmoved
<1>4. QED
  BY <1>1, <1>2, <1>3 DEF Locals, Unmoved, Growing

\* Mappings and records that are only lost are none the worse.
LEMMA OnlyLost ==
    ASSUME Kept, Growing, tracked' \subseteq tracked,
           \A h \in Hashes : sessions'[h] \in {sessions[h], NoSession}
    PROVE  Kept'
BY DEF Kept, Known, Owned, Growing

\* A step of one request.
LEMMA OneMoves ==
    ASSUME IInv, TypeOK', Growing, Kept', NEW r \in Requests, Locals(r)',
           \A s \in Requests \ {r} : Unmoved(s)
    PROVE  IInv'
<1>1. ASSUME NEW s \in Requests PROVE Locals(s)'
  <2>1. CASE s = r
    BY <2>1
  <2>2. CASE s # r
    BY <2>2, Bystander DEF IInv
  <2>3. QED
    BY <2>1, <2>2
<1>2. QED
  BY <1>1 DEF IInv

----------------------------------------------------------------------------
(* Constants, and the start. *)

LEMMA Constants ==
    /\ None \notin Keys
    /\ None \notin Chats
    /\ IsFiniteSet(Keys)
    /\ \A S \in SUBSET Keys : S # {} => Cardinality(S) \in 1..Cardinality(Keys)
<1>1. None \notin Keys /\ None \notin Chats
  BY NoneAssumption DEF Keys
<1>2. IsFiniteSet(Keys)
  BY EmailsAssumption, FS_AddElement DEF Keys
<1>3. ASSUME NEW S \in SUBSET Keys, S # {}
      PROVE  Cardinality(S) \in 1..Cardinality(Keys)
  <2>1. IsFiniteSet(S) /\ Cardinality(S) <= Cardinality(Keys)
    BY <1>2, FS_Subset
  <2>2. Cardinality(S) \in Nat /\ Cardinality(Keys) \in Nat /\ Cardinality(S) # 0
    BY <1>2, <1>3, <2>1, FS_CardinalityType, FS_EmptySet
  <2>3. QED
    BY <2>1, <2>2
<1>4. QED
  BY <1>1, <1>2, <1>3

\* The attempts of a request are at most as many as there are accounts.
LEMMA AttemptsBounded ==
    ASSUME TypeOK PROVE MaxAttempts \in 1..Cardinality(Keys)
<1>1. Cardinality(Keys) \in Nat
  BY Constants, FS_CardinalityType
<1>2. 1 <= Cardinality(Keys)
  <2>1. Keys # {}
    BY DEF Keys
  <2>2. QED
    BY <1>1, <2>1, Constants
<1>3. QED
  BY <1>1, <1>2, Constants DEF MaxAttempts, TypeOK

LEMMA InitInv == Init => IInv
<1> SUFFICES ASSUME Init PROVE IInv
  OBVIOUS
<1> USE DEF Init, Pool!Init
<1>1. 1 \in 1..Cardinality(Keys)
  <2>1. Keys # {} /\ Cardinality(Keys) \in Nat
    BY Constants, FS_CardinalityType DEF Keys
  <2>2. QED
    BY <2>1, Constants
<1>2. TypeOK
  BY <1>1, NoneAssumption DEF TypeOK
<1>3. Kept
  BY DEF Kept
<1>4. \A r \in Requests : Locals(r)
  BY DEF Locals
<1>5. QED
  BY <1>2, <1>3, <1>4 DEF IInv

----------------------------------------------------------------------------
(* What the pool does to the accounts that are held. *)

PoolTypes == /\ ready \in BOOLEAN
             /\ pool \in SUBSET Keys
             /\ cooling \in SUBSET Keys
             /\ held \in [Requests -> Keys \cup {None}]

\* A request takes an account of the pool, or lets go of its own.
LEMMA Takes ==
    ASSUME PoolTypes, NEW r \in Requests, NEW k \in pool, Pool!Take(r, k)
    PROVE  PoolTypes' /\ held'[r] = k /\ \A s \in Requests \ {r} : held'[s] = held[s]
BY DEF PoolTypes, Pool!Take

LEMMA TakesAmong ==
    ASSUME PoolTypes, NEW r \in Requests, NEW S, Pool!TakeExcluding(r, S)
    PROVE  /\ PoolTypes'
           /\ held'[r] \in Keys \ S
           /\ \A s \in Requests \ {r} : held'[s] = held[s]
<1>1. PICK k \in (pool \ cooling) \ S : Pool!Take(r, k)
  BY DEF Pool!TakeExcluding, Pool!Rested
<1>2. QED
  BY <1>1, Takes DEF PoolTypes

LEMMA TakesAny ==
    ASSUME PoolTypes, NEW r \in Requests,
           Pool!TakeAny(r) \/ ((~ready \/ pool = {}) /\ UNCHANGED poolVars)
    PROVE  PoolTypes' /\ \A s \in Requests \ {r} : held'[s] = held[s]
<1>1. CASE Pool!TakeExcluding(r, {})
  BY <1>1, TakesAmong
<1>2. CASE \E k \in pool : Pool!Take(r, k)
  BY <1>2, Takes
<1>3. CASE UNCHANGED poolVars
  BY <1>3 DEF poolVars, PoolTypes
<1>4. QED
  BY <1>1, <1>2, <1>3 DEF Pool!TakeAny

LEMMA LetsGo ==
    ASSUME PoolTypes, NEW r \in Requests,
           \/ Pool!Release(r) \/ Pool!RecordFailure(r) \/ Pool!ResetFailure(r)
           \/ UNCHANGED poolVars
    PROVE  PoolTypes' /\ \A s \in Requests \ {r} : held'[s] = held[s]
<1>1. CASE Pool!Release(r)
  BY <1>1 DEF PoolTypes, Pool!Release
<1>2. CASE Pool!RecordFailure(r)
  BY <1>2 DEF PoolTypes, Pool!RecordFailure
<1>3. CASE Pool!ResetFailure(r)
  BY <1>3 DEF PoolTypes, Pool!ResetFailure
<1>4. CASE UNCHANGED poolVars
  BY <1>4 DEF PoolTypes, poolVars
<1>5. QED
  BY <1>1, <1>2, <1>3, <1>4

----------------------------------------------------------------------------
(* Preparation. *)

LEMMA PrepareInv ==
    ASSUME IInv, NEW r \in Requests, NEW h \in Hashes \cup {NoHash}, Prepare(r, h)
    PROVE  IInv'
<1> USE DEF IInv, Prepare
<1>1. PoolTypes' /\ \A s \in Requests \ {r} : held'[s] = held[s]
  BY TakesAny DEF PoolTypes, TypeOK
<1>2. TypeOK'
  BY <1>1 DEF TypeOK, PoolTypes, Goto, dataVars
<1>3. Growing /\ Kept'
  BY OnlyLost DEF Growing, dataVars, TypeOK
<1>4. Locals(r)'
  BY DEF Locals, Goto, TypeOK
<1>5. \A s \in Requests \ {r} : Unmoved(s)
  BY <1>1 DEF Unmoved, Goto, TypeOK
<1>6. QED
  BY <1>2, <1>3, <1>4, <1>5, OneMoves

LEMMA ResolvedInv ==
    ASSUME IInv, NEW r \in Requests, Resolved(r)
    PROVE  IInv'
<1> USE DEF IInv, Resolved
<1>1. PoolTypes' /\ \A s \in Requests \ {r} : held'[s] = held[s]
  BY LetsGo DEF PoolTypes, TypeOK
<1>2. TypeOK'
  BY <1>1, AttemptsBounded DEF TypeOK, PoolTypes, Goto, dataVars
<1>3. Growing /\ Kept'
  BY OnlyLost DEF Growing, dataVars, TypeOK
<1>4. Locals(r)'
  BY DEF Locals, Goto, TypeOK
<1>5. \A s \in Requests \ {r} : Unmoved(s)
  BY <1>1 DEF Unmoved, Goto, TypeOK
<1>6. QED
  BY <1>2, <1>3, <1>4, <1>5, OneMoves

----------------------------------------------------------------------------
(* The mapped chat, and the loop over accounts. *)

LEMMA LookUpInv ==
    ASSUME IInv, NEW r \in Requests, LookUp(r)
    PROVE  IInv'
<1> USE DEF IInv, LookUp
<1>1. hash[r] \in Hashes
  BY DEF Locals, TypeOK
<1>2. ASSUME sessions[hash[r]] # NoSession
      PROVE  /\ sessions[hash[r]] \in Session
             /\ Known(sessions[hash[r]].chat, sessions[hash[r]].account)
  BY <1>1, <1>2 DEF Kept, TypeOK
<1>3. TypeOK'
  BY <1>2 DEF TypeOK, Session, Goto, dataVars, poolVars
<1>4. Growing /\ Kept'
  BY OnlyLost DEF Growing, dataVars, TypeOK
<1>5. Locals(r)'
  <2>1. CASE sessions[hash[r]] = NoSession
    BY <2>1 DEF Locals, Goto, TypeOK
  <2>2. CASE sessions[hash[r]] # NoSession
    BY <1>2, <2>2 DEF Locals, Goto, TypeOK, Known, Owned, dataVars
  <2>3. QED
    BY <2>1, <2>2
<1>6. \A s \in Requests \ {r} : Unmoved(s)
  BY DEF Unmoved, Goto, TypeOK, poolVars
<1>7. QED
  BY <1>3, <1>4, <1>5, <1>6, OneMoves

LEMMA TakeMappedInv ==
    ASSUME IInv, NEW r \in Requests, TakeMapped(r)
    PROVE  IInv'
<1> USE DEF IInv
<1> DEFINE takes == /\ Pool!TakeAmong(r, {account[r]})
                    /\ chat' = [chat EXCEPT ![r] = mapping[r]]
                    /\ tail' = [tail EXCEPT ![r] = TRUE]
                    /\ Goto(r, "sending")
                    /\ UNCHANGED mapping
           passes == /\ mapping' = [mapping EXCEPT ![r] = None]
                     /\ Goto(r, "choosing")
                     /\ UNCHANGED <<poolVars, chat, tail>>
<1>1. /\ pc[r] = "mapped"
      /\ takes \/ passes
      /\ account' = [account EXCEPT ![r] = None]
      /\ UNCHANGED <<dataVars, hash, limit, attempted, refreshed>>
  BY DEF TakeMapped
<1>2. Known(mapping[r], account[r])
  BY <1>1 DEF Locals
<1>3. PoolTypes
  BY DEF PoolTypes, TypeOK
<1>4. Growing /\ Kept'
  BY <1>1, OnlyLost DEF Growing, dataVars, TypeOK
<1>5. CASE takes
  <2>1. /\ PoolTypes'
        /\ held'[r] \in Keys \ (Pool!Keys \ {account[r]})
        /\ \A s \in Requests \ {r} : held'[s] = held[s]
    BY <1>3, <1>5, TakesAmong DEF Pool!TakeAmong
  <2>2. held'[r] = account[r]
    BY <2>1 DEF Keys, Pool!Keys
  <2>3. TypeOK'
    BY <1>1, <1>2, <1>5, <2>1 DEF TypeOK, PoolTypes, Goto, dataVars, Known, Owned
  <2>4. Locals(r)'
    BY <1>1, <1>2, <1>5, <2>2 DEF Locals, Goto, TypeOK, Mapped, Known, Owned, dataVars
  <2>5. \A s \in Requests \ {r} : Unmoved(s)
    BY <1>1, <1>5, <2>1 DEF Unmoved, Goto, TypeOK
  <2>6. QED
    BY <1>4, <2>3, <2>4, <2>5, OneMoves
<1>6. CASE passes
  <2>1. TypeOK'
    BY <1>1, <1>6 DEF TypeOK, Goto, dataVars, poolVars
  <2>2. Locals(r)'
    BY <1>1, <1>6 DEF Locals, Goto, TypeOK
  <2>3. \A s \in Requests \ {r} : Unmoved(s)
    BY <1>1, <1>6 DEF Unmoved, Goto, TypeOK, poolVars
  <2>4. QED
    BY <1>4, <2>1, <2>2, <2>3, OneMoves
<1>7. QED
  BY <1>1, <1>5, <1>6

LEMMA ChooseInv ==
    ASSUME IInv, NEW r \in Requests, Choose(r)
    PROVE  IInv'
<1> USE DEF IInv, Choose
<1>1. /\ PoolTypes'
      /\ held'[r] \in Keys
      /\ \A s \in Requests \ {r} : held'[s] = held[s]
  BY TakesAmong DEF PoolTypes, TypeOK
<1>2. TypeOK'
  BY <1>1 DEF TypeOK, PoolTypes, Goto, dataVars, Tried
<1>3. Growing /\ Kept'
  BY OnlyLost DEF Growing, dataVars, TypeOK
<1>4. Locals(r)'
  BY <1>1 DEF Locals, Goto, TypeOK, Mapped
<1>5. \A s \in Requests \ {r} : Unmoved(s)
  BY <1>1 DEF Unmoved, Goto, TypeOK
<1>6. QED
  BY <1>2, <1>3, <1>4, <1>5, OneMoves

\* A request that is over, whatever became of its account and its mapping.
LEMMA ReturnInv ==
    ASSUME IInv, NEW r \in Requests, Return(r), Growing, Kept', PoolTypes',
           \A s \in Requests \ {r} : held'[s] = held[s],
           sessions' \in [Hashes -> Session \cup {NoSession}],
           UNCHANGED <<tracked, owner, answered>>
    PROVE  IInv'
<1> USE DEF IInv, Return
<1>1. 1 \in 1..Cardinality(Keys)
  BY AttemptsBounded, Constants, FS_CardinalityType
<1>2. TypeOK'
  BY <1>1 DEF TypeOK, PoolTypes, Goto
<1>3. Locals(r)'
  BY DEF Locals, Goto, TypeOK
<1>4. \A s \in Requests \ {r} : Unmoved(s)
  BY DEF Unmoved, Goto, TypeOK
<1>5. QED
  BY <1>2, <1>3, <1>4, OneMoves

LEMMA GiveUpInv ==
    ASSUME IInv, NEW r \in Requests, GiveUp(r)
    PROVE  IInv'
<1>1. Growing /\ Kept'
  BY OnlyLost DEF IInv, GiveUp, Growing, dataVars, TypeOK
<1>2. PoolTypes' /\ \A s \in Requests \ {r} : held'[s] = held[s]
  BY DEF IInv, GiveUp, PoolTypes, poolVars, TypeOK
<1>3. QED
  BY <1>1, <1>2, ReturnInv DEF GiveUp, dataVars, IInv, TypeOK

----------------------------------------------------------------------------
(* sendChatWithSessionAttempt. *)

LEMMA NewChatInv ==
    ASSUME IInv, NEW r \in Requests, NewChat(r)
    PROVE  IInv'
<1> USE DEF IInv
<1>1. PICK c \in Chats : /\ owner[c] = None
                         /\ owner' = [owner EXCEPT ![c] = held[r]]
                         /\ chat' = [chat EXCEPT ![r] = c]
  BY DEF NewChat
<1>2. /\ pc[r] = "creating"
      /\ Goto(r, "sending")
      /\ UNCHANGED <<poolVars, sessions, tracked, answered, hash, limit, attempted,
                     mapping, account, tail, refreshed>>
  BY DEF NewChat
<1>3. held[r] \in Keys /\ Mapped(r, held[r]) /\ (mapping[r] = None \/ held[r] = Guest)
  BY <1>2 DEF Locals
<1>4. TypeOK'
  BY <1>1, <1>2, <1>3 DEF TypeOK, Goto, poolVars
<1>5. Growing
  BY <1>1, <1>2, Constants DEF Growing, TypeOK
<1>6. Kept'
  BY <1>2, <1>5, OnlyLost
<1>7. Locals(r)'
  <2>1. pc'[r] = "sending" /\ chat'[r] = c /\ held' = held /\ mapping' = mapping
    BY <1>1, <1>2 DEF Goto, TypeOK, poolVars
  <2>2. Owned(chat[r], held[r])'
    BY <1>1, <1>2, <1>3, <2>1 DEF Owned, TypeOK
  <2>3. Mapped(r, held[r])'
    BY <1>2, <1>3, <1>5, <2>1 DEF Mapped, Known, Owned, Growing
  <2>4. ~tail'[r]
    BY <1>2 DEF Locals
  <2>5. QED
    BY <1>3, <2>1, <2>2, <2>3, <2>4 DEF Locals
<1>8. \A s \in Requests \ {r} : Unmoved(s)
  BY <1>1, <1>2 DEF Unmoved, Goto, TypeOK, poolVars
<1>9. QED
  BY <1>4, <1>5, <1>6, <1>7, <1>8, OneMoves

LEMMA SucceedInv ==
    ASSUME IInv, NEW r \in Requests, Succeed(r)
    PROVE  IInv'
<1> USE DEF IInv, Succeed
<1>1. PoolTypes' /\ \A s \in Requests \ {r} : held'[s] = held[s]
  BY LetsGo DEF PoolTypes, TypeOK
<1>2. Owned(chat[r], held[r]) /\ Mapped(r, held[r])
  BY DEF Locals
<1>3. TypeOK'
  BY <1>1, <1>2 DEF TypeOK, PoolTypes, Goto, Owned
<1>4. Growing
  BY DEF Growing
<1>5. Kept'
  BY <1>4, OnlyLost DEF TypeOK
<1>6. Locals(r)'
  <2>1. account'[r] = held[r] /\ chat'[r] = chat[r] /\ mapping'[r] = mapping[r]
    BY DEF TypeOK
  <2>2. Known(chat[r], account[r])'
    BY <1>2, <2>1 DEF Known, Owned
  <2>3. Mapped(r, account[r])'
    BY <1>2, <2>1 DEF Mapped, Known, Owned
  <2>4. pc'[r] \in {"saving", "serving"} /\ (pc'[r] = "saving" => hash'[r] # NoHash)
    BY DEF Goto, TypeOK
  <2>5. QED
    BY <2>2, <2>3, <2>4 DEF Locals
<1>7. \A s \in Requests \ {r} : Unmoved(s)
  BY <1>1 DEF Unmoved, Goto, TypeOK
<1>8. QED
  BY <1>3, <1>4, <1>5, <1>6, <1>7, OneMoves

LEMMA RefreshGuestInv ==
    ASSUME IInv, NEW r \in Requests, RefreshGuest(r)
    PROVE  IInv'
<1> USE DEF IInv, RefreshGuest
<1>1. TypeOK'
  BY DEF TypeOK, Goto, dataVars, NotTail
<1>2. Growing /\ Kept'
  BY OnlyLost DEF Growing, dataVars, TypeOK
<1>3. Locals(r)'
  <2>1. /\ pc'[r] = "creating" /\ held'[r] = Guest
        /\ mapping'[r] = mapping[r] /\ ~tail'[r]
    BY DEF Goto, TypeOK, NotTail
  <2>2. Mapped(r, held[r])'
    BY <2>1 DEF Locals, Mapped, Known, Owned, dataVars
  <2>3. QED
    BY <2>1, <2>2 DEF Locals, Keys
<1>4. \A s \in Requests \ {r} : Unmoved(s)
  BY DEF Unmoved, Goto, TypeOK
<1>5. QED
  BY <1>1, <1>2, <1>3, <1>4, OneMoves

\* An attempt that is followed by another one.
LEMMA AgainInv ==
    ASSUME IInv, NEW r \in Requests, Again(r), Growing, Kept', PoolTypes',
           \A s \in Requests \ {r} : held'[s] = held[s],
           sessions' \in [Hashes -> Session \cup {NoSession}],
           attempted' \in [Requests -> SUBSET Keys],
           UNCHANGED <<tracked, owner, answered>>
    PROVE  IInv'
<1> USE DEF IInv, Again, NoMapping
<1>1. TypeOK'
  BY DEF TypeOK, PoolTypes, Goto
<1>2. Locals(r)'
  BY DEF Locals, Goto, TypeOK
<1>3. \A s \in Requests \ {r} : Unmoved(s)
  BY DEF Unmoved, Goto, TypeOK
<1>4. QED
  BY <1>1, <1>2, <1>3, OneMoves

\* Deleting a mapping with its aliases only loses mappings.
LEMMA AliasesGo ==
    ASSUME TypeOK, NEW h, sessions' \in {sessions, WithoutAliases(h)}
    PROVE  /\ sessions' \in [Hashes -> Session \cup {NoSession}]
           /\ \A g \in Hashes : sessions'[g] \in {sessions[g], NoSession}
<1>1. CASE sessions' = sessions
  BY <1>1 DEF TypeOK
<1>2. CASE sessions' = WithoutAliases(h)
  BY <1>2 DEF TypeOK, WithoutAliases
<1>3. QED
  BY <1>1, <1>2

LEMMA MappedFailsInv ==
    ASSUME IInv, NEW r \in Requests, MappedFails(r)
    PROVE  IInv'
<1> USE DEF IInv
<1>1. UNCHANGED <<tracked, owner, answered>> /\ Growing
  BY DEF MappedFails, Growing
<1>2. held[r] \in Keys /\ PoolTypes
  BY DEF MappedFails, Locals, TypeOK, PoolTypes
<1>3. CASE /\ sessions' = WithoutAliases(hash[r])
           /\ Pool!Release(r)
           /\ Again(r)
           /\ UNCHANGED attempted
  <2>1. PoolTypes' /\ \A s \in Requests \ {r} : held'[s] = held[s]
    BY <1>2, <1>3, LetsGo
  <2>2. /\ sessions' \in [Hashes -> Session \cup {NoSession}]
        /\ Kept'
    BY <1>1, <1>3, AliasesGo, OnlyLost
  <2>3. attempted' \in [Requests -> SUBSET Keys]
    BY <1>3 DEF TypeOK
  <2>4. QED
    BY <1>1, <1>3, <2>1, <2>2, <2>3, AgainInv
<1>4. CASE /\ attempted' = [attempted EXCEPT ![r] = Tried(r, held[r])]
           /\ Pool!RecordFailure(r)
           /\ Again(r)
           /\ UNCHANGED sessions
  <2>1. PoolTypes' /\ \A s \in Requests \ {r} : held'[s] = held[s]
    BY <1>2, <1>4, LetsGo
  <2>2. /\ sessions' \in [Hashes -> Session \cup {NoSession}]
        /\ Kept'
    BY <1>1, <1>4, OnlyLost DEF TypeOK
  <2>3. attempted' \in [Requests -> SUBSET Keys]
    BY <1>2, <1>4 DEF TypeOK, Tried
  <2>4. QED
    BY <1>1, <1>4, <2>1, <2>2, <2>3, AgainInv
<1>5. CASE Pool!Release(r) /\ Return(r) /\ UNCHANGED sessions
  <2>1. PoolTypes' /\ \A s \in Requests \ {r} : held'[s] = held[s]
    BY <1>2, <1>5, LetsGo
  <2>2. /\ sessions' \in [Hashes -> Session \cup {NoSession}]
        /\ Kept'
    BY <1>1, <1>5, OnlyLost DEF TypeOK
  <2>3. QED
    BY <1>1, <1>5, <2>1, <2>2, ReturnInv
<1>6. QED
  BY <1>3, <1>4, <1>5 DEF MappedFails

LEMMA AttemptFailsInv ==
    ASSUME IInv, NEW r \in Requests, AttemptFails(r)
    PROVE  IInv'
<1> USE DEF IInv
<1>1. UNCHANGED <<tracked, owner, answered>> /\ Growing
  BY DEF AttemptFails, Growing
<1>2. PoolTypes' /\ \A s \in Requests \ {r} : held'[s] = held[s]
  BY LetsGo DEF AttemptFails, TypeOK, PoolTypes
<1>3. sessions' \in {sessions, WithoutAliases(hash[r])}
  BY DEF AttemptFails
<1>4. /\ sessions' \in [Hashes -> Session \cup {NoSession}]
      /\ Kept'
  BY <1>1, <1>3, AliasesGo, OnlyLost
<1>5. CASE Again(r) /\ UNCHANGED attempted
  <2>1. attempted' \in [Requests -> SUBSET Keys]
    BY <1>5 DEF TypeOK
  <2>2. QED
    BY <1>1, <1>2, <1>4, <1>5, <2>1, AgainInv
<1>6. CASE Return(r)
  BY <1>1, <1>2, <1>4, <1>6, ReturnInv
<1>7. QED
  BY <1>5, <1>6 DEF AttemptFails

----------------------------------------------------------------------------
(* After the answer. *)

\* What is mapped and tracked belongs to the account that answered.
LEMMA SavedIsKnown ==
    ASSUME NEW r \in Requests, Locals(r), pc[r] \in {"saving", "recording"}
    PROVE  /\ Known(ChatToSave(r), account[r])
           /\ account[r] # Guest => ChatToSave(r) = chat[r]
BY DEF Locals, Mapped, ChatToSave

LEMMA SaveInv ==
    ASSUME IInv, NEW r \in Requests, Save(r)
    PROVE  IInv'
<1> USE DEF IInv, Save
<1> DEFINE saved == [account |-> account[r], chat |-> ChatToSave(r)]
<1>1. hash[r] \in Hashes /\ Known(ChatToSave(r), account[r])
  BY SavedIsKnown DEF Locals, TypeOK
<1>2. saved \in Session
  BY <1>1 DEF Session, Known, Owned
<1>3. TypeOK'
  BY <1>2 DEF TypeOK, Goto, poolVars
<1>4. Growing
  BY DEF Growing
<1>5. Kept'
  BY <1>1, <1>2 DEF Kept, Known, Owned, TypeOK
<1>6. Locals(r)'
  BY DEF Locals, Goto, TypeOK, Mapped, Known, Owned
<1>7. \A s \in Requests \ {r} : Unmoved(s)
  BY DEF Unmoved, Goto, TypeOK, poolVars
<1>8. QED
  BY <1>3, <1>4, <1>5, <1>6, <1>7, OneMoves

LEMMA RecordInv ==
    ASSUME IInv, NEW r \in Requests, Record(r)
    PROVE  IInv'
<1> USE DEF IInv, Record
<1>1. Owned(ChatToSave(r), account[r])
  BY SavedIsKnown DEF Known
<1>2. TypeOK'
  BY <1>1 DEF TypeOK, Goto, poolVars, Owned
<1>3. Growing
  BY DEF Growing
<1>4. Kept'
  BY <1>1 DEF Kept, Known, Owned, TypeOK
<1>5. Locals(r)'
  BY DEF Locals, Goto, TypeOK, Mapped, Known, Owned
<1>6. \A s \in Requests \ {r} : Unmoved(s)
  BY DEF Unmoved, Goto, TypeOK, poolVars
<1>7. QED
  BY <1>2, <1>3, <1>4, <1>5, <1>6, OneMoves

LEMMA FinishInv ==
    ASSUME IInv, NEW r \in Requests, Finish(r)
    PROVE  IInv'
<1> USE DEF IInv
<1>1. /\ Return(r) /\ Growing
      /\ UNCHANGED <<tracked, owner, answered>>
      /\ PoolTypes'
      /\ \A s \in Requests \ {r} : held'[s] = held[s]
  BY DEF Finish, Growing, poolVars, PoolTypes, TypeOK
<1>2. Known(chat[r], account[r])
  BY DEF Finish, Locals
<1>3. CASE UNCHANGED sessions
  BY <1>1, <1>3, OnlyLost, ReturnInv DEF TypeOK
<1>4. ASSUME NEW g \in Hashes \ {hash[r]},
             sessions' = [h \in Hashes |->
                IF h \in {g, hash[r]}
                THEN [account |-> account[r], chat |-> chat[r]]
                ELSE sessions[h]]
      PROVE  IInv'
  <2>1. sessions' \in [Hashes -> Session \cup {NoSession}]
    BY <1>2, <1>4 DEF TypeOK, Session, Known, Owned
  <2>2. Kept'
    BY <1>1, <1>2, <1>4 DEF Kept, Known, Owned
  <2>3. QED
    BY <1>1, <2>1, <2>2, ReturnInv
<1>5. QED
  BY <1>3, <1>4 DEF Finish

----------------------------------------------------------------------------
(* The rest of the program. *)

LEMMA PoolChangesInv == ASSUME IInv, PoolChanges PROVE IInv'
<1> USE DEF IInv, PoolChanges
<1>1. TypeOK'
  BY DEF TypeOK, Pool!Change, Pool!Pools, dataVars, Keys
<1>2. Growing /\ Kept'
  BY OnlyLost DEF Growing, dataVars, TypeOK
<1>3. ASSUME NEW r \in Requests PROVE Locals(r)'
  BY <1>2, Bystander DEF Unmoved, Pool!Change
<1>4. QED
  BY <1>1, <1>2, <1>3

LEMMA MappingLostInv == ASSUME IInv, MappingLost PROVE IInv'
<1> USE DEF IInv, MappingLost
<1>1. TypeOK'
  BY DEF TypeOK, poolVars, OnlyHash
<1>2. Growing /\ Kept'
  BY OnlyLost DEF Growing, OnlyHash, TypeOK
<1>3. ASSUME NEW r \in Requests PROVE Locals(r)'
  BY <1>2, Bystander DEF Unmoved, poolVars
<1>4. QED
  BY <1>1, <1>2, <1>3

LEMMA RestartInv == ASSUME IInv, Restart PROVE IInv'
<1> USE DEF IInv, Restart
<1>1. 1 \in 1..Cardinality(Keys)
  BY AttemptsBounded, Constants, FS_CardinalityType
<1>2. TypeOK'
  BY <1>1 DEF TypeOK, Pool!Restart
<1>3. Growing
  BY DEF Growing
<1>4. Kept'
  BY <1>3, OnlyLost DEF TypeOK
<1>5. \A r \in Requests : Locals(r)'
  BY DEF Locals
<1>6. QED
  BY <1>2, <1>4, <1>5

LEMMA StutterInv == ASSUME IInv, UNCHANGED vars PROVE IInv'
<1> USE DEF IInv, vars, poolVars, dataVars
<1>1. TypeOK'
  BY DEF TypeOK
<1>2. Growing /\ Kept'
  BY OnlyLost DEF Growing, TypeOK
<1>3. ASSUME NEW r \in Requests PROVE Locals(r)'
  BY <1>2, Bystander DEF Unmoved
<1>4. QED
  BY <1>1, <1>2, <1>3

LEMMA NextInv == IInv /\ [Next]_vars => IInv'
<1> SUFFICES ASSUME IInv, [Next]_vars PROVE IInv'
  OBVIOUS
<1>1. ASSUME NEW r \in Requests, NEW h \in Hashes \cup {NoHash}, Prepare(r, h)
      PROVE  IInv'
  BY <1>1, PrepareInv
<1>2. ASSUME NEW r \in Requests, Step(r) PROVE IInv'
  BY <1>2, ResolvedInv, LookUpInv, TakeMappedInv, ChooseInv, GiveUpInv, NewChatInv,
     SucceedInv, RefreshGuestInv, MappedFailsInv, AttemptFailsInv, SaveInv, RecordInv,
     FinishInv DEF Step
<1>3. QED
  BY <1>1, <1>2, PoolChangesInv, MappingLostInv, RestartInv, StutterInv DEF Next

----------------------------------------------------------------------------
(* Theorems. *)

\* The inductive invariant of executeChatRequest.
THEOREM Invariance == Spec => []IInv
BY InitInv, NextInv, PTL DEF Spec

\* Every variable of executeChatRequest keeps its type; above all, no lookup in
\* the sessions is made without a hash, and maxAttempts stays within the pool.
THEOREM TypeCorrect == Spec => []TypeOK
<1>1. IInv => TypeOK
  BY DEF IInv
<1>2. QED
  BY <1>1, Invariance, PTL

\* Whatever fails over, is retried, expires or crashes meanwhile, the sessions and
\* the tracker name every chat with the account that owns it.
THEOREM OwnChatHolds == Spec => []OwnChat
<1>1. IInv => OwnChat
  BY DEF IInv, Kept, Known, Owned, OwnChat
<1>2. QED
  BY <1>1, Invariance, PTL

\* sendChatWithSessionAttempt never sends the tail of a conversation into a chat
\* without an exchange.
THEOREM TailNeedsHistoryHolds == Spec => []TailNeedsHistory
<1>1. IInv => TailNeedsHistory
  BY DEF IInv, Locals, TailNeedsHistory
<1>2. QED
  BY <1>1, Invariance, PTL

\* The chat that answered a real account's request is the one that is mapped and
\* tracked for it.
THEOREM RealSavesAnswerHolds == Spec => RealSavesAnswer
<1>1. ASSUME IInv, NEW r \in Requests, account[r] # Guest PROVE SavesAnswer(r)
  <2>1. ASSUME Save(r)
        PROVE  sessions'[hash[r]] = [account |-> account[r], chat |-> chat[r]]
    <3>1. hash[r] \in Hashes /\ ChatToSave(r) = chat[r]
      BY <1>1, <2>1, SavedIsKnown DEF IInv, Save, Locals, TypeOK
    <3>2. QED
      BY <1>1, <2>1, <3>1 DEF IInv, Save, TypeOK
  <2>2. ASSUME Record(r) PROVE <<account[r], chat[r]>> \in tracked'
    BY <1>1, <2>2, SavedIsKnown DEF IInv, Record
  <2>3. QED
    BY <2>1, <2>2 DEF SavesAnswer
<1>2. IInv => [\A r \in Requests : account[r] # Guest => SavesAnswer(r)]_vars
  BY <1>1
<1>3. QED
  BY <1>2, Invariance, PTL DEF RealSavesAnswer

\* Over an initialized pool the loop ends only when every rested account has been tried:
\* an account that is left is one more than those tried, and they use up the attempts.
THEOREM TriesEveryoneHolds == Spec => TriesEveryone
<1>1. ASSUME IInv, NEW r \in Requests, ready, GiveUp(r),
             Cardinality(pool \cup attempted[r]) <= limit[r]
      PROVE  Pool!Rested(attempted[r]) = {}
  <2> DEFINE tried == attempted[r]
             all == pool \cup tried
  <2>1. tried \in SUBSET Keys /\ all \in SUBSET Keys /\ limit[r] \in Nat
    BY <1>1, Constants, FS_CardinalityType DEF IInv, TypeOK
  <2> HIDE DEF tried
  <2>2. ASSUME NEW k \in Pool!Rested(tried)
        PROVE  Cardinality(tried) < limit[r]
    <3>1. tried \cup {k} \in SUBSET all /\ k \notin tried
      BY <2>2 DEF Pool!Rested
    <3>2. IsFiniteSet(tried) /\ IsFiniteSet(all)
      <4> HIDE DEF all
      <4>1. QED
        BY <2>1, Constants, FS_Subset
    <3>3. Cardinality(tried \cup {k}) = Cardinality(tried) + 1 /\ Cardinality(tried) \in Nat
      BY <3>1, <3>2, FS_AddElement, FS_CardinalityType
    <3>4. Cardinality(tried \cup {k}) <= Cardinality(all) /\ Cardinality(all) \in Nat
      <4> HIDE DEF all
      <4>1. QED
        BY <3>1, <3>2, FS_Subset, FS_CardinalityType
    <3>5. Cardinality(all) <= limit[r]
      BY <1>1 DEF tried
    <3>6. QED
      BY <2>1, <3>3, <3>4, <3>5
  <2>3. Cardinality(tried) >= limit[r] \/ Pool!Rested(tried) = {}
    BY <1>1 DEF GiveUp, Exhausted, tried
  <2>4. Pool!Rested(tried) = {}
    <3>1. ASSUME Pool!Rested(tried) # {} PROVE FALSE
      <4>1. PICK k \in Pool!Rested(tried) : TRUE
        BY <3>1
      <4>2. Cardinality(tried) < limit[r] /\ Cardinality(tried) >= limit[r]
        BY <2>2, <2>3, <3>1, <4>1
      <4>3. Cardinality(tried) \in Nat
        BY <2>1, Constants, FS_Subset, FS_CardinalityType
      <4>4. QED
        BY <2>1, <4>2, <4>3
    <3>2. QED
      BY <3>1
  <2>5. QED
    BY <2>4 DEF tried
<1>2. IInv => [\A r \in Requests :
                  (ready /\ GiveUp(r) /\ Cardinality(pool \cup attempted[r]) <= limit[r])
                      => Pool!Rested(attempted[r]) = {}]_vars
  BY <1>1
<1>3. QED
  BY <1>2, Invariance, PTL DEF TriesEveryone

============================================================================
