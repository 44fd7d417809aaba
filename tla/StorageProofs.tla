--------------------------- MODULE StorageProofs ----------------------------
(***************************************************************************)
(* Theorems about what internal/storage keeps: the data file, of which     *)
(* calls of the two stores that do not overlap lose nothing, and the       *)
(* records of the chat tracker, of which the cleaner drops none too early. *)
(***************************************************************************)
EXTENDS DataFile, ChatCleanup, TLAPS, FiniteSetTheorems, SequenceTheorems

(* SequentialCallsKeep speaks of moments between calls.  To show that it is  *)
(* kept, the invariant has to follow a call through its steps: what it holds *)
(* in "data" is what the calls before it left, with its own change made, and *)
(* the file is whole until it truncates it.                                  *)

Applied(s) == [expected EXCEPT ![s] = (@ \cap keep[s]) \cup add[s]]

\* The file holds what the calls that returned made of it.
Whole == file = expected \/ (file = Missing /\ expected = Default)

OneCall == \A s, t \in Stores : pc[s] # "idle" /\ pc[t] # "idle" => s = t

CallKeeps(s) ==
    /\ pc[s] = "reading" => file # Missing
    /\ pc[s] = "writing" => file = Empty
    /\ pc[s] \in {"truncating", "writing"} =>
          data[s] = IF creating[s] THEN Default ELSE Applied(s)
    /\ (pc[s] \in {"truncating", "writing"} /\ creating[s]) => expected = Default

Alone ==
    alone =>
        /\ OneCall
        /\ (\A s \in Stores : pc[s] # "writing") => Whole
        /\ \A s \in Stores : CallKeeps(s)

IInv == TypeOK /\ Alone

----------------------------------------------------------------------------
\* A set of entries of a half, restricted and extended by entries of it, is
\* one: what a call writes has the type of the file.
LEMMA AppliedType ==
    ASSUME NEW f \in FileData, NEW s \in Stores, NEW k, NEW a,
           a \subseteq Entries[s]
    PROVE  [f EXCEPT ![s] = (@ \cap k) \cup a] \in FileData
<1>1. f = [accounts |-> f.accounts, sessions |-> f.sessions]
      /\ f.accounts \subseteq Accounts /\ f.sessions \subseteq Sessions
  BY DEF FileData
<1>2. CASE s = "accounts"
  BY <1>1, <1>2 DEF FileData, Entries
<1>3. CASE s = "sessions"
  BY <1>1, <1>3 DEF FileData, Entries
<1>4. QED
  BY <1>2, <1>3 DEF Stores

LEMMA DefaultType == Default \in FileData
  BY DEF Default, FileData

\* TypeOK holds initially.
LEMMA InitType == Init => TypeOK
  BY FileAssumption, DefaultType DEF Init, TypeOK, Stores

\* A call that returns leaves well-typed locals.
LEMMA ReturnType ==
    ASSUME TypeOK, NEW s \in Stores, Return(s)
    PROVE  /\ pc' \in [Stores -> {"idle", "checking", "reading", "truncating",
                                  "writing"}]
           /\ \A t \in Stores : keep'[t] \subseteq Entries[t] /\ add'[t] \subseteq Entries[t]
           /\ data' \in [Stores -> FileData]
           /\ creating' \in [Stores -> BOOLEAN]
           /\ \A t \in Stores : creating'[t] => pc'[t] \in {"truncating", "writing"}
  BY DefaultType DEF TypeOK, Return, Goto

\* Every step keeps the types.
LEMMA StepType == TypeOK /\ [Next]_vars => TypeOK'
<1> SUFFICES ASSUME TypeOK, [Next]_vars
             PROVE  TypeOK'
  OBVIOUS
<1>1. ASSUME NEW s \in Stores, NEW k \in SUBSET Entries[s],
             NEW a \in SUBSET Entries[s], Call(s, k, a)
      PROVE  TypeOK'
  BY <1>1 DEF TypeOK, Call, Goto
<1>2. ASSUME NEW s \in Stores, Ensure(s)
      PROVE  TypeOK'
  BY <1>2, DefaultType DEF TypeOK, Ensure, Goto
<1>3. ASSUME NEW s \in Stores, Read(s)
      PROVE  TypeOK'
  <2>1. CASE keep[s] = Entries[s] /\ add[s] = {}
    BY <1>3, <2>1, ReturnType DEF TypeOK, Read
  <2>2. CASE ~(keep[s] = Entries[s] /\ add[s] = {})
    <3>1. Changed(s) \in FileData
      BY <1>3, AppliedType DEF TypeOK, Read, Changed
    <3>2. QED
      BY <1>3, <2>2, <3>1 DEF TypeOK, Read, Goto
  <2>3. QED
    BY <2>1, <2>2
<1>4. ASSUME NEW s \in Stores, ReadFails(s)
      PROVE  TypeOK'
  BY <1>4, ReturnType DEF TypeOK, ReadFails
<1>5. ASSUME NEW s \in Stores, Truncate(s)
      PROVE  TypeOK'
  BY <1>5 DEF TypeOK, Truncate, Goto
<1>6. ASSUME NEW s \in Stores, CreatedDefault(s)
      PROVE  TypeOK'
  BY <1>6 DEF TypeOK, CreatedDefault, Goto, Written, NotCreating
<1>7. ASSUME NEW s \in Stores, Write(s)
      PROVE  TypeOK'
  <2>1. expected' \in FileData
    BY <1>7, AppliedType DEF TypeOK, Write
  <2>2. file' \in FileData \cup {Missing, Empty, Garbled}
    BY <1>7 DEF TypeOK, Write, Written
  <2>3. QED
    BY <1>7, <2>1, <2>2, ReturnType DEF TypeOK, Write
<1>8. ASSUME NEW s \in Stores, WriteFails(s)
      PROVE  TypeOK'
  <2>1. faults' \in 0..MaxFaults
    BY <1>8, FileAssumption DEF TypeOK, WriteFails
  <2>2. QED
    BY <1>8, <2>1, ReturnType DEF TypeOK, WriteFails
<1>9. CASE Crash
  <2>1. faults' \in 0..MaxFaults
    BY <1>9, FileAssumption DEF TypeOK, Crash
  <2>2. QED
    BY <1>9, <2>1, DefaultType DEF TypeOK, Crash
<1>10. CASE UNCHANGED vars
  BY <1>10 DEF TypeOK, vars
<1>11. CASE Next
  <2>1. ASSUME NEW s \in Stores, NEW e \in Entries[s], Save(s, e) \/ Delete(s, e)
        PROVE  TypeOK'
    BY <2>1, <1>1 DEF Save, Delete
  <2>2. ASSUME NEW s \in Stores, Load(s)
        PROVE  TypeOK'
    BY <2>2, <1>1 DEF Load
  <2>3. ASSUME NEW S \in SUBSET Accounts, SaveAllAccounts(S)
        PROVE  TypeOK'
    <3>1. "accounts" \in Stores /\ Entries["accounts"] = Accounts
      BY DEF Stores, Entries
    <3>2. QED
      BY <2>3, <3>1, <1>1 DEF SaveAllAccounts
  <2>4. QED
    BY <1>11, <1>2, <1>3, <1>4, <1>5, <1>6, <1>7, <1>8, <1>9, <2>1, <2>2, <2>3
       DEF Next
<1>12. QED
  BY <1>10, <1>11

\* What a call finds when it is the only one: its locals and, where pc says
\* so, the file.
LEMMA InitAlone == Init => Alone
  BY DEF Init, Alone, OneCall, Whole, CallKeeps

\* A call that begins while another runs ends "alone"; one that does not
\* finds the file whole.
LEMMA CallAlone ==
    ASSUME IInv, NEW s \in Stores, NEW k, NEW a, Call(s, k, a)
    PROVE  Alone'
<1> SUFFICES ASSUME alone'
             PROVE  OneCall' /\ Whole' /\ \A t \in Stores : CallKeeps(t)'
  BY DEF Alone
<1>1. alone /\ (\A t \in Stores : pc[t] = "idle") /\ pc' = [pc EXCEPT ![s] = "checking"]
      /\ Whole /\ UNCHANGED <<file, expected>>
  BY DEF IInv, Alone, Call, Goto
<1>2. \A t \in Stores : pc'[t] \in {"idle", "checking"} /\ (pc'[t] # "idle" => t = s)
  BY <1>1 DEF IInv, TypeOK
<1>3. QED
  BY <1>1, <1>2 DEF OneCall, Whole, CallKeeps

\* A step of a running call: no other call runs, before it or after.
LEMMA Lonely ==
    ASSUME IInv, alone, NEW s \in Stores, pc[s] # "idle", NEW l,
           pc' = [pc EXCEPT ![s] = l]
    PROVE  /\ \A t \in Stores \ {s} : pc[t] = "idle" /\ pc'[t] = "idle"
           /\ pc'[s] = l
           /\ OneCall'
  BY DEF IInv, Alone, OneCall, TypeOK

\* A call that returns leaves the file whole if it is.
LEMMA ReturnAlone ==
    ASSUME IInv, alone, NEW s \in Stores, pc[s] # "idle", Return(s), Whole'
    PROVE  Alone'
<1>1. /\ \A t \in Stores : pc'[t] = "idle"
      /\ OneCall'
  BY Lonely DEF Return, Goto
<1>2. QED
  BY <1>1 DEF Alone, CallKeeps

\* Every step keeps "Alone".
LEMMA StepAlone == IInv /\ [Next]_vars => Alone'
<1> SUFFICES ASSUME IInv, [Next]_vars, alone'
             PROVE  Alone'
  BY DEF Alone
<1>2. ASSUME NEW s \in Stores, Ensure(s)
      PROVE  Alone'
  <2>1. alone /\ pc[s] = "checking" /\ UNCHANGED <<file, expected, keep, add>>
    BY <1>2 DEF Ensure
  <2>2. Whole /\ Whole'
    BY <2>1, Lonely DEF IInv, Alone, OneCall, Whole
  <2>3. CASE file = Missing
    <3>1. pc' = [pc EXCEPT ![s] = "truncating"]
      BY <1>2, <2>3 DEF Ensure, Goto
    <3>2. data'[s] = Default /\ creating'[s] /\ expected' = Default
      BY <1>2, <2>1, <2>2, <2>3, FileAssumption DEF Ensure, IInv, TypeOK, Whole
    <3>3. QED
      BY <2>1, <2>2, <3>1, <3>2, Lonely DEF Alone, CallKeeps
  <2>4. CASE file # Missing
    <3>1. pc' = [pc EXCEPT ![s] = "reading"]
      BY <1>2, <2>4 DEF Ensure, Goto
    <3>2. QED
      BY <2>1, <2>2, <2>4, <3>1, Lonely DEF Alone, CallKeeps
  <2>5. QED
    BY <2>3, <2>4
<1>3. ASSUME NEW s \in Stores, Read(s)
      PROVE  Alone'
  <2>1. alone /\ pc[s] = "reading" /\ file \in FileData /\ UNCHANGED <<file, expected>>
    BY <1>3 DEF Read
  <2>2. file = expected /\ Whole'
    BY <2>1, FileAssumption DEF IInv, Alone, OneCall, Whole
  <2>3. CASE keep[s] = Entries[s] /\ add[s] = {}
    BY <1>3, <2>1, <2>2, <2>3, ReturnAlone DEF Read
  <2>4. CASE ~(keep[s] = Entries[s] /\ add[s] = {})
    <3>1. /\ pc' = [pc EXCEPT ![s] = "truncating"]
          /\ data' = [data EXCEPT ![s] = Changed(s)]
          /\ UNCHANGED <<keep, add, creating>>
      BY <1>3, <2>4 DEF Read, Goto
    <3>2. ~creating'[s] /\ data'[s] = Applied(s)'
      BY <2>1, <2>2, <3>1 DEF IInv, TypeOK, Changed, Applied
    <3>3. QED
      BY <2>1, <2>2, <3>1, <3>2, Lonely DEF Alone, CallKeeps
  <2>5. QED
    BY <2>3, <2>4
<1>4. ASSUME NEW s \in Stores, ReadFails(s)
      PROVE  Alone'
  <2>1. alone /\ pc[s] = "reading" /\ UNCHANGED <<file, expected>>
    BY <1>4 DEF ReadFails
  <2>2. Whole'
    BY <2>1 DEF IInv, Alone, OneCall, Whole
  <2>3. QED
    BY <1>4, <2>1, <2>2, ReturnAlone DEF ReadFails
<1>5. ASSUME NEW s \in Stores, Truncate(s)
      PROVE  Alone'
  <2>1. /\ alone /\ pc[s] = "truncating" /\ pc' = [pc EXCEPT ![s] = "writing"]
        /\ file' = Empty
        /\ UNCHANGED <<keep, add, data, creating, expected>>
    BY <1>5 DEF Truncate, Goto
  <2>2. CallKeeps(s)'
    BY <2>1, Lonely DEF IInv, Alone, CallKeeps, Applied
  <2>3. QED
    BY <2>1, <2>2, Lonely DEF Alone, CallKeeps
<1>6. ASSUME NEW s \in Stores, CreatedDefault(s)
      PROVE  Alone'
  <2>1. /\ alone /\ pc[s] = "writing" /\ creating[s]
        /\ pc' = [pc EXCEPT ![s] = "reading"]
        /\ file' \in Written(data[s])
        /\ UNCHANGED <<expected>>
    BY <1>6 DEF CreatedDefault, Goto
  <2>2. file = Empty /\ data[s] = Default /\ expected = Default
    BY <2>1 DEF IInv, Alone, CallKeeps
  <2>3. file' = Default
    BY <2>1, <2>2, FileAssumption DEF Written, MayBeLonger
  <2>4. Whole' /\ file' # Missing
    BY <2>1, <2>2, <2>3, DefaultType, FileAssumption DEF Whole
  <2>5. QED
    BY <2>1, <2>4, Lonely DEF Alone, CallKeeps
<1>7. ASSUME NEW s \in Stores, Write(s)
      PROVE  Alone'
  <2>1. /\ alone /\ pc[s] = "writing" /\ ~creating[s]
        /\ file' \in Written(data[s])
        /\ expected' = Applied(s)
    BY <1>7 DEF Write, Applied
  <2>2. file = Empty /\ data[s] = Applied(s)
    BY <2>1 DEF IInv, Alone, CallKeeps
  <2>3. file' = data[s]
    BY <2>1, <2>2, FileAssumption DEF Written, MayBeLonger
  <2>4. QED
    BY <1>7, <2>1, <2>2, <2>3, ReturnAlone DEF Write, Whole
<1>8. ASSUME NEW s \in Stores, WriteFails(s)
      PROVE  Alone'
  BY <1>8 DEF WriteFails, Alone
<1>9. CASE Crash
  <2>1. alone /\ (\A s \in Stores : pc[s] # "writing") /\ UNCHANGED <<file, expected>>
        /\ \A s \in Stores : pc'[s] = "idle"
    BY <1>9 DEF Crash
  <2>2. QED
    BY <2>1 DEF IInv, Alone, OneCall, Whole, CallKeeps
<1>10. CASE UNCHANGED vars
  BY <1>10 DEF vars, IInv, Alone, OneCall, Whole, CallKeeps, Applied
<1>11. CASE Next
  BY <1>11, <1>2, <1>3, <1>4, <1>5, <1>6, <1>7, <1>8, <1>9, CallAlone
     DEF Next, Save, Delete, Load, SaveAllAccounts, Stores
<1>12. QED
  BY <1>10, <1>11

\* Types, and how far the file and the running call are, at every moment.
THEOREM Invariance == Spec => []IInv
<1>1. Init => IInv
  BY InitType, InitAlone DEF IInv
<1>2. IInv /\ [Next]_vars => IInv'
  BY StepType, StepAlone DEF IInv
<1>3. QED
  BY <1>1, <1>2, PTL DEF Spec

\* Every variable has its type.
THEOREM TypeCorrect == Spec => []TypeOK
<1>1. IInv => TypeOK
  BY DEF IInv
<1>2. QED
  BY <1>1, Invariance, PTL

\* As long as calls of the two stores do not overlap and no write is cut short,
\* the file holds what the calls made of it, for any accounts and sessions and
\* any number of crashes.
THEOREM SequentialKeeps == Spec => []SequentialCallsKeep
<1>1. IInv => SequentialCallsKeep
  BY DEF IInv, Alone, Whole, SequentialCallsKeep, AllIdle
<1>2. QED
  BY <1>1, Invariance, PTL

------------------------------------------------------------
(* The cleaner forgets a chat after it is gone.  What it has deleted and has *)
(* still to remove from the tracker stays gone, since no chat is created     *)
(* twice; and it asks for no page behind an empty one.                       *)

Deleted == \A c \in ToSet(current) : c \in created \ exists

Recorded == using \subseteq program

Paging == stage = "deleting" => page <= Len(Order)

CleanupIInv == CleanupTypeOK /\ Deleted /\ Recorded /\ Paging

\* A chat on page n is at the n-th place of the list at least.
LEMMA PagesEnd ==
    ASSUME NEW n \in 1 .. (Len(Order) + 1), Page(n) # {}
    PROVE  n <= Len(Order)
<1>1. Len(Order) \in Nat /\ DOMAIN Order = 1 .. Len(Order)
  BY CleanupAssumption, LenProperties
<1>2. PICK j \in Listed : (n - 1) * PageSize < Rank(j)
  BY DEF Page
<1>3. Rank(j) \in Nat /\ Rank(j) <= Len(Order)
  <2> DEFINE S == {i \in Listed : i <= j}
  <2>1. S \subseteq 1 .. Len(Order)
    BY <1>1 DEF Listed
  <2>2. IsFiniteSet(1 .. Len(Order)) /\ Cardinality(1 .. Len(Order)) = Len(Order)
    <3> DEFINE L == Len(Order)
    <3>1. 1 \in Int /\ L \in Int /\ (1 > L => L = 0) /\ L - 1 + 1 = L
      BY <1>1
    <3> HIDE DEF L
    <3>2. /\ IsFiniteSet(1 .. L)
          /\ Cardinality(1 .. L) = IF 1 > L THEN 0 ELSE L - 1 + 1
      BY <3>1, FS_Interval
    <3>3. QED
      BY <3>1, <3>2 DEF L
  <2> HIDE DEF S
  <2>3. IsFiniteSet(S) /\ Cardinality(S) <= Len(Order)
    BY <2>1, <2>2, FS_Subset
  <2>4. Cardinality(S) \in Nat
    BY <2>3, FS_CardinalityType
  <2>5. QED
    BY <2>3, <2>4 DEF Rank, S
<1>4. n - 1 <= (n - 1) * PageSize
  <2> DEFINE m == n - 1
  <2>1. m \in Nat /\ PageSize \in Nat /\ PageSize >= 1
    BY <1>1, CleanupAssumption
  <2> HIDE DEF m
  <2>2. m <= m * PageSize
    BY <2>1
  <2>3. QED
    BY <2>2 DEF m
<1>5. n - 1 \in Nat /\ (n - 1) * PageSize \in Nat
  BY <1>1, CleanupAssumption
<1>6. QED
  BY <1>1, <1>2, <1>3, <1>4, <1>5

\* The invariant holds at the start.
LEMMA CleanupStarts == CleanupInit => CleanupIInv
<1> SUFFICES ASSUME CleanupInit PROVE CleanupIInv
  OBVIOUS
<1>1. Len(Order) \in Nat
  BY CleanupAssumption, LenProperties
<1>2. CleanupTypeOK
  BY <1>1 DEF CleanupInit, CleanupTypeOK
<1>3. Deleted
  BY DEF CleanupInit, Deleted, NoChat, ToSet
<1>4. Recorded /\ Paging
  BY DEF CleanupInit, Recorded, Paging
<1>5. QED
  BY <1>2, <1>3, <1>4 DEF CleanupIInv

\* A step of the cleaner keeps it, ...
LEMMA CleanStep ==
    ASSUME CleanupIInv, Clean
    PROVE  CleanupIInv'
<1> USE DEF CleanupIInv, CleanupTypeOK, Recorded, Paging, upstreamVars, cleanerVars
<1>1. Len(Order) \in Nat
  BY CleanupAssumption, LenProperties
<1>2. CASE ListUsages
  BY <1>2 DEF ListUsages, EntersStage, Expired, Deleted
<1>3. ASSUME NEW c \in Chats, DropGuest(c) PROVE CleanupIInv'
  BY <1>3 DEF DropGuest, VisitsGuest, DeletesUsage, Deleted
<1>17. ASSUME NEW c \in Chats, DropGuestFails(c) PROVE CleanupIInv'
  BY <1>17 DEF DropGuestFails, VisitsGuest, UsageStays, Deleted
<1>4. ASSUME NEW c \in Chats, SkipChat(c) PROVE CleanupIInv'
  BY <1>4 DEF SkipChat, Deleted
<1>5. ASSUME NEW c \in Chats, DeleteTracked(c) PROVE CleanupIInv'
  <2>1. Deleted'
    <3>1. ToSet(<<c>>) = {c}
      BY DEF ToSet
    <3>2. QED
      BY <1>5, <3>1 DEF DeleteTracked, ReallyDeletes, Deleted
  <2>2. QED
    BY <1>5, <2>1 DEF DeleteTracked, ReallyDeletes
<1>6. ASSUME NEW c \in Chats, DeleteTrackedFails(c) PROVE CleanupIInv'
  BY <1>6 DEF DeleteTrackedFails, ReallyDeletes, StillTracked, Deleted
<1>7. ASSUME NEW c \in Chats, DeleteListed(c) PROVE CleanupIInv'
  BY <1>7 DEF DeleteListed, ReallyDeletes, Deleted
<1>8. ASSUME NEW c \in Chats, DeleteListedFails(c) PROVE CleanupIInv'
  BY <1>8 DEF DeleteListedFails, ReallyDeletes, Deleted
<1>9. CASE DeleteChatUsage
  BY <1>9 DEF DeleteChatUsage, DeletesUsage, UsageStays, Deleted, NoChat, ToSet
<1>10. CASE ListAccounts
  BY <1>10 DEF ListAccounts, EntersStage, Deleted
<1>11. ASSUME NEW a \in RealAccounts, NextAccount(a) PROVE CleanupIInv'
  BY <1>1, <1>11 DEF NextAccount, EntersStage, FirstPage, Deleted
<1>12. ASSUME NEW n \in 1 .. (Len(Order) + 1), ListChats(n) PROVE CleanupIInv'
  <2>1. n <= Len(Order)
    BY <1>12, PagesEnd DEF ListChats
  <2>2. QED
    BY <1>12, <2>1 DEF ListChats, EntersStage, Deleted
<1>13. CASE LeaveAccount
  BY <1>13 DEF LeaveAccount, EntersStage, Deleted
<1>14. CASE NextPage
  BY <1>1, <1>14 DEF NextPage, EntersStage, Deleted
<1>15. CASE EndPass
  BY <1>15 DEF EndPass, EntersStage, Deleted
<1>16. QED
  BY <1>2, <1>3, <1>4, <1>5, <1>6, <1>7, <1>8, <1>9, <1>10, <1>11, <1>12, <1>13, <1>14, <1>15,
     <1>17 DEF Clean

\* ... and every other step too.
LEMMA CleanupStep == CleanupIInv /\ [CleanupNext]_cleanupVars => CleanupIInv'
<1> SUFFICES ASSUME CleanupIInv, [CleanupNext]_cleanupVars PROVE CleanupIInv'
  OBVIOUS
<1> USE DEF CleanupIInv, CleanupTypeOK, Recorded, Paging, Deleted, upstreamVars, cleanerVars
<1>1. Len(Order) \in Nat
  BY CleanupAssumption, LenProperties
<1>2. CASE Clean
  BY <1>2, CleanStep
<1>3. ASSUME NEW c \in Chats, OpenChat(c) PROVE CleanupIInv'
  BY <1>3 DEF OpenChat
<1>4. ASSUME NEW c \in Chats, ReuseChat(c) PROVE CleanupIInv'
  BY <1>4 DEF ReuseChat
<1>5. ASSUME NEW c \in Chats, RecordChatUsage(c) PROVE CleanupIInv'
  BY <1>5 DEF RecordChatUsage
<1>6. ASSUME NEW c \in Chats, EndRequest(c) PROVE CleanupIInv'
  BY <1>6 DEF EndRequest
<1>7. ASSUME NEW c \in Chats, OpenInBrowser(c) PROVE CleanupIInv'
  BY <1>7 DEF OpenInBrowser
<1>16. ASSUME NEW c \in Chats, DeleteInBrowser(c) PROVE CleanupIInv'
  BY <1>16 DEF DeleteInBrowser, ReallyDeletes
<1>8. ASSUME NEW c \in Chats, ChatAges(c) PROVE CleanupIInv'
  BY <1>8 DEF ChatAges
<1>9. ASSUME NEW c \in Chats, UsageAges(c) PROVE CleanupIInv'
  BY <1>9 DEF UsageAges
<1>10. ASSUME NEW c \in Chats, UsageExpires(c) PROVE CleanupIInv'
  BY <1>10 DEF UsageExpires
<1>11. ASSUME NEW m \in Modes, HandleSetChatCleanupMode(m) PROVE CleanupIInv'
  BY <1>11 DEF HandleSetChatCleanupMode
<1>12. CASE PoolChanges
  BY <1>12 DEF PoolChanges
<1>13. CASE Restart
  <2>1. ToSet(NoChat) = {}
    BY DEF NoChat, ToSet
  <2>2. QED
    BY <1>1, <1>13, <2>1 DEF Restart
<1>14. CASE UNCHANGED cleanupVars
  BY <1>14 DEF cleanupVars
<1>15. QED
  BY <1>2, <1>3, <1>4, <1>5, <1>6, <1>7, <1>8, <1>9, <1>10, <1>11, <1>12, <1>13, <1>14,
     <1>16 DEF CleanupNext

\* In every behaviour what cleanupProgramChats has deleted stays gone, and
\* cleanupAccountAllChats asks for no page behind an empty one.
THEOREM CleanupInvariance == CleanupSpec => []CleanupIInv
BY CleanupStarts, CleanupStep, PTL DEF CleanupSpec

\* Every variable of the cleaner keeps its type, for any number of chats,
\* accounts and pages: cleanupAccountAllChats turns over finitely many pages.
THEOREM CleanupTypeCorrect == CleanupSpec => []CleanupTypeOK
<1>1. CleanupIInv => CleanupTypeOK
  BY DEF CleanupIInv
<1>2. QED
  BY <1>1, CleanupInvariance, PTL

\* cleanupProgramChats drops the record of a real account's chat only when the
\* upstream service has the chat no longer, whatever requests, administrators
\* and crashes come between DeleteChat and DeleteChatUsage.
THEOREM ForgetsOnlyGoneHolds == CleanupSpec => ForgetsOnlyGone
<1>1. ASSUME CleanupIInv, Clean, NEW c \in tracked \ tracked'
      PROVE  Owner[c] = Guest \/ c \notin exists'
  <2> USE DEF upstreamVars, cleanerVars
  <2>1. ASSUME UNCHANGED tracked PROVE FALSE
    BY <1>1, <2>1
  <2>2. ASSUME NEW d \in Chats, DropGuest(d) PROVE Owner[c] = Guest
    BY <1>1, <2>2 DEF DropGuest, VisitsGuest, DeletesUsage
  <2>3. ASSUME NEW d \in Chats, DeleteTrackedFails(d) PROVE FALSE
    BY <1>1, <2>3 DEF DeleteTrackedFails, StillTracked
  <2>4. CASE DeleteChatUsage
    BY <1>1, <2>4 DEF DeleteChatUsage, DeletesUsage, UsageStays, CleanupIInv, Deleted
  <2>5. ASSUME NEW d \in Chats,
               \/ SkipChat(d) \/ DropGuestFails(d)
               \/ DeleteTracked(d) \/ DeleteListed(d) \/ DeleteListedFails(d)
        PROVE  FALSE
    BY <2>1, <2>5 DEF SkipChat, DropGuestFails, VisitsGuest, UsageStays, DeleteTracked, DeleteListed, DeleteListedFails
  <2>6. ASSUME \/ ListUsages \/ ListAccounts \/ LeaveAccount \/ NextPage \/ EndPass
               \/ \E a \in RealAccounts : NextAccount(a)
               \/ \E n \in 1 .. (Len(Order) + 1) : ListChats(n)
        PROVE  FALSE
    BY <2>1, <2>6 DEF ListUsages, ListAccounts, LeaveAccount, NextPage, EndPass, NextAccount,
                      ListChats
  <2>7. QED
    BY <1>1, <2>2, <2>3, <2>4, <2>5, <2>6 DEF Clean
<1>2. CleanupIInv /\ [CleanupNext]_cleanupVars =>
          [Clean => \A c \in tracked \ tracked' :
              Owner[c] = Guest \/ c \notin exists']_cleanupVars
  BY <1>1
<1>3. QED
  BY <1>2, CleanupInvariance, PTL DEF CleanupSpec, ForgetsOnlyGone
=============================================================================
