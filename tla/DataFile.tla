------------------------------ MODULE DataFile ------------------------------
(***************************************************************************)
(* DATA_SAVE_MODE=file: data/data.json under the two fileStores that main  *)
(* opens on it, one as AccountStore (internal/storage/accounts.go) and one *)
(* as ConversationStore (conversations.go).  Each has a mutex of its own,  *)
(* so calls of one store exclude each other, but calls of the two stores   *)
(* interleave at every access to the file: Stat, ReadFile, and the         *)
(* truncation and the writing that os.WriteFile consists of.               *)
(*                                                                         *)
(* Abstractions.  Accounts and sessions are model values; the file is the  *)
(* two sets it holds, or is missing, or does not parse.  One text is       *)
(* longer than another at least when it holds all of its entries and more. *)
(***************************************************************************)
EXTENDS Naturals, FiniteSets

CONSTANTS
    Accounts,   \* accounts
    Sessions,   \* conversation sessions
    Missing,    \* the file does not exist
    Empty,      \* it is truncated
    Garbled,    \* it ends in the end of a longer text that it held before
    MaxFaults   \* bound: crashes and failed writes

Stores == {"accounts", "sessions"}
Entries == [accounts |-> Accounts, sessions |-> Sessions]
FileData == [accounts : SUBSET Accounts, sessions : SUBSET Sessions]
Default == [accounts |-> {}, sessions |-> {}]

ASSUME FileAssumption ==
    /\ {Missing, Empty, Garbled} \cap FileData = {}
    /\ Missing # Empty /\ Empty # Garbled
    /\ MaxFaults \in Nat

VARIABLES
    file,       \* data/data.json
    pc,         \* where the call of each store is, "idle" without one
    keep,       \* the entries the call wants to keep of its half,
    add,        \* and those it wants to add
    data,       \* the FileData the call has read, or will write
    creating,   \* the call is in ensure, and will read when it has written
    expected,   \* history: each half as the calls that returned no error left it
    alone,      \* history: no calls of the two stores overlapped, nothing failed
    faults      \* history: crashes and failed writes

vars == <<file, pc, keep, add, data, creating, expected, alone, faults>>

----------------------------------------------------------------------------
\* The program starts with a file of an earlier run, or with none.
Init ==
    /\ file \in FileData \cup {Missing}
    /\ pc = [s \in Stores |-> "idle"]
    /\ keep = [s \in Stores |-> {}]
    /\ add = [s \in Stores |-> {}]
    /\ data = [s \in Stores |-> Default]
    /\ creating = [s \in Stores |-> FALSE]
    /\ expected = IF file = Missing THEN Default ELSE file
    /\ alone = TRUE
    /\ faults = 0

Goto(s, l) == pc' = [pc EXCEPT ![s] = l]

\* The call is over, with an error or without.
Return(s) ==
    /\ Goto(s, "idle")
    /\ keep' = [keep EXCEPT ![s] = {}]
    /\ add' = [add EXCEPT ![s] = {}]
    /\ data' = [data EXCEPT ![s] = Default]
    /\ creating' = [creating EXCEPT ![s] = FALSE]

\* A call on half s of the file.  SaveAccount and SaveConversationSession add
\* an entry, the Delete calls keep all but one, SaveAllAccounts keeps none and
\* adds its accounts, and Load, List and Get change nothing.
Call(s, k, a) ==
    /\ pc[s] = "idle"
    /\ keep' = [keep EXCEPT ![s] = k]
    /\ add' = [add EXCEPT ![s] = a]
    /\ Goto(s, "checking")
    /\ alone' = (alone /\ \A t \in Stores : pc[t] = "idle")
    /\ UNCHANGED <<file, data, creating, expected, faults>>

Save(s, e) == Call(s, Entries[s], {e})
Delete(s, e) == Call(s, Entries[s] \ {e}, {})
SaveAllAccounts(S) == Call("accounts", {}, S)
Load(s) == Call(s, Entries[s], {})

\* ensure: a missing file is created first.
Ensure(s) ==
    /\ pc[s] = "checking"
    /\ \/ file = Missing
          /\ data' = [data EXCEPT ![s] = Default]
          /\ creating' = [creating EXCEPT ![s] = TRUE]
          /\ Goto(s, "truncating")
       \/ file # Missing
          /\ Goto(s, "reading")
          /\ UNCHANGED <<data, creating>>
    /\ UNCHANGED <<file, keep, add, expected, alone, faults>>

\* What a call writes back: its own half changed, the other as it was read.
OnlyHalf(s) == [Default EXCEPT ![s] = (file[s] \cap keep[s]) \cup add[s]]
Changed(s) == [file EXCEPT ![s] = (file[s] \cap keep[s]) \cup add[s]]

\* ReadFile and Unmarshal.
Read(s) ==
    /\ pc[s] = "reading"
    /\ file \in FileData
    /\ IF keep[s] = Entries[s] /\ add[s] = {}
       THEN Return(s)
       ELSE /\ data' = [data EXCEPT ![s] = Changed(s)]
            /\ Goto(s, "truncating")
            /\ UNCHANGED <<keep, add, creating>>
    /\ UNCHANGED <<file, expected, alone, faults>>

\* A text that does not parse fails the call; nobody repairs the file.
ReadFails(s) ==
    /\ pc[s] = "reading"
    /\ file \notin FileData
    /\ Return(s)
    /\ UNCHANGED <<file, expected, alone, faults>>

\* os.WriteFile opens the file with O_TRUNC ...
Truncate(s) ==
    /\ pc[s] = "truncating"
    /\ file' = Empty
    /\ Goto(s, "writing")
    /\ UNCHANGED <<keep, add, data, creating, expected, alone, faults>>

\* ... and writes from offset 0, over what the other store wrote meanwhile.
MayBeLonger(f, g) ==
    \/ f = Garbled
    \/ f \in FileData /\ ~(\A s \in Stores : f[s] \subseteq g[s])

Written(new) == {new} \cup (IF MayBeLonger(file, new) THEN {Garbled} ELSE {})

\* ensure has written, and the call goes on to read.
StillCreating(s) == creating[s]
NotCreating(s) == FALSE

CreatedDefault(s) ==
    /\ pc[s] = "writing"
    /\ creating[s]
    /\ file' \in Written(data[s])
    /\ creating' = [creating EXCEPT ![s] = NotCreating(s)]
    /\ Goto(s, "reading")
    /\ UNCHANGED <<keep, add, data, expected, alone, faults>>

Write(s) ==
    /\ pc[s] = "writing"
    /\ ~creating[s]
    /\ file' \in Written(data[s])
    /\ expected' = [expected EXCEPT ![s] = (@ \cap keep[s]) \cup add[s]]
    /\ Return(s)
    /\ UNCHANGED <<alone, faults>>

\* The disk is full: the file stays truncated, the call returns the error.
WriteFails(s) ==
    /\ pc[s] = "writing"
    /\ faults < MaxFaults
    /\ faults' = faults + 1
    /\ alone' = FALSE
    /\ Return(s)
    /\ UNCHANGED <<file, expected>>

\* A crash ends the calls of both stores; it does harm after a truncation.
Crash ==
    /\ faults < MaxFaults
    /\ faults' = faults + 1
    /\ alone' = (alone /\ \A s \in Stores : pc[s] # "writing")
    /\ pc' = [s \in Stores |-> "idle"]
    /\ keep' = [s \in Stores |-> {}]
    /\ add' = [s \in Stores |-> {}]
    /\ data' = [s \in Stores |-> Default]
    /\ creating' = [s \in Stores |-> FALSE]
    /\ UNCHANGED <<file, expected>>

Next ==
    \/ \E s \in Stores :
          \/ \E e \in Entries[s] : Save(s, e) \/ Delete(s, e)
          \/ Load(s)
          \/ Ensure(s)
          \/ Read(s)
          \/ ReadFails(s)
          \/ Truncate(s)
          \/ CreatedDefault(s)
          \/ Write(s)
          \/ WriteFails(s)
    \/ \E S \in SUBSET Accounts : SaveAllAccounts(S)
    \/ Crash

Spec == Init /\ [][Next]_vars
----------------------------------------------------------------------------
(* Properties. *)

\* Every variable has its type.
TypeOK ==
    /\ file \in FileData \cup {Missing, Empty, Garbled}
    /\ pc \in [Stores -> {"idle", "checking", "reading", "truncating", "writing"}]
    /\ \A s \in Stores : keep[s] \subseteq Entries[s] /\ add[s] \subseteq Entries[s]
    /\ data \in [Stores -> FileData]
    /\ creating \in [Stores -> BOOLEAN]
    /\ \A s \in Stores : creating[s] => pc[s] \in {"truncating", "writing"}
    /\ expected \in FileData
    /\ alone \in BOOLEAN
    /\ faults \in 0..MaxFaults

AllIdle == \A s \in Stores : pc[s] = "idle"

\* As long as calls of the two stores do not overlap and no write is cut
\* short, the file holds exactly what all calls so far made of it: neither
\* store loses the other's half, and a crash before a truncation or between
\* calls loses nothing.
SequentialCallsKeep ==
    (alone /\ AllIdle) => (file = expected \/ (file = Missing /\ expected = Default))
============================================================================
