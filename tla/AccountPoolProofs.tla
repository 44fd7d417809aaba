-------------------------- MODULE AccountPoolProofs --------------------------
(***************************************************************************)
(* Proofs about AccountPool, for every set of e-mails, callers and modes.  *)
(***************************************************************************)
EXTENDS AccountPool, SequenceTheorems, FiniteSetTheorems,
        WellFoundedInduction, TLAPS

----------------------------------------------------------------------------
(* Lemmas about the helpers. *)

\* Removing position i of a sequence leaves a sequence of its other elements.
LEMMA RemoveAtFacts ==
    ASSUME NEW S, NEW s \in Seq(S), NEW i \in DOMAIN s
    PROVE  /\ RemoveAt(s, i) \in Seq(S)
           /\ Len(RemoveAt(s, i)) = Len(s) - 1
           /\ \A j \in 1..(Len(s) - 1) :
                 /\ j < i => RemoveAt(s, i)[j] = s[j]
                 /\ j >= i => RemoveAt(s, i)[j] = s[j + 1]
<1>1. i \in 1..Len(s) /\ Len(s) \in Nat
  OBVIOUS
<1> DEFINE l == SubSeq(s, 1, i - 1)
           r == SubSeq(s, i + 1, Len(s))
<1>2. /\ l \in Seq(S)
      /\ Len(l) = i - 1
      /\ \A j \in 1..(i - 1) : l[j] = s[j]
  BY <1>1
<1>3. /\ r \in Seq(S)
      /\ Len(r) = Len(s) - i
      /\ \A j \in 1..(Len(s) - i) : r[j] = s[j + i]
  BY <1>1
<1> HIDE DEF l, r
<1>4. /\ l \o r \in Seq(S)
      /\ Len(l \o r) = Len(s) - 1
  BY <1>1, <1>2, <1>3, ConcatProperties
<1>5. ASSUME NEW j \in 1..(Len(s) - 1)
      PROVE  /\ j < i => (l \o r)[j] = s[j]
             /\ j >= i => (l \o r)[j] = s[j + 1]
  <2>1. CASE j < i
    BY <1>1, <1>2, <1>3, <2>1, ConcatProperties
  <2>2. CASE j >= i
    <3>1. (l \o r)[j] = r[j - (i - 1)]
      BY <1>1, <1>2, <1>3, <2>2, ConcatProperties
    <3>2. r[j - (i - 1)] = s[j + 1]
      BY <1>1, <1>3, <2>2
    <3>3. QED
      BY <3>1, <3>2, <2>2, <1>1
  <2>3. QED
    BY <2>1, <2>2, <1>1
<1>6. RemoveAt(s, i) = l \o r
  BY DEF RemoveAt, l, r
<1>7. QED
  BY <1>4, <1>5, <1>6

\* Dropping an element that a sequence has not, or that is all it has.
LEMMA RemoveFirstFacts ==
    ASSUME NEW S, NEW s \in Seq(S), NEW e
    PROVE  /\ e \notin ToSet(s) => RemoveFirst(s, e) = s
           /\ s = <<e>> => RemoveFirst(s, e) = <<>>
<1>1. e \notin ToSet(s) => RemoveFirst(s, e) = s
  BY DEF RemoveFirst, ToSet
<1>2. ASSUME s = <<e>> PROVE RemoveFirst(s, e) = <<>>
  <2> DEFINE I == {i \in 1..Len(s) : s[i] = e}
  <2>1. I = {1}
    BY <1>2
  <2>2. SelectInSeq(s, LAMBDA v : v = e) = 1
    BY <2>1 DEF SelectInSeq, Min
  <2>3. RemoveFirst(s, e) = RemoveAt(s, 1)
    BY <2>2, <1>2 DEF RemoveFirst
  <2>4. RemoveAt(s, 1) = <<>>
    <3>1. 1 \in DOMAIN s /\ Len(s) = 1
      BY <1>2
    <3>2. RemoveAt(s, 1) \in Seq(S) /\ Len(RemoveAt(s, 1)) = 0
      BY <3>1, RemoveAtFacts
    <3>3. QED
      BY <3>2, EmptySeq
  <2>5. QED
    BY <2>3, <2>4
<1>3. QED
  BY <1>1, <1>2

\* Forgetting and stamping a use keep the ranks natural numbers.
LEMMA RanksAreNat ==
    ASSUME lastUsed \in [Keys -> Nat], NEW k \in Keys
    PROVE  Forgotten(k) \in [Keys -> Nat] /\ Stamped(k) \in [Keys -> Nat]
<1>1. Forgotten(k) \in [Keys -> Nat]
  BY DEF Forgotten
<1>2. IsFiniteSet(Keys)
  BY PoolAssumption, FS_AddElement DEF Keys
<1>3. Cardinality({j \in Keys \ {k} : lastUsed[j] > 0}) \in Nat
  <2>1. IsFiniteSet({j \in Keys \ {k} : lastUsed[j] > 0})
    BY <1>2, FS_Subset
  <2>2. QED
    BY <2>1, FS_CardinalityType
<1>4. QED
  BY <1>1, <1>3 DEF Stamped

\* The round robin hands out an account of the pool.
LEMMA RoundRobinPicks ==
    ASSUME accounts \in Seq(Keys), accounts # <<>>, currentIndex \in Nat,
           NEW r, RoundRobin(r)
    PROVE  \E i \in DOMAIN accounts :
              HandOut(r, accounts[i]) /\ currentIndex' = i /\ i \in Nat
<1> DEFINE i == IF currentIndex >= Len(accounts) THEN 1 ELSE currentIndex + 1
<1>1. Len(accounts) \in Nat /\ Len(accounts) # 0 /\ DOMAIN accounts = 1..Len(accounts)
  OBVIOUS
<1>2. i \in 1..Len(accounts)
  BY <1>1
<1>3. HandOut(r, accounts[i]) /\ currentIndex' = i
  BY DEF RoundRobin
<1> HIDE DEF i
<1>4. QED
  BY <1>1, <1>2, <1>3

----------------------------------------------------------------------------
(* Lemmas about the store. *)

\* What LoadAccounts gives: real accounts, and each once if it is there once.
LEMMA LoadAccountsFacts ==
    ASSUME store \in [Emails -> Nat], NEW l \in LoadAccounts
    PROVE  /\ l \in Seq(Emails)
           /\ (\A e \in Emails : store[e] <= 1) =>
                 \A i, j \in DOMAIN l : l[i] = l[j] => i = j
<1> DEFINE slots(e) == {e} \X (1..store[e])
           f == [e \in Emails |-> slots(e)]
           entries == UNION {slots(e) : e \in Emails}
<1>1. IsFiniteSet(entries)
  <2>1. f \in Surjection(Emails, {slots(e) : e \in Emails})
    BY DEF Surjection
  <2>2. IsFiniteSet({slots(e) : e \in Emails})
    <3> HIDE DEF f, slots
    <3>1. QED
      BY <2>1, PoolAssumption, FS_Surjection
  <2>3. ASSUME NEW e \in Emails PROVE IsFiniteSet(slots(e))
    <3>1. IsFiniteSet({e})
      BY FS_Singleton
    <3>2. IsFiniteSet(1..store[e])
      BY FS_Interval
    <3>3. QED
      BY <3>1, <3>2, FS_Product
  <2> HIDE DEF slots
  <2>4. \A T \in {slots(e) : e \in Emails} : IsFiniteSet(T)
    BY <2>3
  <2>5. QED
    BY <2>2, <2>4, FS_UNION
<1>2. \A x \in entries : /\ x[1] \in Emails
                         /\ x[2] \in 1..store[x[1]]
                         /\ x = <<x[1], x[2]>>
  OBVIOUS
<1>3. PICK s \in SetToSeqs(entries) : l = [i \in DOMAIN s |-> s[i][1]]
  BY DEF LoadAccounts
<1> HIDE DEF entries
<1>4. Cardinality(entries) \in Nat
  BY <1>1, FS_CardinalityType
<1>5. /\ s \in [1..Cardinality(entries) -> entries]
      /\ \A i, j \in DOMAIN s : s[i] = s[j] => i = j
  BY <1>3 DEF SetToSeqs, IsInjective
<1>6. l \in Seq(Emails)
  <2>1. l \in [1..Cardinality(entries) -> Emails]
    BY <1>2, <1>3, <1>5
  <2>2. QED
    BY <1>4, <2>1, SeqDef
<1>7. ASSUME \A e \in Emails : store[e] <= 1,
             NEW i \in DOMAIN l, NEW j \in DOMAIN l, l[i] = l[j]
      PROVE  i = j
  <2>1. i \in DOMAIN s /\ j \in DOMAIN s /\ s[i][1] = s[j][1]
    BY <1>3, <1>7
  <2>2. s[i] \in entries /\ s[j] \in entries
    BY <1>5, <2>1
  <2>3. s[i][2] = 1 /\ s[j][2] = 1
    <3>1. ASSUME NEW x \in entries PROVE x[2] = 1
      <4>1. x[2] \in 1..store[x[1]] /\ store[x[1]] <= 1 /\ store[x[1]] \in Nat
        BY <1>2, <1>7
      <4>2. QED
        BY <4>1
    <3>2. QED
      BY <2>2, <3>1
  <2>4. s[i] = s[j]
    BY <1>2, <2>1, <2>2, <2>3
  <2>5. QED
    BY <1>5, <2>1, <2>4
<1>8. QED
  BY <1>6, <1>7

\* How often a list without repetitions has an account.
LEMMA OnceEach ==
    ASSUME NEW S, NEW s \in Seq(S), NEW e
    PROVE  /\ Cardinality({i \in DOMAIN s : s[i] = e}) \in Nat
           /\ Cardinality({i \in DOMAIN s : s[i] = e}) = 0 <=> e \notin ToSet(s)
           /\ (\A i, j \in DOMAIN s : s[i] = s[j] => i = j) /\ e \in ToSet(s) =>
                 Cardinality({i \in DOMAIN s : s[i] = e}) = 1
<1> DEFINE at == {i \in DOMAIN s : s[i] = e}
<1>1. IsFiniteSet(at)
  <2>1. DOMAIN s = 1..Len(s) /\ 1 \in Int /\ Len(s) \in Int
    OBVIOUS
  <2>2. IsFiniteSet(DOMAIN s)
    BY <2>1, FS_Interval
  <2>3. QED
    BY <2>2, FS_Subset
<1>2. at = {} <=> e \notin ToSet(s)
  BY DEF ToSet
<1>3. ASSUME \A i, j \in DOMAIN s : s[i] = s[j] => i = j, e \in ToSet(s)
      PROVE  \E i : at = {i}
  <2>1. PICK i \in DOMAIN s : s[i] = e
    BY <1>3 DEF ToSet
  <2>2. at = {i}
    BY <1>3, <2>1
  <2>3. QED
    BY <2>2
<1> HIDE DEF at
<1>4. Cardinality(at) \in Nat
  BY <1>1, FS_CardinalityType
<1>5. Cardinality(at) = 0 <=> e \notin ToSet(s)
  BY <1>1, <1>2, FS_EmptySet
<1>6. (\A i, j \in DOMAIN s : s[i] = s[j] => i = j) /\ e \in ToSet(s) =>
         Cardinality(at) = 1
  BY <1>1, <1>3, FS_Singleton
<1>7. QED
  BY <1>4, <1>5, <1>6 DEF at

LEMMA FilteredFacts ==
    ASSUME NEW s \in Seq(Keys)
    PROVE  /\ filterPersistentAccounts(s) \in [Emails -> Nat]
           /\ filterPersistentAccounts(s) = NoAccounts <=>
                 \A e \in Emails : e \notin ToSet(s)
           /\ (\A i, j \in DOMAIN s : s[i] = s[j] => i = j) =>
                 \A e \in Emails : filterPersistentAccounts(s)[e]
                                   = IF e \in ToSet(s) THEN 1 ELSE 0
<1> DEFINE count(e) == Cardinality({i \in DOMAIN s : s[i] = e})
<1>1. \A e \in Emails : /\ count(e) \in Nat
                        /\ count(e) = 0 <=> e \notin ToSet(s)
  BY OnceEach
<1>2. ASSUME \A i, j \in DOMAIN s : s[i] = s[j] => i = j, NEW e \in Emails
      PROVE  count(e) = IF e \in ToSet(s) THEN 1 ELSE 0
  BY <1>2, OnceEach
<1>3. filterPersistentAccounts(s) = [e \in Emails |-> count(e)]
  BY DEF filterPersistentAccounts
<1> HIDE DEF count
<1>4. filterPersistentAccounts(s) \in [Emails -> Nat]
  BY <1>1, <1>3
<1>5. filterPersistentAccounts(s) = NoAccounts <=>
         \A e \in Emails : e \notin ToSet(s)
  BY <1>1, <1>3 DEF NoAccounts
<1>6. QED
  BY <1>2, <1>3, <1>4, <1>5

\* The store's operations leave a store.
LEMMA SaveAccountType ==
    ASSUME store \in [Emails -> Nat], NEW e \in Emails
    PROVE  SaveAccount(e) \subseteq [Emails -> Nat]
<1>1. [store EXCEPT ![e] = @ + 1] \in [Emails -> Nat]
  OBVIOUS
<1> DEFINE over(f) == IF f = e THEN store
                      ELSE [store EXCEPT ![f] = @ - 1, ![e] = @ + 1]
<1>2. ASSUME NEW f \in Stored PROVE over(f) \in [Emails -> Nat]
  <2>1. f \in Emails /\ store[f] - 1 \in Nat
    BY <1>2 DEF Stored
  <2>2. QED
    BY <2>1
<1>3. SaveAccount(e) \subseteq
         {[store EXCEPT ![e] = @ + 1]} \cup {over(f) : f \in Stored}
  BY DEF SaveAccount
<1> HIDE DEF over
<1>4. QED
  BY <1>1, <1>2, <1>3

LEMMA WithoutType ==
    ASSUME store \in [Emails -> Nat], NEW e
    PROVE  Without(e) \subseteq [Emails -> Nat]
BY DEF Without

LEMMA SaveAllAccountsFacts ==
    ASSUME NEW list \in [Emails -> Nat]
    PROVE  /\ SaveAllAccounts(list) \subseteq [Emails -> Nat]
           /\ (\A e \in Emails : list[e] <= 1) => SaveAllAccounts(list) = {list}
<1>1. SaveAllAccounts(list) \subseteq [Emails -> Nat]
  BY DEF SaveAllAccounts
<1>2. ASSUME \A e \in Emails : list[e] <= 1
      PROVE  SaveAllAccounts(list) = {list}
  <2>1. \A e \in Emails : ~(list[e] > 1)
    BY <1>2
  <2>2. [e \in Emails |-> IF mode = "redis" /\ list[e] > 1 THEN 1 ELSE list[e]]
           = list
    BY <2>1
  <2>3. QED
    BY <2>2 DEF SaveAllAccounts
<1>3. QED
  BY <1>1, <1>2

----------------------------------------------------------------------------
(* The inductive invariant.  Initialize collects real accounts only, and its *)
(* slice is the one of the service for as long as it is not yet filtered.    *)

\* No step ever meets the guest beside a real account: AddAccountWithToken
\* and DeleteAccount start from a pool that is the guest alone or has none,
\* and what Initialize publishes is one or the other.
Shape ==
    /\ GuestFallback
    /\ boot \in {"loading", "checking"} => array \in Seq(Emails)
    /\ boot # "published" => ~shared

IInv == TypeOK /\ Shape

LEMMA InitIInv == Init => IInv
<1> SUFFICES ASSUME Init PROVE IInv
  OBVIOUS
<1> USE PoolAssumption DEF Init
<1>1. TypeOK
  <2>1. /\ accounts \in Seq(Keys)
        /\ todo \in Seq(Emails)
        /\ array \in Seq(Keys)
        /\ refreshing \in Seq(Keys)
    OBVIOUS
  <2>2. /\ lastUsed \in [Keys -> Nat]
        /\ failures \in [Keys -> 0..MaxFailures]
        /\ adding \in [Adders -> Emails \cup {None}]
        /\ held \in [Requests -> Keys \cup {None}]
    OBVIOUS
  <2>3. /\ store \in [Emails -> Nat]
        /\ snapshot \in [Emails -> Nat]
        /\ expired \in SUBSET Emails
        /\ restarts \in 0..MaxRestarts
    BY DEF Stored, NoAccounts
  <2>4. QED
    BY <2>1, <2>2, <2>3 DEF TypeOK
<1>2. Shape
  BY DEF Shape, GuestFallback, ToSet
<1>3. QED
  BY <1>1, <1>2 DEF IInv

----------------------------------------------------------------------------
(* What the administrator's calls make of the pool. *)

\* AddAccountWithToken leaves real accounts, and at least one.
LEMMA GrownFacts ==
    ASSUME TypeOK, GuestFallback, NEW e \in Emails
    PROVE  /\ Grown(e) \in Seq(Emails)
           /\ Grown(e) # <<>>
           /\ Grown(e) = Append(IF accounts = <<Guest>> THEN <<>> ELSE accounts, e)
<1>1. accounts \in Seq(Keys) /\ Guest \notin Emails
  BY PoolAssumption DEF TypeOK
<1>2. CASE accounts = <<Guest>>
  <2>1. Grown(e) = <<e>>
    <3>1. RemoveFirst(accounts, Guest) = <<>>
      BY <1>1, <1>2, RemoveFirstFacts
    <3>2. Append(<<>>, e) = <<e>>
      OBVIOUS
    <3>3. QED
      BY <3>1, <3>2 DEF Grown
  <2>2. QED
    BY <2>1, <1>2
<1>3. CASE accounts # <<Guest>>
  <2>1. Guest \notin ToSet(accounts)
    BY <1>3 DEF GuestFallback
  <2>2. Grown(e) = Append(accounts, e)
    BY <1>1, <2>1, RemoveFirstFacts DEF Grown
  <2>3. accounts \in Seq(Emails)
    <3>1. \A i \in 1..Len(accounts) : accounts[i] \in Emails
      BY <1>1, <2>1 DEF ToSet, Keys
    <3>2. QED
      BY <1>1, <3>1, SeqDef
  <2>4. QED
    BY <2>2, <2>3, <1>3
<1>4. QED
  BY <1>2, <1>3

\* DeleteAccount leaves the guest alone, or real accounts.
LEMMA ShrunkFacts ==
    ASSUME TypeOK, GuestFallback,
           NEW i \in DOMAIN accounts, accounts[i] # Guest
    PROVE  /\ Shrunk(i) \in Seq(Keys)
           /\ Shrunk(i) # <<>>
           /\ Guest \in ToSet(Shrunk(i)) => Shrunk(i) = <<Guest>>
           /\ Shrunk(i) = IF RemoveAt(accounts, i) = <<>> THEN <<Guest>>
                          ELSE RemoveAt(accounts, i)
<1> DEFINE rest == RemoveAt(accounts, i)
<1>1. accounts \in Seq(Keys) /\ Guest \in Keys
  BY DEF TypeOK, Keys
<1>2. rest \in Seq(Keys) /\ Guest \notin ToSet(rest)
  <2>1. Guest \notin ToSet(accounts)
    BY DEF GuestFallback, ToSet
  <2>2. rest \in Seq(Keys)
    BY <1>1, RemoveAtFacts
  <2>3. \A j \in DOMAIN rest : rest[j] # Guest
    <3>1. ASSUME NEW j \in DOMAIN rest PROVE rest[j] # Guest
      <4>1. j \in 1..(Len(accounts) - 1)
        BY <1>1, <2>2, RemoveAtFacts
      <4>2. rest[j] \in {accounts[j], accounts[j + 1]}
        <5>1. j < i \/ j >= i
          BY <1>1, <4>1
        <5>2. /\ j < i => rest[j] = accounts[j]
              /\ j >= i => rest[j] = accounts[j + 1]
          BY <1>1, <4>1, RemoveAtFacts
        <5>3. QED
          BY <5>1, <5>2
      <4>3. QED
        BY <1>1, <2>1, <4>1, <4>2 DEF ToSet
    <3>2. QED
      BY <3>1
  <2>4. QED
    BY <2>2, <2>3 DEF ToSet
<1> HIDE DEF rest
<1>3. filterPersistentAccounts(rest) = NoAccounts <=> rest = <<>>
  <2>1. ASSUME rest # <<>> PROVE \E e \in Emails : e \in ToSet(rest)
    <3>1. rest[1] \in ToSet(rest) /\ rest[1] \in Keys
      BY <1>2, <2>1 DEF ToSet
    <3>2. QED
      BY <1>2, <3>1 DEF Keys
  <2>2. rest = <<>> => \A e \in Emails : e \notin ToSet(rest)
    BY DEF ToSet
  <2>3. QED
    BY <1>2, <2>1, <2>2, FilteredFacts
<1>4. Shrunk(i) = IF rest = <<>> THEN <<Guest>> ELSE rest
  <2>1. rest = <<>> => Append(rest, Guest) = <<Guest>>
    BY <1>1
  <2>2. QED
    BY <1>3, <2>1 DEF Shrunk, rest
<1>5. QED
  <2>1. CASE rest = <<>>
    BY <1>1, <1>4, <2>1 DEF rest
  <2>2. CASE rest # <<>>
    BY <1>2, <1>4, <2>2 DEF rest
  <2>3. QED
    BY <2>1, <2>2

\* Initialize's slice, seen through the calls that rebuild the shared array.
LEMMA WriteThroughFacts ==
    ASSUME array \in Seq(Keys), NEW new \in Seq(Keys)
    PROVE  /\ WriteThrough(new) \in Seq(Keys)
           /\ ~shared => WriteThrough(new) = array
<1>1. Overlay(new, array) \in Seq(Keys)
  <2>1. /\ array \in [1..Len(array) -> Keys]
        /\ Len(array) \in Nat
        /\ DOMAIN array = 1..Len(array)
    OBVIOUS
  <2>2. Overlay(new, array) \in [1..Len(array) -> Keys]
    BY <2>1 DEF Overlay
  <2>3. QED
    BY <2>1, <2>2, SeqDef
<1>2. QED
  BY <1>1 DEF WriteThrough

----------------------------------------------------------------------------
(* Every step preserves the invariant. *)

LEMMA BootIInv == IInv /\ Boot => IInv'
<1> SUFFICES ASSUME IInv, Boot PROVE IInv'
  OBVIOUS
<1> USE DEF IInv, Shape
<1>1. CASE BootLoad
  <2>1. todo' \in Seq(Emails) /\ capacity' \in Nat /\ clean' \in BOOLEAN
    <3>1. CASE todo' \in LoadAccounts
      <4>1. todo' \in Seq(Emails) /\ Len(todo') \in Nat
        BY <3>1, LoadAccountsFacts DEF TypeOK
      <4>2. clean' \in BOOLEAN
        BY <1>1 DEF BootLoad, TypeOK
      <4>3. QED
        BY <1>1, <4>1, <4>2 DEF BootLoad, TypeOK
    <3>2. QED
      BY <1>1, <3>1 DEF BootLoad, TypeOK
  <2>2. TypeOK'
    BY <1>1, <2>1 DEF BootLoad, TypeOK, poolVars, storeVars, histVars
  <2>3. Shape'
    BY <1>1 DEF BootLoad, GuestFallback, poolVars
  <2>4. QED
    BY <2>2, <2>3
<1>2. CASE BootCheck
  <2>1. Head(todo) \in Emails /\ todo' \in Seq(Emails)
    BY <1>2 DEF BootCheck, TypeOK
  <2>2. array' \in Seq(Emails)
    BY <1>2, <2>1 DEF BootCheck
  <2>3. array' \in Seq(Keys)
    BY <2>2, SeqMonotonic DEF Keys
  <2>4. TypeOK'
    BY <1>2, <2>1, <2>3 DEF BootCheck, TypeOK, poolVars, storeVars, histVars
  <2>5. Shape'
    BY <1>2, <2>2 DEF BootCheck, GuestFallback, poolVars
  <2>6. QED
    BY <2>4, <2>5
<1>3. CASE BootPublish
  <2>1. /\ array' \in Seq(Keys)
        /\ array' # <<>>
        /\ Guest \in ToSet(array') => array' = <<Guest>>
    <3>1. CASE array = <<>>
      BY <1>3, <3>1 DEF BootPublish, Keys
    <3>2. CASE array # <<>>
      <4>1. array' = array /\ array \in Seq(Emails)
        BY <1>3, <3>2 DEF BootPublish
      <4>2. Guest \notin ToSet(array)
        BY <4>1, PoolAssumption DEF ToSet
      <4>3. QED
        BY <3>2, <4>1, <4>2, SeqMonotonic DEF Keys
    <3>3. QED
      BY <3>1, <3>2
  <2>2. TypeOK'
    BY <1>3, <2>1 DEF BootPublish, TypeOK, storeVars, histVars
  <2>3. Shape'
    BY <1>3, <2>1 DEF BootPublish, GuestFallback
  <2>4. QED
    BY <2>2, <2>3
<1>4. CASE BootFilter
  <2>1. snapshot' \in [Emails -> Nat]
    BY <1>4, FilteredFacts DEF BootFilter, TypeOK
  <2>2. TypeOK'
    BY <1>4, <2>1 DEF BootFilter, TypeOK, poolVars, storeVars, histVars
  <2>3. Shape'
    BY <1>4 DEF BootFilter, GuestFallback, poolVars
  <2>4. QED
    BY <2>2, <2>3
<1>5. CASE BootSave
  <2>1. /\ store' \in [Emails -> Nat]
        /\ expired' \in SUBSET Emails
        /\ clean' \in BOOLEAN
    BY <1>5, SaveAllAccountsFacts DEF BootSave, Writes, Refuses, Breaks, TypeOK
  <2>2. TypeOK'
    BY <1>5, <2>1 DEF BootSave, TypeOK, poolVars
  <2>3. Shape'
    BY <1>5 DEF BootSave, GuestFallback, poolVars
  <2>4. QED
    BY <2>2, <2>3
<1>6. QED
  BY <1>1, <1>2, <1>3, <1>4, <1>5 DEF Boot

\* Clearing a counter.
LEMMA ClearedType ==
    ASSUME TypeOK, NEW k
    PROVE  [failures EXCEPT ![k] = 0] \in [Keys -> 0..MaxFailures]
<1>1. 0 \in 0..MaxFailures
  BY PoolAssumption
<1>2. QED
  BY <1>1 DEF TypeOK

LEMMA RefreshEffectType ==
    ASSUME TypeOK, NEW k, RefreshEffect(k)
    PROVE  /\ failures' \in [Keys -> 0..MaxFailures]
           /\ store' \in [Emails -> Nat]
           /\ expired' \in SUBSET Emails
<1> USE DEF TypeOK
<1>1. CASE UNCHANGED <<failures, store, expired>>
  BY <1>1
<1>2. ASSUME k = Guest,
             failures' = [failures EXCEPT ![Guest] = 0],
             UNCHANGED <<store, expired>>
      PROVE  failures' \in [Keys -> 0..MaxFailures]
  BY <1>2, ClearedType
<1>3. ASSUME NEW i \in DOMAIN accounts, accounts[i] # Guest,
             failures' = [failures EXCEPT ![k] = 0],
             \/ /\ Writes(SaveAccount(accounts[i]))
                /\ SavedFresh(accounts[i])
             \/ (Refuses \/ Breaks) /\ UNCHANGED expired
      PROVE  /\ failures' \in [Keys -> 0..MaxFailures]
             /\ store' \in [Emails -> Nat]
             /\ expired' \in SUBSET Emails
  <2>1. accounts[i] \in Emails
    BY <1>3 DEF Keys
  <2>2. SaveAccount(accounts[i]) \subseteq [Emails -> Nat]
    BY <2>1, SaveAccountType
  <2>3. QED
    BY <1>3, <2>2, ClearedType DEF Writes, Refuses, Breaks, SavedFresh
<1>4. QED
  BY <1>1, <1>2, <1>3 DEF RefreshEffect

LEMMA AdministerIInv == IInv /\ Administer => IInv'
<1> SUFFICES ASSUME IInv, Administer PROVE IInv'
  OBVIOUS
<1> USE DEF IInv, Shape
<1>1. ASSUME NEW p \in Adders, NEW e \in Emails, AddAccount(p, e) PROVE IInv'
  BY <1>1 DEF AddAccount, TypeOK, GuestFallback,
              poolVars, bootVars, storeVars, histVars
<1>2. ASSUME NEW p \in Adders, AddSignInFails(p) PROVE IInv'
  BY <1>2 DEF AddSignInFails, TypeOK, GuestFallback,
              poolVars, bootVars, storeVars, histVars
<1>3. ASSUME NEW p \in Adders, AddRejected(p) PROVE IInv'
  BY <1>3 DEF AddRejected, TypeOK, GuestFallback,
              poolVars, bootVars, storeVars, histVars
<1>4. ASSUME NEW p \in Adders, AddAccountWithToken(p) PROVE IInv'
  <2> DEFINE e == adding[p]
  <2>1. e \in Emails
    BY <1>4 DEF AddAccountWithToken, TypeOK
  <2>2. /\ Grown(e) \in Seq(Emails)
        /\ Grown(e) \in Seq(Keys)
        /\ Grown(e) # <<>>
        /\ Guest \notin ToSet(Grown(e))
    <3>1. Grown(e) \in Seq(Emails) /\ Grown(e) # <<>>
      BY <2>1, GrownFacts
    <3>2. QED
      BY <3>1, PoolAssumption, SeqMonotonic DEF Keys, ToSet
  <2>3. /\ array' \in Seq(Keys)
        /\ ~shared => array' = array
    BY <1>4, <2>2, WriteThroughFacts DEF AddAccountWithToken, TypeOK
  <2>4. accounts' \in {accounts, Grown(e)} /\ (shared' => shared) /\ shared' \in BOOLEAN
    BY <1>4 DEF AddAccountWithToken, Previous, TypeOK
  <2>5. /\ store' \in [Emails -> Nat]
        /\ expired' \in SUBSET Emails
        /\ clean' \in BOOLEAN
        /\ adding' \in [Adders -> Emails \cup {None}]
    <3>1. SaveAccount(e) \subseteq [Emails -> Nat]
      BY <2>1, SaveAccountType DEF TypeOK
    <3> HIDE DEF e
    <3>2. /\ \/ Writes(SaveAccount(e)) /\ SavedFresh(e)
             \/ (Refuses \/ Breaks) /\ UNCHANGED expired
          /\ clean' = (clean /\ ~Booting)
          /\ \E p1 \in Adders : adding' = [adding EXCEPT ![p1] = None]
      BY <1>4 DEF AddAccountWithToken, e
    <3>3. QED
      BY <3>1, <3>2 DEF Writes, Refuses, Breaks, SavedFresh, TypeOK, Booting
  <2> HIDE DEF e
  <2>6. TypeOK'
    BY <1>4, <2>2, <2>3, <2>4, <2>5 DEF AddAccountWithToken, TypeOK
  <2>7. GuestFallback'
    BY <1>4, <2>2, <2>4 DEF AddAccountWithToken, GuestFallback
  <2>8. Shape'
    BY <1>4, <2>3, <2>4, <2>7 DEF AddAccountWithToken
  <2>9. QED
    BY <2>6, <2>8
<1>5. ASSUME NEW e \in Emails, DeleteAccount(e) PROVE IInv'
  <2>1. PICK i \in DOMAIN accounts :
            /\ accounts[i] # Guest
            /\ accounts' = Shrunk(i)
            /\ array' = WriteThrough(Shrunk(i))
    BY <1>5 DEF DeleteAccount
  <2>2. /\ Shrunk(i) \in Seq(Keys)
        /\ Shrunk(i) # <<>>
        /\ Guest \in ToSet(Shrunk(i)) => Shrunk(i) = <<Guest>>
    BY <2>1, ShrunkFacts
  <2>3. /\ array' \in Seq(Keys)
        /\ ~shared => array' = array
    BY <2>1, <2>2, WriteThroughFacts DEF TypeOK
  <2>4. /\ failures' \in [Keys -> 0..MaxFailures]
        /\ recent' \in SUBSET Keys
    <3>1. failures' = [failures EXCEPT ![e] = 0] /\ recent' = recent \ {e}
      BY <1>5 DEF DeleteAccount
    <3>2. QED
      BY <3>1, ClearedType DEF TypeOK
  <2>5. lastUsed' \in [Keys -> Nat]
    <3>1. e \in Keys /\ lastUsed' = Forgotten(e)
      BY <1>5 DEF DeleteAccount, Keys
    <3>2. QED
      BY <3>1, RanksAreNat DEF TypeOK
  <2>6. /\ store' \in [Emails -> Nat]
        /\ expired' \in SUBSET Emails
        /\ clean' \in BOOLEAN
    BY <1>5, WithoutType DEF DeleteAccount, Writes, Refuses, Breaks, TypeOK,
                             Booting
  <2>7. UNCHANGED <<initialized, currentIndex, boot, todo, capacity, shared,
                    snapshot, mode, adding, held, refreshing, restarts>>
    BY <1>5 DEF DeleteAccount
  <2>8. TypeOK'
    BY <2>1, <2>2, <2>3, <2>4, <2>5, <2>6, <2>7 DEF TypeOK
  <2>9. Shape'
    BY <2>1, <2>2, <2>3, <2>7 DEF GuestFallback
  <2>10. QED
    BY <2>8, <2>9
<1>6. ASSUME NEW k \in Keys, RefreshAccount(k) PROVE IInv'
  <2>1. /\ failures' \in [Keys -> 0..MaxFailures]
        /\ store' \in [Emails -> Nat]
        /\ expired' \in SUBSET Emails
    BY <1>6, RefreshEffectType DEF RefreshAccount
  <2>2. QED
    BY <1>6, <2>1 DEF RefreshAccount, TypeOK, GuestFallback, bootVars, histVars
<1>7. CASE RefreshAllAccounts
  BY <1>7 DEF RefreshAllAccounts, TypeOK, GuestFallback,
              poolVars, bootVars, storeVars, histVars
<1>8. CASE RefreshNext
  <2>1. /\ failures' \in [Keys -> 0..MaxFailures]
        /\ store' \in [Emails -> Nat]
        /\ expired' \in SUBSET Emails
    BY <1>8, RefreshEffectType DEF RefreshNext
  <2>2. refreshing' \in Seq(Keys)
    BY <1>8 DEF RefreshNext, TypeOK
  <2>3. QED
    BY <1>8, <2>1, <2>2 DEF RefreshNext, TypeOK, GuestFallback, bootVars, histVars
<1>9. QED
  BY <1>1, <1>2, <1>3, <1>4, <1>5, <1>6, <1>7, <1>8 DEF Administer

\* Using an account and counting its failures.
LEMMA TouchType ==
    ASSUME TypeOK, NEW k \in Keys, Touch(k)
    PROVE  lastUsed' \in [Keys -> Nat] /\ recent' \in SUBSET Keys
BY RanksAreNat DEF Touch, TypeOK

LEMMA HandOutType ==
    ASSUME TypeOK, NEW r \in Requests, NEW k \in Keys, HandOut(r, k)
    PROVE  /\ held' \in [Requests -> Keys \cup {None}]
           /\ lastUsed' \in [Keys -> Nat]
           /\ recent' \in SUBSET Keys
BY TouchType DEF HandOut, TypeOK

LEMMA ForgiveType ==
    ASSUME TypeOK, ForgiveRested
    PROVE  failures' \in [Keys -> 0..MaxFailures]
<1>1. 0 \in 0..MaxFailures
  BY PoolAssumption
<1>2. QED
  BY <1>1 DEF ForgiveRested, TypeOK

LEMMA FailedType ==
    ASSUME TypeOK, NEW k \in Keys
    PROVE  Failed(k) \in [Keys -> 0..MaxFailures]
<1>1. MaxFailures \in Nat
  BY PoolAssumption
<1>2. \A n \in 0..MaxFailures :
         (IF n < MaxFailures THEN n + 1 ELSE n) \in 0..MaxFailures
  BY <1>1
<1>3. QED
  BY <1>2 DEF Failed, TypeOK

LEMMA ServeIInv == IInv /\ Serve => IInv'
<1> SUFFICES ASSUME IInv, NEW r \in Requests,
                    \/ GetAccountSession(r)
                    \/ \E e \in Emails : GetAccountSessionByEmail(r, e)
                    \/ \E X \in SUBSET Keys : GetAccountSessionExcluding(r, X)
                    \/ RecordFailure(r)
                    \/ ResetFailure(r)
                    \/ Release(r)
             PROVE  IInv'
  BY DEF Serve
<1> USE DEF IInv, Shape
<1>1. \A i \in DOMAIN accounts : accounts[i] \in Keys
  BY DEF TypeOK
<1>2. CASE GetAccountSession(r)
  <2>1. failures' \in [Keys -> 0..MaxFailures]
    BY <1>2, ForgiveType DEF GetAccountSession
  <2>2. /\ held' \in [Requests -> Keys \cup {None}]
        /\ lastUsed' \in [Keys -> Nat]
        /\ recent' \in SUBSET Keys
        /\ currentIndex' \in Nat
    <3>1. ASSUME NEW k \in Available({}), HandOut(r, k), UNCHANGED currentIndex
          PROVE  /\ held' \in [Requests -> Keys \cup {None}]
                 /\ lastUsed' \in [Keys -> Nat]
                 /\ recent' \in SUBSET Keys
                 /\ currentIndex' \in Nat
      <4>1. k \in Keys
        BY <1>1 DEF Available, ToSet
      <4>2. QED
        BY <3>1, <4>1, HandOutType DEF TypeOK
    <3>2. ASSUME RoundRobin(r)
          PROVE  /\ held' \in [Requests -> Keys \cup {None}]
                 /\ lastUsed' \in [Keys -> Nat]
                 /\ recent' \in SUBSET Keys
                 /\ currentIndex' \in Nat
      <4>1. PICK i \in DOMAIN accounts :
                HandOut(r, accounts[i]) /\ currentIndex' = i /\ i \in Nat
        BY <1>2, <3>2, RoundRobinPicks DEF GetAccountSession, TypeOK
      <4>2. QED
        BY <1>1, <4>1, HandOutType
    <3>3. QED
      BY <1>2, <3>1, <3>2 DEF GetAccountSession
  <2>3. QED
    BY <1>2, <2>1, <2>2 DEF GetAccountSession, TypeOK, GuestFallback,
                            bootVars, storeVars, histVars
<1>3. ASSUME NEW e \in Emails, GetAccountSessionByEmail(r, e) PROVE IInv'
  <2>1. failures' \in [Keys -> 0..MaxFailures]
    BY <1>3, ForgiveType DEF GetAccountSessionByEmail
  <2>2. /\ held' \in [Requests -> Keys \cup {None}]
        /\ lastUsed' \in [Keys -> Nat]
        /\ recent' \in SUBSET Keys
    <3>1. \/ \E i \in DOMAIN accounts : HandOut(r, accounts[i])
          \/ UNCHANGED <<held, lastUsed, recent>>
      BY <1>3 DEF GetAccountSessionByEmail
    <3>2. QED
      BY <1>1, <3>1, HandOutType DEF TypeOK
  <2>3. QED
    BY <1>3, <2>1, <2>2 DEF GetAccountSessionByEmail, TypeOK, GuestFallback,
                            bootVars, storeVars, histVars
<1>4. ASSUME NEW X \in SUBSET Keys, GetAccountSessionExcluding(r, X) PROVE IInv'
  <2>1. failures' \in [Keys -> 0..MaxFailures]
    BY <1>4, ForgiveType DEF GetAccountSessionExcluding
  <2>2. /\ held' \in [Requests -> Keys \cup {None}]
        /\ lastUsed' \in [Keys -> Nat]
        /\ recent' \in SUBSET Keys
    <3>1. \/ \E k \in Available(X) : HandOut(r, k)
          \/ UNCHANGED <<held, lastUsed, recent>>
      BY <1>4 DEF GetAccountSessionExcluding
    <3>2. Available(X) \subseteq Keys
      BY <1>1 DEF Available, ToSet
    <3>3. QED
      BY <3>1, <3>2, HandOutType DEF TypeOK
  <2>3. QED
    BY <1>4, <2>1, <2>2 DEF GetAccountSessionExcluding, TypeOK, GuestFallback,
                            bootVars, storeVars, histVars
<1>5. CASE RecordFailure(r)
  <2>1. held[r] \in Keys /\ held' \in [Requests -> Keys \cup {None}]
    BY <1>5 DEF RecordFailure, TypeOK
  <2>2. /\ failures' \in [Keys -> 0..MaxFailures]
        /\ lastUsed' \in [Keys -> Nat]
        /\ recent' \in SUBSET Keys
    BY <1>5, <2>1, FailedType, TouchType DEF RecordFailure
  <2>3. QED
    BY <1>5, <2>1, <2>2 DEF RecordFailure, TypeOK, GuestFallback,
                            bootVars, storeVars, histVars
<1>6. CASE ResetFailure(r)
  <2>1. failures' \in [Keys -> 0..MaxFailures]
    BY <1>6, ClearedType DEF ResetFailure
  <2>2. QED
    BY <1>6, <2>1 DEF ResetFailure, TypeOK, GuestFallback,
                      bootVars, storeVars, histVars
<1>7. CASE Release(r)
  BY <1>7 DEF Release, TypeOK, GuestFallback,
              poolVars, bootVars, storeVars, histVars
<1>8. QED
  BY <1>2, <1>3, <1>4, <1>5, <1>6, <1>7

LEMMA EnvironmentIInv == IInv /\ Environment => IInv'
<1> SUFFICES ASSUME IInv, Environment PROVE IInv'
  OBVIOUS
<1> USE DEF IInv, Shape
<1>1. CASE MinutesPass
  BY <1>1 DEF MinutesPass, TypeOK, GuestFallback, bootVars, storeVars, histVars
<1>2. ASSUME NEW e \in Emails, TokenExpires(e) PROVE IInv'
  BY <1>2 DEF TokenExpires, TypeOK, GuestFallback, poolVars, bootVars, histVars
<1>3. CASE Restart
  <2>1. /\ lastUsed' \in [Keys -> Nat]
        /\ failures' \in [Keys -> 0..MaxFailures]
        /\ restarts' \in 0..MaxRestarts
    BY <1>3, PoolAssumption DEF Restart, TypeOK
  <2>2. /\ adding' \in [Adders -> Emails \cup {None}]
        /\ held' \in [Requests -> Keys \cup {None}]
    BY <1>3 DEF Restart
  <2>3. /\ accounts' \in Seq(Keys) /\ todo' \in Seq(Emails)
        /\ array' \in Seq(Keys) /\ array' \in Seq(Emails)
        /\ refreshing' \in Seq(Keys)
    BY <1>3 DEF Restart
  <2>4. TypeOK'
    <3>1. snapshot' \in [Emails -> Nat]
      BY <1>3 DEF Restart, NoAccounts
    <3>2. QED
      BY <1>3, <2>1, <2>2, <2>3, <3>1 DEF Restart, TypeOK, storeVars
  <2>5. Shape'
    BY <1>3, <2>3 DEF Restart, GuestFallback, ToSet
  <2>6. QED
    BY <2>4, <2>5
<1>4. QED
  BY <1>1, <1>2, <1>3 DEF Environment

LEMMA StutterIInv == IInv /\ UNCHANGED vars => IInv'
BY DEF IInv, Shape, TypeOK, GuestFallback, vars, poolVars, bootVars, storeVars,
       histVars

----------------------------------------------------------------------------
(* What a step may never do. *)

LEMMA GrownDistinct ==
    ASSUME TypeOK, GuestFallback, Distinct, NEW e \in Emails, ~Listed(e)
    PROVE  \A i, j \in DOMAIN Grown(e) : EqualFold(Grown(e)[i], Grown(e)[j]) => i = j
<1> DEFINE base == IF accounts = <<Guest>> THEN <<>> ELSE accounts
<1>1. /\ base \in Seq(Keys)
      /\ \A i \in DOMAIN base : base[i] = accounts[i] /\ i \in DOMAIN accounts
  BY DEF TypeOK
<1>2. Grown(e) = Append(base, e)
  BY GrownFacts
<1> HIDE DEF base
<1>3. SUFFICES ASSUME NEW i \in 1..(Len(base) + 1), NEW j \in 1..(Len(base) + 1),
                      EqualFold(Append(base, e)[i], Append(base, e)[j])
               PROVE  i = j
  BY <1>1, <1>2
<1>4. \A k \in DOMAIN base : Append(base, e)[k] = base[k]
  BY <1>1
<1>5. Append(base, e)[Len(base) + 1] = e
  BY <1>1
<1>6. \A k \in DOMAIN base : Mailbox[base[k]] # Mailbox[e]
  BY <1>1 DEF Listed, EqualFold
<1>7. CASE i \in DOMAIN base /\ j \in DOMAIN base
  BY <1>1, <1>3, <1>4, <1>7 DEF Distinct, EqualFold
<1>8. CASE i \notin DOMAIN base \/ j \notin DOMAIN base
  <2>1. \A k \in 1..(Len(base) + 1) : k \notin DOMAIN base => k = Len(base) + 1
    BY <1>1
  <2>2. QED
    BY <1>3, <1>4, <1>5, <1>6, <1>8, <2>1 DEF EqualFold
<1>9. QED
  BY <1>7, <1>8

LEMMA ShrunkDistinct ==
    ASSUME TypeOK, GuestFallback, Distinct,
           NEW k \in DOMAIN accounts, accounts[k] # Guest
    PROVE  \A i, j \in DOMAIN Shrunk(k) :
              EqualFold(Shrunk(k)[i], Shrunk(k)[j]) => i = j
<1> DEFINE rest == RemoveAt(accounts, k)
<1>1. /\ accounts \in Seq(Keys)
      /\ rest \in Seq(Keys)
      /\ Len(rest) = Len(accounts) - 1
      /\ \A j \in 1..(Len(accounts) - 1) :
            /\ j < k => rest[j] = accounts[j]
            /\ j >= k => rest[j] = accounts[j + 1]
  BY RemoveAtFacts DEF TypeOK
<1>2. Shrunk(k) = IF rest = <<>> THEN <<Guest>> ELSE rest
  BY ShrunkFacts
<1> HIDE DEF rest
<1>3. CASE rest = <<>>
  BY <1>2, <1>3
<1>4. CASE rest # <<>>
  <2> SUFFICES ASSUME NEW i \in DOMAIN rest, NEW j \in DOMAIN rest,
                      EqualFold(rest[i], rest[j])
               PROVE  i = j
    BY <1>2, <1>4
  <2> DEFINE from(n) == IF n < k THEN n ELSE n + 1
  <2>1. \A n \in DOMAIN rest :
           from(n) \in DOMAIN accounts /\ rest[n] = accounts[from(n)]
    <3>1. ASSUME NEW n \in DOMAIN rest
          PROVE  from(n) \in DOMAIN accounts /\ rest[n] = accounts[from(n)]
      <4>1. n \in 1..(Len(accounts) - 1) /\ k \in 1..Len(accounts)
        BY <1>1
      <4>2. CASE n < k
        BY <1>1, <4>1, <4>2
      <4>3. CASE n >= k
        BY <1>1, <4>1, <4>3
      <4>4. QED
        BY <4>1, <4>2, <4>3
    <3>2. QED
      BY <3>1
  <2>2. from(i) = from(j)
    BY <2>1 DEF Distinct
  <2>3. QED
    BY <2>2, <1>1
<1>5. QED
  BY <1>3, <1>4

LEMMA DistinctStep ==
    ASSUME IInv, [Next]_vars, Distinct, boot' = boot
    PROVE  Distinct'
<1> USE DEF IInv, Shape
<1>1. ASSUME UNCHANGED accounts PROVE Distinct'
  BY <1>1 DEF Distinct, EqualFold
<1>2. ASSUME NEW p \in Adders, AddAccountWithToken(p) PROVE Distinct'
  <2>1. /\ adding[p] \in Emails
        /\ ~Listed(adding[p])
        /\ accounts' \in {accounts, Grown(adding[p])}
    BY <1>2 DEF AddAccountWithToken, MayInsert, Previous, TypeOK
  <2>2. QED
    BY <1>1, <2>1, GrownDistinct DEF Distinct, EqualFold
<1>3. ASSUME NEW e \in Emails, DeleteAccount(e) PROVE Distinct'
  <2>1. PICK i \in DOMAIN accounts : accounts[i] # Guest /\ accounts' = Shrunk(i)
    BY <1>3 DEF DeleteAccount
  <2>2. QED
    BY <2>1, ShrunkDistinct DEF Distinct, EqualFold
<1>4. CASE Restart
  BY <1>4 DEF Restart, Distinct
<1>5. CASE Boot
  <2>1. BootCheck
    BY <1>5 DEF Boot, BootLoad, BootPublish, BootFilter, BootSave, IInv
  <2>2. QED
    BY <1>1, <2>1 DEF BootCheck, poolVars
<1>6. CASE Administer
  <2>1. \/ UNCHANGED accounts
        \/ \E p \in Adders : AddAccountWithToken(p)
        \/ \E e \in Emails : DeleteAccount(e)
    BY <1>6 DEF Administer, AddAccount, AddSignInFails, AddRejected,
                RefreshAccount, RefreshAllAccounts, RefreshNext, poolVars
  <2>2. QED
    BY <1>1, <1>2, <1>3, <2>1
<1>7. CASE Serve
  BY <1>1, <1>7 DEF Serve, GetAccountSession, GetAccountSessionByEmail,
     GetAccountSessionExcluding, RecordFailure, ResetFailure, Release, poolVars
<1>8. CASE Environment
  BY <1>1, <1>4, <1>8 DEF Environment, MinutesPass, TokenExpires, poolVars
<1>9. CASE UNCHANGED vars
  BY <1>1, <1>9 DEF vars, poolVars
<1>10. QED
  BY <1>5, <1>6, <1>7, <1>8, <1>9 DEF Next

\* What a request is handed, it may have.
Deserved(k) ==
    /\ k \in ToSet(accounts)
    /\ InCooldown(k) => \A j \in ToSet(accounts) : InCooldown(j)

LEMMA HandOutStep ==
    ASSUME IInv, [Next]_vars, NEW r \in Requests,
           held'[r] # held[r], held'[r] # None
    PROVE  Deserved(held'[r])
<1>1. TypeOK
  BY DEF IInv
<1>2. ASSUME NEW q \in Requests, NEW k, HandOut(q, k), Deserved(k)
      PROVE  Deserved(held'[r])
  BY <1>1, <1>2 DEF HandOut, TypeOK
<1>3. ASSUME NEW q \in Requests, NEW X, NEW k \in Available(X), HandOut(q, k)
      PROVE  Deserved(held'[r])
  <2>1. Deserved(k)
    BY <1>3 DEF Available, Deserved
  <2>2. QED
    BY <1>2, <1>3, <2>1
<1>4. ASSUME NEW q \in Requests, GetAccountSession(q)
      PROVE  Deserved(held'[r])
  <2>1. CASE \E k \in Available({}) : HandOut(q, k)
    BY <1>3, <2>1
  <2>2. CASE Available({}) = {} /\ RoundRobin(q)
    <3>1. PICK i \in DOMAIN accounts : HandOut(q, accounts[i])
      BY <1>1, <1>4, <2>2, RoundRobinPicks DEF GetAccountSession, TypeOK
    <3>2. accounts[i] \in ToSet(accounts)
      BY <3>1 DEF ToSet
    <3>3. \A j \in ToSet(accounts) : InCooldown(j)
      BY <2>2 DEF Available
    <3>4. QED
      BY <1>2, <3>1, <3>2, <3>3 DEF Deserved
  <2>3. QED
    BY <1>4, <2>1, <2>2 DEF GetAccountSession
<1>5. ASSUME NEW q \in Requests, NEW e, GetAccountSessionByEmail(q, e)
      PROVE  Deserved(held'[r])
  <2>1. PICK i \in DOMAIN accounts :
            accounts[i] \in Available({}) /\ HandOut(q, accounts[i])
    BY <1>5 DEF GetAccountSessionByEmail, ServesEmail
  <2>2. QED
    BY <1>3, <2>1
<1>6. ASSUME NEW q \in Requests, NEW X, GetAccountSessionExcluding(q, X)
      PROVE  Deserved(held'[r])
  <2>1. PICK k \in Available(X) : HandOut(q, k)
    BY <1>6 DEF GetAccountSessionExcluding
  <2>2. QED
    BY <1>3, <2>1
<1>7. ASSUME NEW q \in Requests, RecordFailure(q) \/ ResetFailure(q) \/ Release(q)
      PROVE  FALSE
  BY <1>1, <1>7 DEF RecordFailure, ResetFailure, Release, TypeOK
<1>8. ~UNCHANGED held
  OBVIOUS
<1>9. Serve
  <2>1. ~Boot
    BY <1>8 DEF Boot, BootLoad, BootCheck, BootPublish, BootFilter, BootSave
  <2>2. ~Administer
    BY <1>8 DEF Administer, AddAccount, AddSignInFails, AddRejected,
       AddAccountWithToken, DeleteAccount, RefreshAccount, RefreshAllAccounts,
       RefreshNext
  <2>3. ~Environment
    <3>1. ~Restart
      BY <1>1 DEF Restart, TypeOK
    <3>2. QED
      BY <1>8, <3>1 DEF Environment, MinutesPass, TokenExpires
  <2>4. QED
    BY <1>8, <2>1, <2>2, <2>3 DEF Next, vars
<1>10. QED
  BY <1>4, <1>5, <1>6, <1>7, <1>9 DEF Serve

\* Among numbers there is a smallest.
LEMMA SmallestOf ==
    ASSUME NEW T \in SUBSET Nat, T # {}
    PROVE  \E n \in T : \A m \in T : n <= m
<1>1. IsWellFoundedOn(OpToRel(<, Nat), Nat)
  BY NatLessThanWellFounded
<1>2. PICK n \in T : \A m \in T : <<m, n>> \notin OpToRel(<, Nat)
  <2> HIDE DEF OpToRel
  <2>1. QED
    BY <1>1, WFMin
<1>3. \A m \in T : m \in Nat /\ n \in Nat /\ ~(m < n)
  BY <1>2 DEF OpToRel
<1>4. QED
  BY <1>3

\* The scan for the account used longest ago finds it, where all were used.
LEMMA LeastRecentFacts ==
    ASSUME TypeOK, NEW S \in SUBSET ToSet(accounts), S # {},
           \A k \in S : lastUsed[k] > 0
    PROVE  \A k \in S : lastUsed[LeastRecent(S)] <= lastUsed[k]
<1> DEFINE at == {i \in DOMAIN accounts : accounts[i] \in S}
           used(i) == lastUsed[accounts[i]]
           Before(i, j) == \/ used(i) < used(j)
                           \/ used(i) = used(j) /\ i <= j
<1>1. /\ at \subseteq Nat
      /\ at # {}
      /\ \A i \in at : used(i) \in Nat /\ used(i) # 0
      /\ S = {accounts[i] : i \in at}
  <2>1. accounts \in Seq(Keys) /\ lastUsed \in [Keys -> Nat]
    BY DEF TypeOK
  <2>2. \A i \in at : i \in Nat /\ accounts[i] \in Keys /\ accounts[i] \in S
    BY <2>1
  <2>3. S = {accounts[i] : i \in at}
    BY DEF ToSet
  <2>4. QED
    BY <2>1, <2>2, <2>3
<1>2. \E i \in at : \A j \in at : Before(i, j)
  <2> HIDE DEF at, used
  <2>1. PICK u \in {used(i) : i \in at} : \A v \in {used(i) : i \in at} : u <= v
    <3>1. {used(i) : i \in at} \subseteq Nat /\ {used(i) : i \in at} # {}
      BY <1>1
    <3>2. QED
      BY <3>1, SmallestOf
  <2>2. PICK i \in {j \in at : used(j) = u} : \A j \in {j \in at : used(j) = u} : i <= j
    <3>1. {j \in at : used(j) = u} \subseteq Nat /\ {j \in at : used(j) = u} # {}
      BY <1>1, <2>1
    <3>2. QED
      BY <3>1, SmallestOf
  <2>3. ASSUME NEW j \in at PROVE Before(i, j)
    <3>1. used(i) = u /\ u <= used(j) /\ u \in Nat /\ used(j) \in Nat
      BY <1>1, <2>1, <2>2
    <3>2. CASE used(j) = u
      BY <2>2, <3>1, <3>2
    <3>3. CASE used(j) # u
      BY <3>1, <3>3
    <3>4. QED
      BY <3>2, <3>3
  <2>4. QED
    BY <2>2, <2>3
<1>3. LeastRecent(S) = accounts[CHOOSE i \in at : \A j \in at : Before(i, j)]
  <2> DEFINE fresh == {i \in at : \A j \in at : used(j) = 0 => j < i}
  <2>1. fresh = at
    BY <1>1
  <2>2. LeastRecent(S) =
           accounts[IF fresh = {} THEN Max(at)
                    ELSE CHOOSE i \in fresh : \A j \in fresh : Before(i, j)]
    BY DEF LeastRecent
  <2> HIDE DEF fresh, at, Before
  <2>3. QED
    BY <1>1, <2>1, <2>2
<1> HIDE DEF at
<1>4. PICK i \in at : LeastRecent(S) = accounts[i] /\ \A j \in at : Before(i, j)
  <2> HIDE DEF Before
  <2>1. QED
    BY <1>2, <1>3
<1>5. \A j \in at : used(i) <= used(j)
  BY <1>1, <1>4
<1>6. QED
  BY <1>1, <1>4, <1>5

LEMMA LeastRecentStep ==
    ASSUME TypeOK, NEW r \in Requests, GetAccountSession(r),
           \A k \in Available({}) : lastUsed[k] > 0
    PROVE  \A k \in Available({}) : lastUsed[held'[r]] <= lastUsed[k]
<1>1. CASE Available({}) = {}
  BY <1>1
<1>2. CASE Available({}) # {}
  <2>1. held'[r] = LeastRecent(Available({}))
    BY <1>2 DEF GetAccountSession, HandOut, TypeOK
  <2>2. Available({}) \in SUBSET ToSet(accounts)
    BY DEF Available
  <2>3. QED
    BY <1>2, <2>1, <2>2, LeastRecentFacts
<1>3. QED
  BY <1>1, <1>2

----------------------------------------------------------------------------
(* The store and the pool.  A mailbox written in two ways may sit twice in   *)
(* the store, and the redis store deletes by exact spelling, so what follows *)
(* is about addresses that are written in one way.                           *)

OneSpelling == \A e, f \in Emails : EqualFold(e, f) => e = f

real(s) == ToSet(s) \ {Guest}

Once(S) == [e \in Emails |-> IF e \in S THEN 1 ELSE 0]

\* How the store's accounts come to the pool and back: Initialize checks each
\* one once, publishes those it kept, and saves what it published, unless a
\* call came in between or an account was loaded twice (clean).
Agreement ==
    clean =>
        /\ Distinct
        /\ boot = "loading" => array = <<>>
        /\ boot = "checking" =>
              /\ \A i, j \in DOMAIN todo : todo[i] = todo[j] => i = j
              /\ \A i, j \in DOMAIN array : array[i] = array[j] => i = j
              /\ \A i \in DOMAIN todo, j \in DOMAIN array : todo[i] # array[j]
        /\ mode # "env" =>
              /\ boot = "published" => array = accounts
              /\ boot = "saving" => snapshot = Once(real(accounts))
              /\ boot = "done" => store = Once(real(accounts))

\* Agreement looks at nothing but these.
LEMMA SameAgreement ==
    ASSUME Agreement, UNCHANGED <<accounts, boot, todo, array, snapshot, mode, clean>>,
           store' = store \/ boot # "done"
    PROVE  Agreement'
BY DEF Agreement, Distinct, EqualFold, real, Once

\* What an add and a delete make of the real accounts.
LEMMA RealGrown ==
    ASSUME TypeOK, GuestFallback, NEW e \in Emails
    PROVE  real(Grown(e)) = real(accounts) \cup {e}
<1> DEFINE base == IF accounts = <<Guest>> THEN <<>> ELSE accounts
<1>1. base \in Seq(Keys) /\ Guest # e
  BY PoolAssumption DEF TypeOK
<1>2. real(base) = real(accounts)
  BY DEF real, ToSet
<1>3. Grown(e) = Append(base, e)
  BY GrownFacts
<1> HIDE DEF base
<1>4. ToSet(Append(base, e)) = ToSet(base) \cup {e}
  <2>1. /\ DOMAIN Append(base, e) = DOMAIN base \cup {Len(base) + 1}
        /\ \A i \in DOMAIN base : Append(base, e)[i] = base[i]
        /\ Append(base, e)[Len(base) + 1] = e
    BY <1>1
  <2>2. QED
    BY <2>1 DEF ToSet
<1>5. QED
  BY <1>1, <1>2, <1>3, <1>4 DEF real

LEMMA RealShrunk ==
    ASSUME TypeOK, GuestFallback, Distinct,
           NEW k \in DOMAIN accounts, accounts[k] # Guest
    PROVE  real(Shrunk(k)) = real(accounts) \ {accounts[k]}
<1> DEFINE rest == RemoveAt(accounts, k)
<1>1. /\ accounts \in Seq(Keys)
      /\ rest \in Seq(Keys)
      /\ Len(rest) = Len(accounts) - 1
      /\ \A j \in 1..(Len(accounts) - 1) :
            /\ j < k => rest[j] = accounts[j]
            /\ j >= k => rest[j] = accounts[j + 1]
  BY RemoveAtFacts DEF TypeOK
<1>2. Shrunk(k) = IF rest = <<>> THEN <<Guest>> ELSE rest
  BY ShrunkFacts
<1> HIDE DEF rest
<1>3. real(Shrunk(k)) = real(rest)
  BY <1>2 DEF real, ToSet
<1>4. ToSet(rest) = ToSet(accounts) \ {accounts[k]}
  <2>1. ASSUME NEW j \in DOMAIN rest
        PROVE  \E i \in DOMAIN accounts : i # k /\ rest[j] = accounts[i]
    <3>1. j \in 1..(Len(accounts) - 1) /\ k \in 1..Len(accounts)
      BY <1>1
    <3>2. CASE j < k
      BY <1>1, <3>1, <3>2
    <3>3. CASE j >= k
      <4>1. j + 1 \in DOMAIN accounts /\ j + 1 # k /\ rest[j] = accounts[j + 1]
        BY <1>1, <3>1, <3>3
      <4>2. QED
        BY <4>1
    <3>4. QED
      BY <3>1, <3>2, <3>3
  <2>2. ASSUME NEW i \in DOMAIN accounts, i # k
        PROVE  \E j \in DOMAIN rest : rest[j] = accounts[i]
    <3>1. i \in 1..Len(accounts) /\ k \in 1..Len(accounts)
      BY <1>1
    <3>2. CASE i < k
      <4>1. i \in 1..(Len(accounts) - 1) /\ rest[i] = accounts[i]
        BY <1>1, <3>1, <3>2
      <4>2. QED
        BY <1>1, <4>1
    <3>3. CASE i > k
      <4> DEFINE j == i - 1
      <4>1. j \in 1..(Len(accounts) - 1) /\ j >= k /\ j + 1 = i
        BY <1>1, <3>1, <3>3
      <4> HIDE DEF j
      <4>2. rest[j] = accounts[i] /\ j \in DOMAIN rest
        BY <1>1, <4>1
      <4>3. QED
        BY <4>2
    <3>4. QED
      BY <2>2, <3>1, <3>2, <3>3
  <2>3. \A i \in DOMAIN accounts : i # k => accounts[i] # accounts[k]
    BY DEF Distinct, EqualFold
  <2>4. QED
    BY <2>1, <2>2, <2>3 DEF ToSet
<1>5. QED
  BY <1>3, <1>4 DEF real

LEMMA BootAgreement ==
    ASSUME OneSpelling, IInv, Agreement, Boot
    PROVE  Agreement'
<1> USE DEF IInv
<1>1. CASE BootLoad
  <2>1. CASE boot' = "checking"
    <3>1. /\ todo' \in LoadAccounts
          /\ clean' => clean /\ \A e \in Emails : store[e] <= 1
          /\ UNCHANGED <<accounts, array>>
          /\ boot = "loading"
      BY <1>1, <2>1 DEF BootLoad, poolVars
    <3>2. clean' => \A i, j \in DOMAIN todo' : todo'[i] = todo'[j] => i = j
      BY <3>1, LoadAccountsFacts DEF TypeOK
    <3>3. clean' => array' = <<>> /\ Distinct'
      BY <3>1 DEF Agreement, Distinct, EqualFold
    <3>4. QED
      BY <2>1, <3>2, <3>3 DEF Agreement
  <2>2. CASE boot' = "failed"
    BY <1>1, <2>2 DEF BootLoad, Agreement, Distinct, EqualFold, poolVars
  <2>3. QED
    BY <1>1, <2>1, <2>2 DEF BootLoad
<1>2. ASSUME BootCheck, clean
      PROVE  Agreement'
  <2>1. /\ boot = "checking" /\ boot' = "checking"
        /\ todo \in Seq(Emails) /\ todo # <<>> /\ array \in Seq(Emails)
        /\ todo' = Tail(todo)
        /\ array' = Append(array, Head(todo)) \/ array' = array
    BY <1>2 DEF BootCheck, TypeOK, Shape
  <2>2. /\ 1 \in DOMAIN todo /\ Head(todo) = todo[1]
        /\ \A i \in DOMAIN todo' : i + 1 \in DOMAIN todo /\ i + 1 # 1
                                   /\ todo'[i] = todo[i + 1]
    BY <2>1
  <2>3. /\ \A i, j \in DOMAIN todo : todo[i] = todo[j] => i = j
        /\ \A i, j \in DOMAIN array : array[i] = array[j] => i = j
        /\ \A i \in DOMAIN todo, j \in DOMAIN array : todo[i] # array[j]
    BY <1>2, <2>1 DEF Agreement
  <2>4. \A i, j \in DOMAIN todo' : todo'[i] = todo'[j] => i = j
    <3>1. ASSUME NEW i \in DOMAIN todo', NEW j \in DOMAIN todo', todo'[i] = todo'[j]
          PROVE  i = j
      <4>1. i + 1 = j + 1
        BY <2>2, <2>3, <3>1
      <4>2. i \in Nat /\ j \in Nat
        BY <2>1
      <4>3. QED
        BY <4>1, <4>2
    <3>2. QED
      BY <3>1
  <2>5. \A i \in DOMAIN todo', j \in DOMAIN array : todo'[i] # array[j]
    BY <2>2, <2>3
  <2>6. /\ \A i, j \in DOMAIN array' : array'[i] = array'[j] => i = j
        /\ \A i \in DOMAIN todo', j \in DOMAIN array' : todo'[i] # array'[j]
    <3>1. CASE array' = array
      BY <2>3, <2>5, <3>1
    <3>2. CASE array' = Append(array, Head(todo))
      <4>1. /\ DOMAIN array' = DOMAIN array \cup {Len(array) + 1}
            /\ Len(array) + 1 \notin DOMAIN array
            /\ \A i \in DOMAIN array : array'[i] = array[i]
            /\ array'[Len(array) + 1] = todo[1]
        BY <2>1, <2>2, <3>2
      <4>2. \A i \in DOMAIN todo' : todo'[i] # todo[1]
        BY <2>2, <2>3
      <4>3. \A j \in DOMAIN array : array[j] # todo[1]
        BY <2>2, <2>3
      <4>4. QED
        BY <2>3, <2>5, <4>1, <4>2, <4>3
    <3>3. QED
      BY <2>1, <3>1, <3>2
  <2>7. Distinct'
    BY <1>2 DEF BootCheck, Agreement, Distinct, EqualFold, poolVars
  <2>8. QED
    BY <2>1, <2>4, <2>6, <2>7 DEF Agreement
<1>3. ASSUME BootPublish, clean
      PROVE  Agreement'
  <2>1. Distinct'
    <3>1. CASE array = <<>>
      BY <1>3, <3>1 DEF BootPublish, Distinct
    <3>2. CASE array # <<>>
      <4>1. accounts' = array /\ array \in Seq(Emails)
        BY <1>3, <3>2 DEF BootPublish, Shape
      <4>2. \A i, j \in DOMAIN array : array[i] = array[j] => i = j
        BY <1>3 DEF BootPublish, Agreement
      <4>3. \A i \in DOMAIN array : array[i] \in Emails
        BY <4>1
      <4>4. QED
        BY <4>1, <4>2, <4>3 DEF Distinct, OneSpelling, EqualFold
    <3>3. QED
      BY <3>1, <3>2
  <2>2. QED
    BY <1>3, <2>1 DEF BootPublish, Agreement
<1>4. ASSUME BootFilter, clean
      PROVE  Agreement'
  <2>1. Distinct /\ boot' = "saving" /\ UNCHANGED <<accounts, mode>>
    BY <1>4 DEF BootFilter, Agreement, poolVars, storeVars
  <2>2. mode # "env" => snapshot' = filterPersistentAccounts(accounts)
    BY <1>4 DEF BootFilter, Agreement
  <2>3. filterPersistentAccounts(accounts) = Once(real(accounts))
    <3>1. \A i, j \in DOMAIN accounts : accounts[i] = accounts[j] => i = j
      BY <2>1 DEF Distinct, EqualFold
    <3>2. \A e \in Emails : filterPersistentAccounts(accounts)[e]
                            = IF e \in ToSet(accounts) THEN 1 ELSE 0
      BY <3>1, FilteredFacts DEF TypeOK
    <3>3. \A e \in Emails : e \in ToSet(accounts) <=> e \in real(accounts)
      BY PoolAssumption DEF real
    <3>4. QED
      BY <3>2, <3>3 DEF filterPersistentAccounts, Once
  <2>4. QED
    BY <2>1, <2>2, <2>3 DEF Agreement, Distinct, EqualFold, real, Once
<1>5. ASSUME BootSave, clean
      PROVE  Agreement'
  <2>1. Distinct'
    BY <1>5 DEF BootSave, Agreement, Distinct, EqualFold, poolVars
  <2>2. (clean' /\ mode # "env") => store' = Once(real(accounts))
    <3>1. (clean' /\ mode # "env") =>
             /\ snapshot = Once(real(accounts))
             /\ store' \in SaveAllAccounts(snapshot)
      BY <1>5 DEF BootSave, Writes, Refuses, Breaks, Agreement
    <3>2. snapshot = Once(real(accounts)) => \A e \in Emails : snapshot[e] <= 1
      BY DEF Once
    <3>3. QED
      BY <3>1, <3>2, SaveAllAccountsFacts DEF TypeOK
  <2>3. boot' = "done" /\ UNCHANGED <<accounts, mode>>
    BY <1>5 DEF BootSave, poolVars
  <2>4. QED
    BY <2>1, <2>2, <2>3 DEF Agreement, real, Once
<1>6. ASSUME ~clean, ~BootLoad
      PROVE  Agreement'
  <2>1. ~clean'
    BY <1>6 DEF Boot, BootCheck, BootPublish, BootFilter, BootSave, histVars
  <2>2. QED
    BY <2>1 DEF Agreement
<1>7. QED
  BY <1>1, <1>2, <1>3, <1>4, <1>5, <1>6 DEF Boot

\* Where addresses are written in one way, both stores match alike.
LEMMA OneKey ==
    ASSUME OneSpelling, NEW e \in Emails, NEW f \in Emails
    PROVE  SameKey(e, f) <=> e = f
BY DEF SameKey, OneSpelling, EqualFold

\* Saving an account of a store that has each once, and dropping one.
LEMMA SavedOnce ==
    ASSUME OneSpelling, NEW S, store = Once(S), NEW e \in Emails
    PROVE  SaveAccount(e) = {Once(S \cup {e})}
<1> DEFINE same == {f \in Stored : SameKey(f, e)}
<1>1. same = IF e \in S THEN {e} ELSE {}
  <2>1. Stored = {f \in Emails : f \in S}
    BY DEF Stored, Once
  <2>2. \A f \in Stored : SameKey(f, e) <=> f = e
    BY <2>1, OneKey
  <2>3. QED
    BY <2>1, <2>2
<1>2. CASE e \in S
  <2>1. Once(S \cup {e}) = store
    BY <1>2 DEF Once
  <2>2. SaveAccount(e) = {store}
    BY <1>1, <1>2 DEF SaveAccount
  <2>3. QED
    BY <2>1, <2>2
<1>3. CASE e \notin S
  <2>1. [store EXCEPT ![e] = @ + 1] = Once(S \cup {e})
    BY <1>3 DEF Once
  <2>2. QED
    BY <1>1, <1>3, <2>1 DEF SaveAccount
<1>4. QED
  BY <1>2, <1>3

LEMMA WithoutOnce ==
    ASSUME OneSpelling, NEW S, store = Once(S), NEW e \in Emails
    PROVE  Without(e) = {Once(S \ {e})}
BY OneKey DEF Without, Once

LEMMA RefreshKeepsStore ==
    ASSUME OneSpelling, TypeOK, NEW k, RefreshEffect(k),
           mode # "env", store = Once(real(accounts))
    PROVE  store' = store
<1>1. ASSUME NEW i \in DOMAIN accounts, accounts[i] # Guest
      PROVE  SaveAccount(accounts[i]) = {store}
  <2>1. accounts[i] \in Emails /\ accounts[i] \in real(accounts)
    BY <1>1 DEF TypeOK, Keys, real, ToSet
  <2>2. real(accounts) \cup {accounts[i]} = real(accounts)
    BY <2>1
  <2>3. QED
    BY <2>1, <2>2, SavedOnce
<1>2. QED
  BY <1>1 DEF RefreshEffect, Writes, Refuses, Breaks

LEMMA AdministerAgreement ==
    ASSUME OneSpelling, IInv, Agreement, Administer, clean
    PROVE  Agreement'
<1> USE DEF IInv
<1>1. Distinct'
  <2>1. boot' = boot
    BY DEF Administer, AddAccount, AddSignInFails, AddRejected, bootVars,
           AddAccountWithToken, DeleteAccount, RefreshAccount,
           RefreshAllAccounts, RefreshNext
  <2>2. Next /\ Distinct
    BY DEF Next, Agreement
  <2>3. QED
    BY <2>1, <2>2, DistinctStep
<1>2. ASSUME NEW p \in Adders, AddAccountWithToken(p) PROVE Agreement'
  <2> DEFINE e == adding[p]
  <2>1. e \in Emails /\ ~Listed(e)
    BY <1>2 DEF AddAccountWithToken, MayInsert, TypeOK
  <2>2. /\ boot' = boot /\ mode' = mode /\ todo' = todo
        /\ clean' = (clean /\ ~Booting)
        /\ array' = WriteThrough(Grown(e))
        /\ \/ store' \in SaveAccount(e) /\ accounts' = Grown(e)
           \/ mode = "env"
           \/ store' = store /\ accounts' = accounts
    BY <1>2 DEF AddAccountWithToken, Writes, Refuses, Breaks, Previous
  <2> HIDE DEF e
  <2>3. CASE boot \in {"loading", "checking"}
    <3>1. array' = array
      <4>1. Grown(e) \in Seq(Keys)
        BY <2>1, GrownFacts, SeqMonotonic DEF Keys, Shape
      <4>2. QED
        BY <2>2, <2>3, <4>1, WriteThroughFacts DEF Shape, TypeOK
    <3>2. QED
      BY <1>1, <2>2, <2>3, <3>1 DEF Agreement, Booting
  <2>4. CASE boot = "done"
    <3>1. ASSUME mode # "env" PROVE store' = Once(real(accounts'))
      <4>1. store = Once(real(accounts))
        BY <2>4, <3>1 DEF Agreement
      <4>2. ASSUME accounts' = Grown(e), store' \in SaveAccount(e)
            PROVE  store' = Once(real(accounts'))
        BY <2>1, <4>1, <4>2, SavedOnce, RealGrown DEF Shape
      <4>3. QED
        BY <2>2, <3>1, <4>1, <4>2
    <3>2. QED
      BY <1>1, <2>2, <2>4, <3>1 DEF Agreement, real, Once
  <2>5. CASE boot \notin {"loading", "checking", "done"}
    BY <1>1, <2>2, <2>5 DEF Agreement, Booting
  <2>6. QED
    BY <2>3, <2>4, <2>5
<1>3. ASSUME NEW e \in Emails, DeleteAccount(e) PROVE Agreement'
  <2>1. PICK i \in DOMAIN accounts :
            /\ EqualFold(accounts[i], e)
            /\ accounts[i] # Guest
            /\ accounts' = Shrunk(i)
            /\ array' = WriteThrough(Shrunk(i))
            /\ \/ /\ store' \in Without(e)
                  /\ clean' = (clean /\ ~Booting)
               \/ mode = "env"
               \/ clean' = FALSE
            /\ UNCHANGED <<boot, todo, mode>>
    BY <1>3 DEF DeleteAccount, FirstMatch, Writes, Refuses, Breaks
  <2>2. Shrunk(i) \in Seq(Keys)
    BY <2>1, ShrunkFacts DEF Shape
  <2>3. CASE boot \in {"loading", "checking"}
    <3>1. array' = array
      BY <2>1, <2>2, <2>3, WriteThroughFacts DEF Shape, TypeOK
    <3>2. QED
      BY <1>1, <2>1, <2>3, <3>1 DEF Agreement, Booting
  <2>4. CASE boot = "done"
    <3>1. ASSUME clean', mode # "env" PROVE store' = Once(real(accounts'))
      <4>1. store' \in Without(e)
        BY <2>1, <3>1
      <4>2. store = Once(real(accounts))
        BY <2>4, <3>1 DEF Agreement
      <4>3. accounts[i] = e
        BY <2>1 DEF OneSpelling, TypeOK, Keys
      <4>4. store' = Once(real(accounts) \ {e})
        BY <4>1, <4>2, WithoutOnce
      <4>5. QED
        BY <2>1, <4>3, <4>4, RealShrunk DEF Agreement, Shape
    <3>2. QED
      BY <1>1, <2>1, <2>4, <3>1 DEF Agreement, real, Once
  <2>5. CASE boot \notin {"loading", "checking", "done"}
    BY <1>1, <2>1, <2>5 DEF Agreement, Booting
  <2>6. QED
    BY <2>3, <2>4, <2>5
<1>4. ASSUME NEW k, RefreshEffect(k),
             UNCHANGED <<accounts, boot, todo, array, snapshot, mode, clean>>
      PROVE  Agreement'
  <2>1. CASE boot = "done" /\ mode # "env"
    <3>1. store' = store
      BY <1>4, <2>1, RefreshKeepsStore DEF Agreement
    <3>2. QED
      BY <1>4, <3>1, SameAgreement
  <2>2. CASE ~(boot = "done" /\ mode # "env")
    BY <1>1, <1>4, <2>2 DEF Agreement, real, Once
  <2>3. QED
    BY <2>1, <2>2
<1>5. \/ UNCHANGED <<accounts, boot, todo, array, snapshot, mode, clean, store>>
      \/ \E p \in Adders : AddAccountWithToken(p)
      \/ \E e \in Emails : DeleteAccount(e)
      \/ \E k : /\ RefreshEffect(k)
                /\ UNCHANGED <<accounts, boot, todo, array, snapshot, mode, clean>>
  BY DEF Administer, AddAccount, AddSignInFails, AddRejected, RefreshAccount,
         RefreshAllAccounts, RefreshNext, poolVars, bootVars, storeVars, histVars
<1>6. QED
  BY <1>2, <1>3, <1>4, <1>5, SameAgreement

LEMMA NextAgreement ==
    ASSUME OneSpelling, IInv, Agreement, [Next]_vars
    PROVE  Agreement'
<1>1. CASE Serve
  <2>1. UNCHANGED <<accounts, boot, todo, array, snapshot, mode, clean, store>>
    BY <1>1 DEF Serve, GetAccountSession, GetAccountSessionByEmail,
       GetAccountSessionExcluding, RecordFailure, ResetFailure, Release,
       poolVars, bootVars, storeVars, histVars
  <2>2. QED
    BY <2>1, SameAgreement
<1>2. CASE Environment
  <2>1. CASE Restart
    BY <2>1 DEF Restart, Agreement, Distinct
  <2>2. CASE ~Restart
    <3>1. UNCHANGED <<accounts, boot, todo, array, snapshot, mode, clean, store>>
      BY <1>2, <2>2 DEF Environment, MinutesPass, TokenExpires,
         poolVars, bootVars, storeVars, histVars
    <3>2. QED
      BY <3>1, SameAgreement
  <2>3. QED
    BY <2>1, <2>2
<1>3. CASE UNCHANGED vars
  BY <1>3, SameAgreement DEF vars, poolVars, bootVars, storeVars, histVars
<1>4. CASE Administer /\ ~clean
  <2>1. ~clean'
    BY <1>4 DEF Administer, AddAccount, AddSignInFails, AddRejected,
       AddAccountWithToken, DeleteAccount, RefreshAccount, RefreshAllAccounts,
       RefreshNext, histVars
  <2>2. QED
    BY <2>1 DEF Agreement
<1>5. QED
  BY <1>1, <1>2, <1>3, <1>4, BootAgreement, AdministerAgreement DEF Next

----------------------------------------------------------------------------
(* The pool implements Rotation.  "cool" is the refinement mapping's value   *)
(* of Rotation's "cooling".                                                  *)

cool == {k \in Keys : InCooldown(k)}

LEMMA LegalPool ==
    ASSUME NEW s \in Seq(Keys), s # <<>>, Guest \in ToSet(s) => s = <<Guest>>
    PROVE  ToSet(s) \in Promise!Pools
<1>1. ToSet(s) # {} /\ ToSet(s) \subseteq Keys
  <2>1. s[1] \in ToSet(s)
    BY DEF ToSet
  <2>2. QED
    BY <2>1 DEF ToSet
<1>2. CASE Guest \in ToSet(s)
  <2>1. s = <<Guest>>
    BY <1>2
  <2>2. ToSet(s) = {Guest}
    BY <2>1 DEF ToSet
  <2>3. QED
    BY <2>2 DEF Promise!Pools
<1>3. CASE Guest \notin ToSet(s)
  BY <1>1, <1>3 DEF Promise!Pools, Keys
<1>4. QED
  BY <1>2, <1>3

\* Nothing cools down under lowered counters and fewer recent uses.
LEMMA Cooler ==
    ASSUME TypeOK, recent' \subseteq recent,
           \A k \in Keys : failures'[k] \in {failures[k], 0}
    PROVE  cool' \subseteq cool
<1>1. MaxFailures \in Nat /\ ~(0 >= MaxFailures)
  BY PoolAssumption
<1>2. QED
  BY <1>1 DEF cool, InCooldown, TypeOK

\* Handing out an account of the pool neither starts nor ends a cool-down,
\* nor does the forgiving that comes with it.
LEMMA CoolKept ==
    ASSUME TypeOK, ForgiveRested,
           \/ UNCHANGED recent
           \/ \E k \in ToSet(accounts) : recent' = recent \cup {k}
    PROVE  cool' = cool
<1>1. MaxFailures \in Nat /\ ~(0 >= MaxFailures)
  BY PoolAssumption
<1>2. ASSUME NEW k \in Keys PROVE InCooldown(k)' <=> InCooldown(k)
  <2>1. failures'[k] = IF k \in ToSet(accounts) /\ failures[k] >= MaxFailures
                         /\ k \notin recent
                      THEN 0 ELSE failures[k]
    BY DEF ForgiveRested
  <2>2. CASE k \in ToSet(accounts) /\ failures[k] >= MaxFailures /\ k \notin recent
    BY <1>1, <2>1, <2>2 DEF InCooldown
  <2>3. CASE ~(k \in ToSet(accounts) /\ failures[k] >= MaxFailures /\ k \notin recent)
    <3>1. failures'[k] = failures[k]
      BY <2>1, <2>3
    <3>2. failures[k] >= MaxFailures => (k \in recent' <=> k \in recent)
      BY <2>3
    <3>3. QED
      BY <3>1, <3>2 DEF InCooldown
  <2>4. QED
    BY <2>2, <2>3
<1>3. QED
  BY <1>2 DEF cool

LEMMA ChangeStep ==
    ASSUME IInv, IInv', UNCHANGED held,
           initialized' = initialized \/ initialized' = TRUE,
           UNCHANGED accounts \/ accounts' # <<>>,
           cool' \subseteq cool
    PROVE  Promise!Next
<1>1. ToSet(accounts)' \in Promise!Pools \cup {ToSet(accounts)}
  <2>1. CASE UNCHANGED accounts
    BY <2>1
  <2>2. CASE accounts' # <<>>
    <3>1. /\ accounts' \in Seq(Keys)
          /\ Guest \in ToSet(accounts') => accounts' = <<Guest>>
      BY DEF IInv, Shape, TypeOK, GuestFallback
    <3>2. ToSet(accounts') \in Promise!Pools
      BY <2>2, <3>1, LegalPool
    <3>3. QED
      BY <3>2
  <2>3. QED
    BY <2>1, <2>2
<1>2. initialized' \in {initialized, TRUE}
  BY DEF IInv, TypeOK
<1>3. initialized' => ToSet(accounts)' # {}
  <2>1. initialized' => accounts' # <<>> /\ accounts' \in Seq(Keys)
    BY DEF IInv, Shape, GuestFallback, TypeOK
  <2>2. accounts' # <<>> /\ accounts' \in Seq(Keys) => accounts'[1] \in ToSet(accounts')
    BY DEF ToSet
  <2>3. QED
    BY <2>1, <2>2
<1>4. Promise!Change
  BY <1>1, <1>2, <1>3 DEF Promise!Change, cool
<1>5. QED
  BY <1>4 DEF Promise!Next

\* Start-up, seen from the requests, publishes a pool.
LEMMA BootRotates ==
    ASSUME IInv, IInv', Boot
    PROVE  Promise!Next \/ UNCHANGED Promise!vars
<1>1. CASE BootPublish
  <2>1. accounts' # <<>> /\ UNCHANGED held /\ initialized' = TRUE
    BY <1>1 DEF BootPublish
  <2>2. cool' = cool
    BY <1>1 DEF BootPublish, cool, InCooldown
  <2>3. QED
    BY <2>1, <2>2, ChangeStep
<1>2. CASE BootLoad \/ BootCheck \/ BootFilter \/ BootSave
  <2>1. UNCHANGED <<poolVars, held>>
    BY <1>2 DEF BootLoad, BootCheck, BootFilter, BootSave
  <2>2. QED
    BY <2>1 DEF poolVars, Promise!vars, InCooldown
<1>3. QED
  BY <1>1, <1>2 DEF Boot

\* So do the administrator's calls, which may let accounts rest.
LEMMA AdministerRotates ==
    ASSUME IInv, IInv', Administer
    PROVE  Promise!Next \/ UNCHANGED Promise!vars
<1> USE DEF IInv
<1>1. ASSUME UNCHANGED <<poolVars, held>>
      PROVE  UNCHANGED Promise!vars
  BY <1>1 DEF poolVars, Promise!vars, InCooldown
<1>2. ASSUME NEW p \in Adders, AddAccountWithToken(p) PROVE Promise!Next \/ UNCHANGED Promise!vars
  <2>1. adding[p] \in Emails
    BY <1>2 DEF AddAccountWithToken, TypeOK
  <2>2. Grown(adding[p]) # <<>>
    BY <2>1, GrownFacts DEF Shape
  <2>3. UNCHANGED accounts \/ accounts' # <<>>
    BY <1>2, <2>2 DEF AddAccountWithToken, Previous
  <2>4. cool' = cool /\ UNCHANGED <<held, initialized>>
    BY <1>2 DEF AddAccountWithToken, cool, InCooldown
  <2>5. QED
    BY <2>3, <2>4, ChangeStep
<1>3. ASSUME NEW e \in Emails, DeleteAccount(e) PROVE Promise!Next
  <2>1. accounts' # <<>>
    <3>1. PICK i \in DOMAIN accounts : accounts[i] # Guest /\ accounts' = Shrunk(i)
      BY <1>3 DEF DeleteAccount
    <3>2. QED
      BY <3>1, ShrunkFacts DEF Shape
  <2>2. /\ recent' \subseteq recent
        /\ \A k \in Keys : failures'[k] \in {failures[k], 0}
        /\ UNCHANGED <<held, initialized>>
    BY <1>3 DEF DeleteAccount, TypeOK
  <2>3. cool' \subseteq cool
    BY <2>2, Cooler
  <2>4. QED
    BY <2>1, <2>2, <2>3, ChangeStep
<1>4. ASSUME NEW k, RefreshEffect(k),
             UNCHANGED <<accounts, initialized, recent, held>>
      PROVE  Promise!Next
  <2>1. \A j \in Keys : failures'[j] \in {failures[j], 0}
    BY <1>4 DEF RefreshEffect, TypeOK
  <2>2. cool' \subseteq cool
    BY <1>4, <2>1, Cooler
  <2>3. QED
    BY <1>4, <2>2, ChangeStep
<1>5. QED
  <2>1. \/ UNCHANGED <<poolVars, held>>
        \/ \E p \in Adders : AddAccountWithToken(p)
        \/ \E e \in Emails : DeleteAccount(e)
        \/ \E k : /\ RefreshEffect(k)
                  /\ UNCHANGED <<accounts, initialized, recent, held>>
    BY DEF Administer, AddAccount, AddSignInFails, AddRejected,
           RefreshAccount, RefreshAllAccounts, RefreshNext
  <2>2. QED
    BY <1>1, <1>2, <1>3, <1>4, <2>1

\* Every account handed out, and every outcome reported, is one of Rotation's.
LEMMA ServeRotates ==
    ASSUME IInv, IInv', Serve
    PROVE  Promise!Next \/ UNCHANGED Promise!vars
<1> USE DEF IInv
<1>1. /\ ToSet(accounts) \subseteq Keys
      /\ \A i \in DOMAIN accounts : accounts[i] \in ToSet(accounts)
  BY DEF TypeOK, ToSet
<1>2. \A X : Available(X) = Promise!Rested(X)
  BY <1>1 DEF Available, Promise!Rested
<1>3. ASSUME NEW r \in Requests, NEW k \in ToSet(accounts), held[r] = None,
             initialized, HandOut(r, k), ForgiveRested,
             UNCHANGED <<accounts, initialized>>
      PROVE  Promise!Take(r, k)
  <2>1. cool' = cool
    BY <1>3, CoolKept DEF HandOut, Touch
  <2>2. QED
    BY <1>3, <2>1 DEF HandOut, Promise!Take, cool
<1>4. ASSUME NEW r \in Requests, NEW X \in SUBSET Keys, NEW k \in Available(X),
             held[r] = None, initialized, HandOut(r, k), ForgiveRested,
             UNCHANGED <<accounts, initialized>>
      PROVE  Promise!Next
  <2>1. Promise!Take(r, k)
    BY <1>3, <1>4 DEF Available
  <2>2. Promise!TakeExcluding(r, X)
    BY <1>2, <2>1 DEF Promise!TakeExcluding
  <2>3. X \in SUBSET Promise!Keys
    BY DEF Promise!Keys, Keys
  <2>4. QED
    BY <2>2, <2>3 DEF Promise!Next
<1>5. ASSUME ForgiveRested,
             UNCHANGED <<accounts, initialized, held, lastUsed, recent>>
      PROVE  UNCHANGED Promise!vars
  <2>1. cool' = cool
    BY <1>5, CoolKept
  <2>2. QED
    BY <1>5, <2>1 DEF Promise!vars, cool
<1>6. ASSUME NEW r \in Requests, GetAccountSession(r) PROVE Promise!Next
  <2>1. ASSUME NEW k \in Available({}), HandOut(r, k) PROVE Promise!Next
    <3>1. {} \in SUBSET Keys
      OBVIOUS
    <3>2. QED
      BY <1>4, <1>6, <2>1, <3>1 DEF GetAccountSession
  <2>2. CASE Available({}) = {} /\ RoundRobin(r)
    <3>1. PICK i \in DOMAIN accounts : HandOut(r, accounts[i])
      BY <1>6, <2>2, RoundRobinPicks DEF GetAccountSession, TypeOK
    <3>2. Promise!Take(r, accounts[i]) /\ accounts[i] \in ToSet(accounts)
      BY <1>1, <1>3, <1>6, <3>1 DEF GetAccountSession
    <3>3. ToSet(accounts) \subseteq cool
      BY <1>1, <2>2 DEF Available, cool
    <3>4. Promise!TakeAny(r)
      BY <3>2, <3>3 DEF Promise!TakeAny, cool
    <3>5. QED
      BY <3>4 DEF Promise!Next
  <2>3. QED
    BY <1>6, <2>1, <2>2 DEF GetAccountSession
<1>7. ASSUME NEW r \in Requests, NEW e, GetAccountSessionByEmail(r, e)
      PROVE  Promise!Next \/ UNCHANGED Promise!vars
  <2>1. CASE UNCHANGED <<held, lastUsed, recent>>
    BY <1>5, <1>7, <2>1 DEF GetAccountSessionByEmail
  <2>2. ASSUME NEW i \in DOMAIN accounts, ServesEmail(i, e), HandOut(r, accounts[i])
        PROVE  Promise!Next
    <3>1. {} \in SUBSET Keys /\ accounts[i] \in Available({})
      BY <2>2 DEF ServesEmail
    <3>2. QED
      BY <1>4, <1>7, <2>2, <3>1 DEF GetAccountSessionByEmail
  <2>3. QED
    BY <1>7, <2>1, <2>2 DEF GetAccountSessionByEmail
<1>8. ASSUME NEW r \in Requests, NEW X \in SUBSET Keys,
             GetAccountSessionExcluding(r, X)
      PROVE  Promise!Next \/ UNCHANGED Promise!vars
  BY <1>4, <1>5, <1>8 DEF GetAccountSessionExcluding
<1>9. ASSUME NEW r \in Requests, RecordFailure(r) PROVE Promise!Next
  <2>1. held[r] \in Keys /\ held[r] # None
    BY <1>9 DEF RecordFailure, TypeOK
  <2>2. \A k \in Keys \ {held[r]} : InCooldown(k)' <=> InCooldown(k)
    BY <1>9, <2>1 DEF RecordFailure, Failed, Touch, InCooldown, TypeOK
  <2>3. InCooldown(held[r]) => (failures'[held[r]] >= MaxFailures /\ held[r] \in recent')
    <3> DEFINE k == held[r]
    <3>1. MaxFailures \in Nat /\ failures[k] \in 0..MaxFailures
      BY PoolAssumption, <2>1 DEF TypeOK
    <3>2. failures'[k] = IF failures[k] < MaxFailures THEN failures[k] + 1
                         ELSE failures[k]
      BY <1>9, <2>1 DEF RecordFailure, Failed, TypeOK
    <3>3. k \in recent'
      BY <1>9 DEF RecordFailure, Touch
    <3> HIDE DEF k
    <3>4. failures[k] >= MaxFailures => failures'[k] >= MaxFailures
      BY <3>1, <3>2
    <3>5. QED
      BY <3>3, <3>4 DEF InCooldown, k
  <2>4. cool' \in {cool, cool \cup {held[r]}}
    <3>1. InCooldown(held[r]) => held[r] \in cool'
      BY <1>9, <2>1, <2>3 DEF RecordFailure, cool, InCooldown
    <3>2. \A k \in Keys \ {held[r]} : k \in cool' <=> k \in cool
      BY <2>2 DEF cool
    <3>3. cool \subseteq Keys /\ cool' \subseteq Keys
      BY DEF cool
    <3>4. held[r] \in cool => held[r] \in cool'
      BY <3>1 DEF cool
    <3>5. QED
      BY <3>2, <3>3, <3>4
  <2>5. Promise!RecordFailure(r)
    BY <1>9, <2>4 DEF RecordFailure, Promise!RecordFailure, cool
  <2>6. QED
    BY <2>5 DEF Promise!Next
<1>10. ASSUME NEW r \in Requests, ResetFailure(r) PROVE Promise!Next
  <2>1. MaxFailures \in Nat /\ ~(0 >= MaxFailures)
    BY PoolAssumption
  <2>2. held[r] \in Keys
    BY <1>10 DEF ResetFailure, TypeOK
  <2>3. cool' = cool \ {held[r]}
    BY <1>10, <2>1, <2>2 DEF ResetFailure, cool, InCooldown, TypeOK
  <2>4. Promise!ResetFailure(r)
    BY <1>10, <2>3 DEF ResetFailure, Promise!ResetFailure, cool
  <2>5. QED
    BY <2>4 DEF Promise!Next
<1>11. ASSUME NEW r \in Requests, Release(r) PROVE Promise!Next
  <2>1. Promise!Release(r)
    BY <1>11 DEF Release, Promise!Release, poolVars, InCooldown
  <2>2. QED
    BY <2>1 DEF Promise!Next
<1>12. QED
  BY <1>6, <1>7, <1>8, <1>9, <1>10, <1>11 DEF Serve

LEMMA EnvironmentRotates ==
    ASSUME IInv, IInv', Environment
    PROVE  Promise!Next \/ UNCHANGED Promise!vars
<1> USE DEF IInv
<1>1. CASE MinutesPass
  <2>1. recent' \subseteq recent /\ UNCHANGED <<accounts, initialized, held, failures>>
    BY <1>1 DEF MinutesPass
  <2>2. QED
    BY <2>1, Cooler, ChangeStep
<1>2. ASSUME NEW e \in Emails, TokenExpires(e) PROVE UNCHANGED Promise!vars
  BY <1>2 DEF TokenExpires, poolVars, Promise!vars, InCooldown
<1>3. CASE Restart
  <2>1. MaxFailures \in Nat /\ ~(0 >= MaxFailures)
    BY PoolAssumption
  <2>2. Promise!Restart
    BY <1>3, <2>1 DEF Restart, Promise!Restart, InCooldown, ToSet
  <2>3. QED
    BY <2>2 DEF Promise!Next
<1>4. QED
  BY <1>1, <1>2, <1>3 DEF Environment

----------------------------------------------------------------------------
(* The theorems. *)

\* In every behaviour the pool that Initialize and the other calls leave has its type and
\* shape.
THEOREM Invariance == Spec => []IInv
<1>1. IInv /\ [Next]_vars => IInv'
  BY BootIInv, AdministerIInv, ServeIInv, EnvironmentIInv, StutterIInv DEF Next
<1>2. QED
  BY InitIInv, <1>1, PTL DEF Spec

\* Every reachable state is well typed, for any number of callers, restarts
\* and accounts.
THEOREM TypeCorrect == Spec => []TypeOK
<1>1. IInv => TypeOK
  BY DEF IInv
<1>2. QED
  BY Invariance, <1>1, PTL

\* The pool is never empty once initialized, and never mixes the guest with
\* real accounts: start-up, adds (rolled back or not), deletes and the array
\* that Initialize still holds included.
THEOREM GuestFallbackHolds == Spec => []GuestFallback
<1>1. IInv => GuestFallback
  BY DEF IInv, Shape
<1>2. QED
  BY Invariance, <1>1, PTL

\* Whatever the callers of AddAccount and their sign-ins interleave, no step
\* after Initialize gives one mailbox a second entry.
THEOREM NeverListedTwice == Spec => StaysDistinct
<1>1. IInv /\ [Next]_vars => [(Distinct /\ boot' = boot) => Distinct']_vars
  BY DistinctStep
<1>2. QED
  BY Invariance, <1>1, PTL DEF Spec, StaysDistinct

\* However additions, deletions, refreshes, rollbacks and crashes interleave,
\* the store holds each of the pool's real accounts once, and no other, when
\* Initialize is over, unless a write failed, a call overlapped Initialize or
\* the process loaded an account twice.
THEOREM StoreAgreesHolds ==
    ASSUME OneSpelling
    PROVE  Spec => []StoreAgrees
<1>1. Init => Agreement
  BY DEF Init, Agreement, Distinct
<1>2. IInv /\ Agreement /\ [Next]_vars => Agreement'
  BY NextAgreement
<1>3. Agreement => StoreAgrees
  BY PoolAssumption DEF Agreement, StoreAgrees, Once, real
<1>4. QED
  BY Invariance, <1>1, <1>2, <1>3, PTL DEF Spec

\* Whatever requests, failures and administrators interleave, an account is
\* handed out only from the pool, and while it cools down only in distress.
THEOREM RestedFirst == Spec => HandsOutRested
<1>1. IInv /\ [Next]_vars =>
         [\A r \in Requests :
            (held'[r] # held[r] /\ held'[r] # None) =>
                /\ held'[r] \in ToSet(accounts)
                /\ InCooldown(held'[r]) => \A k \in ToSet(accounts) : InCooldown(k)
         ]_vars
  BY HandOutStep DEF Deserved
<1>2. QED
  BY Invariance, <1>1, PTL DEF Spec, HandsOutRested

\* For any pool and any history of uses, the scan hands out the account used
\* longest ago as soon as every one was used.
THEOREM LeastRecentServesHolds == Spec => LeastRecentServes
<1>1. IInv /\ [Next]_vars =>
         [\A r \in Requests :
            (GetAccountSession(r) /\ \A k \in Available({}) : lastUsed[k] > 0) =>
                \A k \in Available({}) : lastUsed[held'[r]] <= lastUsed[k]
         ]_vars
  BY LeastRecentStep DEF IInv
<1>2. QED
  BY Invariance, <1>1, PTL DEF Spec, LeastRecentServes

\* What requests see of the pool, for any number of them: nothing that
\* Rotation does not allow.
THEOREM ImplementsPromise == Spec => ImplementsRotation
<1>1. Init => Promise!Init
  <2>1. ASSUME Init PROVE Promise!Init
    <3>1. MaxFailures \in Nat /\ ~(0 >= MaxFailures)
      BY PoolAssumption
    <3>2. QED
      BY <2>1, <3>1 DEF Init, Promise!Init, InCooldown, ToSet
  <2>2. QED
    BY <2>1
<1>2. IInv /\ IInv' /\ [Next]_vars => [Promise!Next]_(Promise!vars)
  <2>1. ASSUME UNCHANGED vars PROVE UNCHANGED Promise!vars
    BY <2>1 DEF vars, poolVars, Promise!vars, InCooldown
  <2>2. QED
    BY <2>1, BootRotates, AdministerRotates, ServeRotates, EnvironmentRotates
    DEF Next
<1>3. QED
  BY Invariance, <1>1, <1>2, PTL DEF Spec, ImplementsRotation, Promise!Spec
============================================================================
