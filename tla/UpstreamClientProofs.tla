----------------------- MODULE UpstreamClientProofs -----------------------
(***************************************************************************)
(* Proofs about the guest cookies of UpstreamClient, for every set of      *)
(* callers.                                                                *)
(***************************************************************************)
EXTENDS UpstreamClient, TLAPS, WellFoundedInduction

\* A call that has not sent anything has not failed.
Untried == \A c \in Callers : pc[c] \in {"idle", "lookup"} => phase[c] = "first"

\* guestMu is held by the caller that fetches, and by nobody else.
Exclusive == \A c \in Callers : pc[c] = "fetch" <=> guestMu.holder = c

\* Usable cookies are fetched anew by force only.
Needed == \A c \in Callers : pc[c] = "fetch" => Forced(c) \/ ~guestAuth.usable

\* Who fetches gets cookies newer than its own failure, and so do all who are about to
\* send for the second time.
FetchIsFresh ==
    \A c \in Callers :
        \/ pc[c] = "fetch" /\ phase[c] # "first"
        \/ guestMu.holder # NoOne /\ phase[c] = "second"
        => c \in guestMu.after

\* Cookies kept for a second attempt are newer than the failure of the first.
KeptIsFresh ==
    \A c \in Callers : phase[c] = "second" /\ guestAuth.usable => c \in guestAuth.after

IInv ==
    /\ CookiesOK
    /\ Untried
    /\ Exclusive
    /\ Needed
    /\ FetchIsFresh
    /\ KeptIsFresh
    /\ RetryIsFresh

-----------------------------------------------------------------------------

LEMMA InitInv == Init => IInv
<1> SUFFICES ASSUME Init PROVE IInv
  OBVIOUS
<1> USE CallersAssumption DEF Init, NoCookies
<1>1. CookiesOK
  BY DEF CookiesOK, Steps, Phases
<1>2. Untried /\ Exclusive /\ Needed
  BY DEF Untried, Exclusive, Needed
<1>3. FetchIsFresh /\ KeptIsFresh /\ RetryIsFresh
  BY DEF FetchIsFresh, KeptIsFresh, RetryIsFresh
<1>4. QED
  BY <1>1, <1>2, <1>3 DEF IInv

\* A step of a call that leaves the cookies and the phases alone, and does not end up
\* where cookies matter, keeps the invariant.
LEMMA OtherStep ==
    ASSUME IInv, NEW c \in Callers, NEW step \in Steps \ {"fetch"},
           pc[c] # "fetch",
           pc' = [pc EXCEPT ![c] = step],
           step \in {"idle", "lookup"} => phase[c] = "first",
           step = "send" => phase[c] # "second",
           UNCHANGED <<phase, carries, guestAuth, guestMu>>
    PROVE  IInv'
<1> USE DEF IInv, CookiesOK
<1>1. CookiesOK'
  OBVIOUS
<1>2. Untried'
  BY DEF Untried
<1>3. Exclusive'
  BY DEF Exclusive
<1>4. Needed'
  BY DEF Needed, Forced
<1>5. FetchIsFresh'
  BY DEF FetchIsFresh
<1>6. KeptIsFresh' /\ RetryIsFresh'
  BY DEF KeptIsFresh, RetryIsFresh
<1>7. QED
  BY <1>1, <1>2, <1>3, <1>4, <1>5, <1>6

\* A caller that takes the cookies that are kept.
LEMMA ServedStep ==
    ASSUME IInv, NEW c \in Callers, pc[c] \in {"cookie", "lock"},
           CookiesServe(c), WithCookies(c, guestAuth.after),
           UNCHANGED <<guestAuth, guestMu>>
    PROVE  IInv'
<1> USE DEF IInv, CookiesOK
<1>1. /\ ~Forced(c) /\ guestAuth.usable
      /\ pc' = [pc EXCEPT ![c] = "send"]
      /\ carries' = [carries EXCEPT ![c] = c \in guestAuth.after]
      /\ UNCHANGED phase
  BY DEF CookiesServe, WithCookies, Goto
<1>2. CookiesOK'
  BY <1>1 DEF Steps
<1>3. Untried' /\ Exclusive'
  BY <1>1 DEF Untried, Exclusive
<1>4. Needed'
  BY <1>1 DEF Needed, Forced
<1>5. FetchIsFresh' /\ KeptIsFresh'
  BY <1>1 DEF FetchIsFresh, KeptIsFresh
<1>6. RetryIsFresh'
  BY <1>1 DEF RetryIsFresh, KeptIsFresh
<1>7. QED
  BY <1>2, <1>3, <1>4, <1>5, <1>6

LEMMA LockStep ==
    ASSUME IInv, NEW c \in Callers, LockCookies(c)
    PROVE  IInv'
<1> USE CallersAssumption DEF IInv, CookiesOK
<1>1. pc[c] = "lock" /\ guestMu.holder = NoOne
  BY DEF LockCookies
<1>2. CASE ServeAfterWait(c)
  BY <1>1, <1>2, ServedStep DEF LockCookies, ServeAfterWait
<1>3. CASE ~ServeAfterWait(c)
  <2>1. /\ pc' = [pc EXCEPT ![c] = "fetch"]
        /\ guestMu' = [holder |-> c, after |-> {d \in Callers : phase[d] # "first"}]
        /\ UNCHANGED <<phase, carries, guestAuth>>
    BY <1>3 DEF LockCookies, Goto
  <2>2. CookiesOK'
    BY <2>1 DEF Steps
  <2>3. Untried' /\ Exclusive'
    BY <1>1, <2>1 DEF Untried, Exclusive
  <2>4. Needed'
    BY <1>1, <1>3, <2>1 DEF Needed, Exclusive, Forced, ServeAfterWait, CookiesServe
  <2>5. FetchIsFresh'
    BY <2>1 DEF FetchIsFresh
  <2>6. KeptIsFresh' /\ RetryIsFresh'
    BY <1>1, <2>1 DEF KeptIsFresh, RetryIsFresh
  <2>7. QED
    BY <2>2, <2>3, <2>4, <2>5, <2>6
<1>4. QED
  BY <1>2, <1>3

LEMMA FetchStep ==
    ASSUME IInv, NEW c \in Callers, FetchCookies(c)
    PROVE  IInv'
<1> USE CallersAssumption DEF IInv, CookiesOK
<1>1. /\ pc[c] = "fetch"
      /\ guestMu.holder = c
      /\ guestAuth' = [usable |-> TRUE, after |-> guestMu.after]
      /\ guestMu' = [holder |-> NoOne, after |-> {}]
      /\ WithCookies(c, guestMu.after)
  BY DEF FetchCookies, Exclusive, Unlocked
<1>2. \A d \in Callers : phase[d] = "second" => d \in guestMu.after
  BY <1>1 DEF FetchIsFresh
<1>3. phase[c] # "first" => c \in guestMu.after
  BY <1>1 DEF FetchIsFresh
<1>4. /\ pc' = [pc EXCEPT ![c] = IF Forced(c) THEN "cookie" ELSE "send"]
      /\ phase' = [phase EXCEPT ![c] = IF Forced(c) THEN "second" ELSE phase[c]]
      /\ carries' = [carries EXCEPT ![c] = IF Forced(c) THEN carries[c]
                                           ELSE c \in guestMu.after]
  BY <1>1 DEF WithCookies, Goto
<1>5. CookiesOK'
  <2>1. pc' \in [Callers -> Steps] /\ phase' \in [Callers -> Phases]
    BY <1>4 DEF Steps, Phases
  <2>2. (c \in guestMu.after) \in BOOLEAN /\ carries[c] \in BOOLEAN
    OBVIOUS
  <2>3. carries' \in [Callers -> BOOLEAN]
    BY <1>4, <2>2
  <2>4. guestAuth' \in [usable : BOOLEAN, after : SUBSET Callers]
    BY <1>1
  <2>5. guestMu' \in [holder : Callers \union {NoOne}, after : SUBSET Callers]
    BY <1>1
  <2>6. QED
    BY <2>1, <2>3, <2>4, <2>5
<1>6. Untried'
  BY <1>1, <1>4 DEF Untried
<1>7. Exclusive' /\ Needed'
  BY <1>1, <1>4 DEF Exclusive, Needed
<1>8. FetchIsFresh'
  BY <1>1, <1>4, <1>7 DEF FetchIsFresh, Exclusive
<1>9. KeptIsFresh'
  BY <1>1, <1>2, <1>3, <1>4 DEF KeptIsFresh, Forced
<1>10. RetryIsFresh'
  BY <1>2, <1>4 DEF RetryIsFresh, Forced
<1>11. QED
  BY <1>5, <1>6, <1>7, <1>8, <1>9, <1>10

\* A first attempt of a guest fails.
LEMMA FirstFailure ==
    ASSUME IInv, NEW c \in Callers, SendFails(c),
           isAnonymousRequest(c), phase[c] = "first"
    PROVE  IInv'
<1> USE CallersAssumption DEF IInv, CookiesOK
<1>1. /\ pc[c] = "send"
      /\ pc' = [pc EXCEPT ![c] = "cookie"]
      /\ phase' = [phase EXCEPT ![c] = "refresh"]
      /\ guestAuth' = [guestAuth EXCEPT !.after = @ \ {c}]
      /\ guestMu' = [guestMu EXCEPT !.after = @ \ {c}]
      /\ UNCHANGED carries
  BY DEF SendFails, Goto, FailsNow
<1>2. CookiesOK'
  BY <1>1 DEF Steps, Phases
<1>3. Untried' /\ Exclusive'
  BY <1>1 DEF Untried, Exclusive
<1>4. Needed'
  BY <1>1 DEF Needed, Forced
<1>5. FetchIsFresh'
  BY <1>1 DEF FetchIsFresh
<1>6. KeptIsFresh' /\ RetryIsFresh'
  BY <1>1 DEF KeptIsFresh, RetryIsFresh
<1>7. QED
  BY <1>2, <1>3, <1>4, <1>5, <1>6

LEMMA ReturnStep ==
    ASSUME IInv, NEW c \in Callers, Return(c)
    PROVE  IInv'
<1> USE CallersAssumption DEF IInv, CookiesOK
<1>1. /\ pc[c] = "done"
      /\ pc' = [pc EXCEPT ![c] = "idle"]
      /\ phase' = [phase EXCEPT ![c] = "first"]
      /\ carries' = [carries EXCEPT ![c] = FALSE]
      /\ guestAuth' = [guestAuth EXCEPT !.after = @ \ {c}]
      /\ guestMu' = [guestMu EXCEPT !.after = @ \ {c}]
  BY DEF Return, Goto, FailsNow
<1>2. CookiesOK'
  BY <1>1 DEF Steps, Phases
<1>3. Untried' /\ Exclusive'
  BY <1>1 DEF Untried, Exclusive
<1>4. Needed'
  BY <1>1 DEF Needed, Forced
<1>5. FetchIsFresh'
  BY <1>1 DEF FetchIsFresh
<1>6. KeptIsFresh' /\ RetryIsFresh'
  BY <1>1 DEF KeptIsFresh, RetryIsFresh
<1>7. QED
  BY <1>2, <1>3, <1>4, <1>5, <1>6

LEMMA ExpiryStep == IInv /\ CookiesExpire => IInv'
<1> SUFFICES ASSUME IInv, CookiesExpire PROVE IInv'
  OBVIOUS
<1> USE DEF IInv, CookiesOK, CookiesExpire, callVars, NoCookies
<1>1. CookiesOK' /\ Untried' /\ Exclusive' /\ RetryIsFresh'
  BY DEF Untried, Exclusive, RetryIsFresh
<1>2. Needed' /\ FetchIsFresh' /\ KeptIsFresh'
  BY DEF Needed, FetchIsFresh, KeptIsFresh
<1>3. QED
  BY <1>1, <1>2

\* Nothing the cookies depend on changes.
LEMMA Unchanged ==
    ASSUME IInv, UNCHANGED <<pc, phase, carries, guestAuth, guestMu>>
    PROVE  IInv'
BY DEF IInv, CookiesOK, Untried, Exclusive, Needed, FetchIsFresh, KeptIsFresh,
       RetryIsFresh, Forced

LEMMA CallerStep ==
    ASSUME IInv, NEW c \in Callers, Step(c)
    PROVE  IInv'
<1>1. CASE ListModels(c)
  <2>1. /\ pc[c] = "lookup" /\ phase[c] = "first"
        /\ \E step \in {"done", "send", "cookie"} : pc' = [pc EXCEPT ![c] = step]
        /\ UNCHANGED <<phase, carries, guestAuth, guestMu>>
    BY <1>1 DEF ListModels, Goto, Building, clientVars, IInv, Untried
  <2>2. QED
    BY <2>1, OtherStep DEF Steps
<1>2. CASE ReadCookies(c)
  <2>1. CASE CookiesServe(c)
    BY <1>2, <2>1, ServedStep DEF ReadCookies, clientVars
  <2>2. CASE ~CookiesServe(c)
    BY <1>2, <2>2, OtherStep DEF ReadCookies, Goto, clientVars, Steps
  <2>3. QED
    BY <2>1, <2>2
<1>3. CASE LockCookies(c)
  BY <1>3, LockStep
<1>4. CASE FetchCookies(c)
  BY <1>4, FetchStep
<1>5. CASE SendFails(c)
  <2>1. CASE isAnonymousRequest(c) /\ phase[c] = "first"
    BY <1>5, <2>1, FirstFailure
  <2>2. CASE ~(isAnonymousRequest(c) /\ phase[c] = "first")
    BY <1>5, <2>2, OtherStep DEF SendFails, Goto, Steps
  <2>3. QED
    BY <2>1, <2>2
<1>6. CASE Answered(c)
  <2>1. /\ pc[c] = "send"
        /\ \E step \in {"store", "done"} : pc' = [pc EXCEPT ![c] = step]
        /\ UNCHANGED <<phase, carries, guestAuth, guestMu>>
    BY <1>6 DEF Answered, Goto, clientVars
  <2>2. QED
    BY <2>1, OtherStep DEF Steps
<1>7. CASE StoreModels(c)
  BY <1>7, OtherStep DEF StoreModels, Goto, Steps
<1>8. CASE ChatAnswered(c)
  BY <1>8, OtherStep DEF ChatAnswered, Goto, Steps, clientVars
<1>9. CASE Return(c)
  BY <1>9, ReturnStep
<1>10. QED
  BY <1>1, <1>2, <1>3, <1>4, <1>5, <1>6, <1>7, <1>8, <1>9 DEF Step

LEMMA NextInv == IInv /\ [Next]_vars => IInv'
<1> SUFFICES ASSUME IInv, [Next]_vars PROVE IInv'
  OBVIOUS
<1>1. ASSUME NEW c \in Callers, Step(c) PROVE IInv'
  BY <1>1, CallerStep
<1>2. ASSUME NEW c \in Callers, NEW o \in Calls(c), Call(c, o) PROVE IInv'
  <2>1. /\ pc[c] = "idle" /\ phase[c] = "first"
        /\ \E step \in {"lookup", "send", "cookie"} : pc' = [pc EXCEPT ![c] = step]
        /\ UNCHANGED <<phase, carries, guestAuth, guestMu>>
    BY <1>2 DEF Call, Goto, Building, clientVars, IInv, Untried
  <2>2. QED
    BY <2>1, OtherStep DEF Steps
<1>3. CASE CookiesExpire
  BY <1>3, ExpiryStep
<1>4. CASE ModelsExpire \/ CatalogueChanges
  BY <1>4, Unchanged DEF ModelsExpire, CatalogueChanges, callVars, clientVars
<1>5. CASE UNCHANGED vars
  BY <1>5, Unchanged DEF vars, callVars, clientVars
<1>6. QED
  BY <1>1, <1>2, <1>3, <1>4, <1>5 DEF Next

\* The inductive invariant of the guest cookies.
THEOREM Invariance == Spec => []IInv
BY InitInv, NextInv, PTL DEF Spec

-----------------------------------------------------------------------------

\* However many callers there are, cookies are fetched by one of them at a time, and while
\* there are good ones only by a caller whose first attempt failed (guest.go:47-72).
THEOREM NoStampedeHolds == Spec => []NoStampede
<1>1. IInv => NoStampede
  BY DEF IInv, NoStampede, Exclusive, Needed, Forced
<1>2. QED
  BY <1>1, Invariance, PTL

\* However many callers fetch, fail and wait, a guest's second attempt never carries
\* cookies that are older than the failure of its first (client.go:180-192).
THEOREM RetryIsFreshHolds == Spec => []RetryIsFresh
<1>1. IInv => RetryIsFresh
  BY DEF IInv
<1>2. QED
  BY <1>1, Invariance, PTL

-----------------------------------------------------------------------------
(* What the inspection of a body makes of it.  The inspection is a recursive function of  *)
(* the number of events; what it computes is shown by induction over that number, which   *)
(* is the well-foundedness of Nat applied to the set of numbers that were to be refuted.  *)

LEMMA SmallestOf ==
    ASSUME NEW T \in SUBSET Nat, T # {}
    PROVE  \E n \in T : \A m \in T : n <= m
<1>1. IsWellFoundedOn(OpToRel(<, Nat), Nat)
  BY NatLessThanWellFounded
<1>2. PICK n \in T : \A m \in T : <<m, n>> \notin OpToRel(<, Nat)
  <2> HIDE DEF OpToRel
  <2>1. QED
    BY <1>1, WFMin
<1>3. \A m \in T : m \in Nat /\ n \in Nat /\ ~(m < n)
  BY <1>2 DEF OpToRel
<1>4. \A m \in T : n <= m
  BY <1>3
<1>5. QED
  BY <1>4

LEMMA Induction ==
    ASSUME NEW T, 0 \in T, \A n \in Nat : n \in T => n + 1 \in T
    PROVE  Nat \subseteq T
<1> SUFFICES ASSUME Nat \ T # {} PROVE FALSE
  OBVIOUS
<1>1. PICK n \in Nat \ T : \A m \in Nat \ T : n <= m
  BY SmallestOf
<1>2. n - 1 \in Nat /\ n - 1 \in T
  <2>1. n \in Nat /\ n # 0 
    OBVIOUS
  <2>2. QED
    BY <2>1, <1>1
<1>3. (n - 1) + 1 \in T
  BY <1>2
<1>4. QED
  BY <1>3

Verdicts == Errors \union {"reading", "captcha", "stream"}

\* There is a function that takes one turn after the other.
LEMMA Turns ==
    ASSUME NEW V, NEW base \in V, NEW L \in Nat, NEW turn \in [1 .. L -> [V -> V]]
    PROVE  \E f \in [0 .. L -> V] :
               f = [n \in 0 .. L |-> IF n = 0 THEN base ELSE turn[n][f[n - 1]]]
<1> DEFINE Upto(n, f) == \A i \in 0 .. n : f[i] = IF i = 0 THEN base ELSE turn[i][f[i - 1]]
           T == {n \in Nat : n <= L => \E f \in [0 .. n -> V] : Upto(n, f)}
<1>1. 0 \in T
  <2>1. [i \in 0 .. 0 |-> base] \in [0 .. 0 -> V] /\ Upto(0, [i \in 0 .. 0 |-> base])
    OBVIOUS
  <2>2. QED
    BY <2>1
<1>2. ASSUME NEW n \in Nat, n \in T PROVE n + 1 \in T
  <2> SUFFICES ASSUME n + 1 <= L
               PROVE  \E f \in [0 .. n + 1 -> V] : Upto(n + 1, f)
    OBVIOUS
  <2>1. PICK f \in [0 .. n -> V] : Upto(n, f)
    BY <1>2
  <2> DEFINE g == [i \in 0 .. n + 1 |-> IF i = n + 1 THEN turn[n + 1][f[n]] ELSE f[i]]
  <2>2. turn[n + 1][f[n]] \in V
    <3>1. n + 1 \in 1 .. L /\ f[n] \in V
      OBVIOUS
    <3>2. QED
      BY <3>1
  <2>3. g \in [0 .. n + 1 -> V]
    BY <2>2
  <2>4. ASSUME NEW i \in 0 .. n + 1
        PROVE  g[i] = IF i = 0 THEN base ELSE turn[i][g[i - 1]]
    <3>1. CASE i = n + 1
      BY <3>1
    <3>2. CASE i # n + 1
      <4>1. i \in 0 .. n /\ (i # 0 => i - 1 \in 0 .. n /\ i - 1 # n + 1)
        BY <3>2
      <4>2. g[i] = f[i] /\ (i # 0 => g[i - 1] = f[i - 1])
        BY <4>1
      <4>3. QED
        BY <2>1, <4>1, <4>2
    <3>3. QED
      BY <3>1, <3>2
  <2>5. Upto(n + 1, g)
    BY <2>4
  <2> HIDE DEF g, Upto
  <2>6. QED
    BY <2>3, <2>5
<1>3. L \in T
  <2> HIDE DEF T
  <2>1. QED
    BY <1>1, <1>2, Induction
<1>4. PICK f \in [0 .. L -> V] : Upto(L, f)
  BY <1>3
<1>5. f = [n \in 0 .. L |-> IF n = 0 THEN base ELSE turn[n][f[n - 1]]]
  BY <1>4
<1>6. QED
  BY <1>5

LEMMA BodyType ==
    ASSUME NEW n \in Nat, NEW body \in Bodies(n)
    PROVE  /\ body.events \in Seq(Events)
           /\ body.ending \in Endings
BY DEF Bodies, BoundedSeq, SeqOf

LEMMA InspectedType ==
    ASSUME NEW body, body.events \in Seq(Events), NEW v \in Verdicts,
           NEW i \in 1 .. Len(body.events)
    PROVE  Inspected(body, v, i) \in Verdicts
BY DEF Inspected, Verdicts, Errors, ReleasesStream

LEMMA VerdictsFollow ==
    ASSUME NEW n \in Nat, NEW body \in Bodies(n)
    PROVE  LET after == VerdictAfter(body) IN
           /\ after \in [0 .. Len(body.events) -> Verdicts]
           /\ after[0] = "reading"
           /\ \A i \in 1 .. Len(body.events) : after[i] = Inspected(body, after[i - 1], i)
<1> DEFINE L == Len(body.events)
           turn == [i \in 1 .. L |-> [v \in Verdicts |-> Inspected(body, v, i)]]
           Follows(f) == f = [i \in 0 .. L |-> IF i = 0 THEN "reading"
                                               ELSE Inspected(body, f[i - 1], i)]
<1>1. L \in Nat
  BY BodyType
<1>2. turn \in [1 .. L -> [Verdicts -> Verdicts]]
  BY BodyType, InspectedType
<1>3. PICK f \in [0 .. L -> Verdicts] :
          f = [i \in 0 .. L |-> IF i = 0 THEN "reading" ELSE turn[i][f[i - 1]]]
  <2>1. "reading" \in Verdicts
    BY DEF Verdicts
  <2> HIDE DEF turn, L
  <2>2. QED
    BY <1>1, <1>2, <2>1, Turns
<1>4. ASSUME NEW i \in 0 .. L
      PROVE  f[i] = IF i = 0 THEN "reading" ELSE Inspected(body, f[i - 1], i)
  <2>1. CASE i = 0
    BY <1>1, <1>3, <2>1
  <2>2. CASE i # 0
    <3>1. i \in 1 .. L /\ f[i - 1] \in Verdicts
      BY <1>1, <2>2
    <3>2. f[i] = turn[i][f[i - 1]]
      <4> HIDE DEF turn
      <4>1. QED
        BY <1>3, <2>2
    <3>3. QED
      BY <2>2, <3>1, <3>2
  <2>3. QED
    BY <2>1, <2>2
<1>5. Follows(f)
  BY <1>4
<1>6. VerdictAfter(body) = CHOOSE g : Follows(g)
  BY DEF VerdictAfter
<1>7. Follows(VerdictAfter(body))
  <2> HIDE DEF Follows
  <2>1. QED
    BY <1>5, <1>6
<1>8. \A i \in 0 .. L : VerdictAfter(body)[i] =
          IF i = 0 THEN "reading" ELSE Inspected(body, VerdictAfter(body)[i - 1], i)
  BY <1>7
<1> DEFINE T == {i \in Nat : i <= L => VerdictAfter(body)[i] \in Verdicts}
<1>9. 0 \in T
  BY <1>1, <1>8 DEF Verdicts
<1>10. ASSUME NEW i \in Nat, i \in T PROVE i + 1 \in T
  <2> SUFFICES ASSUME i + 1 <= L PROVE VerdictAfter(body)[i + 1] \in Verdicts
    OBVIOUS
  <2>1. VerdictAfter(body)[i] \in Verdicts /\ i + 1 \in 1 .. L /\ (i + 1) - 1 = i
    BY <1>1, <1>10
  <2>2. Inspected(body, VerdictAfter(body)[i], i + 1) \in Verdicts
    BY <2>1, BodyType, InspectedType
  <2>3. QED
    BY <1>1, <1>8, <2>1, <2>2
<1>11. \A i \in 0 .. L : VerdictAfter(body)[i] \in Verdicts
  <2>1. Nat \subseteq T
    <3> HIDE DEF T
    <3>1. QED
      BY <1>9, <1>10, Induction
  <2>2. QED
    BY <1>1, <2>1
<1>12. VerdictAfter(body) = [i \in 0 .. L |-> VerdictAfter(body)[i]]
  BY <1>7
<1> HIDE DEF L
<1>13. VerdictAfter(body) \in [0 .. L -> Verdicts]
  BY <1>11, <1>12
<1>14. VerdictAfter(body)[0] = "reading"
  BY <1>1, <1>8
<1>15. ASSUME NEW i \in 1 .. L
       PROVE  VerdictAfter(body)[i] = Inspected(body, VerdictAfter(body)[i - 1], i)
  BY <1>1, <1>8
<1>16. QED
  BY <1>13, <1>14, <1>15 DEF L

\* A turn decides at an event that is due, and nowhere else; what is decided stays.
LEMMA OneTurn ==
    ASSUME NEW n \in Nat, NEW body \in Bodies(n), NEW i \in DOMAIN body.events,
           NEW v \in Verdicts
    PROVE  Inspected(body, v, i) =
               IF v # "reading" THEN v
               ELSE IF ~Decisive(body, i) THEN "reading"
               ELSE IF body.events[i] = "text" THEN "stream" ELSE body.events[i]
<1>1. body.events[i] \in Events
  BY BodyType
<1>2. QED
  BY <1>1 DEF Inspected, Decisive, Events, Silent, Errors, ReleasesStream

LEMMA InspectionIsDue ==
    ASSUME NEW n \in Nat, NEW body \in Bodies(n)
    PROVE  InspectUpstreamStream(body) = Due(body)
<1> DEFINE L == Len(body.events)
           after == VerdictAfter(body)
           hits == {i \in DOMAIN body.events : Decisive(body, i)}
           Shown(e) == IF e = "text" THEN "stream" ELSE e
<1>1. L \in Nat /\ DOMAIN body.events = 1 .. L /\ body.events \in [1 .. L -> Events]
  BY BodyType
<1>2. /\ after[0] = "reading"
      /\ \A i \in 1 .. L : after[i] = Inspected(body, after[i - 1], i)
      /\ \A i \in 0 .. L : after[i] \in Verdicts
  BY VerdictsFollow
<1>3. \A i \in 1 .. L : after[i] = IF after[i - 1] # "reading" THEN after[i - 1]
                                   ELSE IF i \notin hits THEN "reading"
                                   ELSE Shown(body.events[i])
  <2> SUFFICES ASSUME NEW i \in 1 .. L
               PROVE  after[i] = IF after[i - 1] # "reading" THEN after[i - 1]
                                   ELSE IF i \notin hits THEN "reading"
                                   ELSE Shown(body.events[i])
    OBVIOUS
  <2>1. after[i - 1] \in Verdicts /\ i \in DOMAIN body.events
    BY <1>1, <1>2
  <2>2. QED
    BY <1>1, <1>2, <2>1, OneTurn
<1>4. \A i \in hits : Shown(body.events[i]) # "reading"
  BY <1>1 DEF Events, Silent, Errors
<1> HIDE DEF after
<1>5. CASE hits = {}
  <2> DEFINE T == {i \in Nat : i <= L => after[i] = "reading"}
  <2>1. 0 \in T
    BY <1>2
  <2>2. ASSUME NEW i \in Nat, i \in T PROVE i + 1 \in T
    <3> SUFFICES ASSUME i + 1 <= L PROVE after[i + 1] = "reading"
      OBVIOUS
    <3>1. i + 1 \in 1 .. L /\ (i + 1) - 1 = i /\ after[i] = "reading"
      BY <1>1, <2>2
    <3>2. QED
      BY <1>3, <1>5, <3>1
  <2>3. after[L] = "reading"
    <3>1. Nat \subseteq T
      <4> HIDE DEF T
      <4>1. QED
        BY <2>1, <2>2, Induction
    <3>2. QED
      BY <1>1, <3>1
  <2>4. QED
    BY <1>5, <2>3 DEF InspectUpstreamStream, Due, after
<1>6. CASE hits # {}
  <2> DEFINE h == CHOOSE i \in hits : \A j \in hits : i <= j
  <2>1. h \in hits /\ \A j \in hits : h <= j
    <3>1. hits \subseteq Nat
      BY <1>1
    <3>2. \E i \in hits : \A j \in hits : i <= j
      <4> HIDE DEF hits
      <4>1. QED
        BY <1>6, <3>1, SmallestOf
    <3>3. QED
      BY <3>2
  <2>2. h \in 1 .. L
    BY <1>1, <2>1
  <2> HIDE DEF h
  <2> DEFINE T == {i \in Nat : i <= L =>
                       after[i] = IF i < h THEN "reading" ELSE Shown(body.events[h])}
  <2>3. 0 \in T
    BY <1>1, <1>2, <2>2
  <2>4. ASSUME NEW i \in Nat, i \in T PROVE i + 1 \in T
    <3> SUFFICES ASSUME i + 1 <= L
                 PROVE  after[i + 1] = IF i + 1 < h THEN "reading"
                                       ELSE Shown(body.events[h])
      OBVIOUS
    <3>1. /\ i + 1 \in 1 .. L /\ (i + 1) - 1 = i
          /\ after[i] = IF i < h THEN "reading" ELSE Shown(body.events[h])
      BY <1>1, <2>4
    <3>2. CASE i + 1 < h
      <4>1. i + 1 \notin hits /\ i < h
        BY <2>1, <2>2, <3>2
      <4>2. QED
        BY <1>3, <3>1, <3>2, <4>1
    <3>3. CASE i + 1 = h
      <4>1. i < h
        BY <3>3
      <4>2. QED
        BY <1>3, <2>1, <3>1, <3>3, <4>1
    <3>4. CASE i + 1 > h
      <4>1. ~(i < h) /\ ~(i + 1 < h)
        BY <2>2, <3>4
      <4>2. QED
        BY <1>3, <1>4, <2>1, <3>1, <4>1
    <3>5. QED
      BY <2>2, <3>2, <3>3, <3>4
  <2>5. after[L] = Shown(body.events[h])
    <3>1. Nat \subseteq T
      <4> HIDE DEF T
      <4>1. QED
        BY <2>3, <2>4, Induction
    <3>2. L \in T /\ ~(L < h)
      BY <1>1, <2>2, <3>1
    <3>3. QED
      BY <1>1, <3>2
  <2>6. after[L] # "reading"
    BY <1>4, <2>1, <2>5
  <2>7. Due(body) = Shown(body.events[h])
    BY <1>6 DEF Due, h
  <2>8. InspectUpstreamStream(body) = after[L]
    BY <2>6 DEF InspectUpstreamStream, after
  <2>9. QED
    BY <2>5, <2>7, <2>8
<1>7. QED
  BY <1>5, <1>6

-----------------------------------------------------------------------------
(* What callers get. *)

Ops == [kind : {"none", "plain", "chat", "models"}, token : BOOLEAN, force : BOOLEAN]

Outcomes == {"none", "stream", "failed", "captcha"} \union Errors

AnswersOK ==
    /\ pc \in [Callers -> Steps]
    /\ op \in [Callers -> Ops]
    /\ answer \in [Callers -> [outcome : Outcomes, due : Outcomes, list : Nat, since : Nat]]
    /\ models \in Nat
    /\ catalogue \in Nat

\* A caller has no list before the service or the cache has answered, the service's list
\* only becomes newer, and what a caller got by force it got from the service.
ListsInOrder ==
    \A c \in Callers :
        /\ answer[c].since <= catalogue
        /\ pc[c] \notin {"store", "done"} => answer[c].list = 0
        /\ op[c].force /\ answer[c].list # 0 => answer[c].list >= answer[c].since

AnswersInv == AnswersOK /\ ListsInOrder /\ FirstEventDecides

LEMMA ReadingType ==
    ASSUME NEW r \in Readings
    PROVE  r.outcome = r.due /\ r.outcome \in Outcomes
<1>1. PICK body \in Bodies(MaxEvents) :
          r = [outcome |-> InspectUpstreamStream(body), due |-> Due(body)]
  BY DEF Readings
<1>2. InspectUpstreamStream(body) = Due(body)
  BY InspectionIsDue, BoundsAssumption
<1>3. InspectUpstreamStream(body) \in Outcomes
  <2>1. VerdictAfter(body)[Len(body.events)] \in Verdicts
    BY VerdictsFollow, BodyType, BoundsAssumption
  <2>2. QED
    BY <2>1 DEF InspectUpstreamStream, Outcomes, Verdicts, Errors
<1>4. QED
  BY <1>1, <1>2, <1>3

LEMMA InitAnswers == Init => AnswersInv
BY BoundsAssumption
   DEF Init, AnswersInv, AnswersOK, ListsInOrder, FirstEventDecides, Steps, Ops, Outcomes,
       NoCall, NoAnswer

LEMMA NextAnswers == AnswersInv /\ [Next]_vars => AnswersInv'
<1> SUFFICES ASSUME AnswersInv, [Next]_vars PROVE AnswersInv'
  OBVIOUS
<1> USE DEF AnswersInv, AnswersOK, ListsInOrder, FirstEventDecides, Steps
<1>1. ASSUME NEW c \in Callers, NEW o \in Calls(c), Call(c, o) PROVE AnswersInv'
  <2>1. o \in Ops
    BY DEF Calls, Ops
  <2>2. /\ pc[c] = "idle"
        /\ \E step \in {"lookup", "send", "cookie"} : pc' = [pc EXCEPT ![c] = step]
        /\ op' = [op EXCEPT ![c] = o]
        /\ answer' = [answer EXCEPT ![c].since = IF o.force THEN catalogue ELSE 0]
        /\ UNCHANGED <<models, catalogue>>
    BY <1>1 DEF Call, Goto, Building, clientVars
  <2>3. QED
    BY <2>1, <2>2
<1>2. ASSUME NEW c \in Callers, ListModels(c) PROVE AnswersInv'
  <2>1. /\ pc[c] = "lookup"
        /\ UNCHANGED <<op, models, catalogue>>
        /\ \/ /\ ~op[c].force
              /\ pc' = [pc EXCEPT ![c] = "done"]
              /\ answer' = [answer EXCEPT ![c].list = models]
           \/ /\ \E step \in {"send", "cookie"} : pc' = [pc EXCEPT ![c] = step]
              /\ UNCHANGED answer
    BY <1>2 DEF ListModels, ListIsCached, Goto, Building, clientVars
  <2>2. QED
    BY <2>1
<1>3. ASSUME NEW c \in Callers, NEW step \in Steps,
             pc[c] \in {"cookie", "lock", "fetch", "send"},
             pc' = [pc EXCEPT ![c] = step],
             UNCHANGED <<op, answer, models, catalogue>>
      PROVE  AnswersInv'
  BY <1>3
<1>4. ASSUME NEW c \in Callers,
             ReadCookies(c) \/ LockCookies(c) \/ FetchCookies(c) \/ SendFails(c)
      PROVE  AnswersInv'
  <2>1. /\ pc[c] \in {"cookie", "lock", "fetch", "send"}
        /\ \E step \in Steps : pc' = [pc EXCEPT ![c] = step]
        /\ UNCHANGED <<op, answer, models, catalogue>>
    BY <1>4 DEF ReadCookies, LockCookies, FetchCookies, SendFails, WithCookies, Goto,
                clientVars
  <2>2. QED
    BY <1>3, <2>1
<1>5. ASSUME NEW c \in Callers, Answered(c) PROVE AnswersInv'
  <2>1. CASE pc' = [pc EXCEPT ![c] = "done"] /\ UNCHANGED answer
    BY <1>3, <1>5, <2>1 DEF Answered, clientVars
  <2>2. CASE /\ pc' = [pc EXCEPT ![c] = "store"]
             /\ answer' = [answer EXCEPT ![c].list = catalogue]
    BY <1>5, <2>2 DEF Answered, clientVars
  <2>3. QED
    BY <1>5, <2>1, <2>2 DEF Answered, Goto
<1>6. ASSUME NEW c \in Callers, StoreModels(c) PROVE AnswersInv'
  BY <1>6 DEF StoreModels, Goto
<1>7. ASSUME NEW c \in Callers, ChatAnswered(c) PROVE AnswersInv'
  <2>1. PICK r \in Readings :
            answer' = [answer EXCEPT ![c].outcome = r.outcome, ![c].due = r.due]
    BY <1>7 DEF ChatAnswered
  <2>2. r.outcome = r.due /\ r.outcome \in Outcomes
    BY ReadingType
  <2> DEFINE Answer == [outcome : Outcomes, due : Outcomes, list : Nat, since : Nat]
             told == [answer EXCEPT ![c].outcome = r.outcome]
  <2>3. /\ told \in [Callers -> Answer]
        /\ \A d \in Callers :
              /\ told[d].list = answer[d].list /\ told[d].since = answer[d].since
              /\ told[d].outcome = IF d = c THEN r.outcome ELSE answer[d].outcome
              /\ d # c => told[d].due = answer[d].due
    BY <2>2
  <2>4. answer' = [told EXCEPT ![c].due = r.due]
    BY <2>1
  <2> HIDE DEF told
  <2>5. /\ answer' \in [Callers -> Answer]
        /\ \A d \in Callers :
              /\ answer'[d].list = answer[d].list /\ answer'[d].since = answer[d].since
              /\ answer'[d].outcome = answer'[d].due
    BY <2>2, <2>3, <2>4
  <2>6. /\ pc[c] = "send"
        /\ pc' = [pc EXCEPT ![c] = "done"]
        /\ UNCHANGED <<op, models, catalogue>>
    BY <1>7 DEF ChatAnswered, Goto, clientVars
  <2>7. QED
    BY <2>5, <2>6
<1>8. ASSUME NEW c \in Callers, Return(c) PROVE AnswersInv'
  BY <1>8 DEF Return, Goto, NoCall, NoAnswer, Ops, Outcomes
<1>9. CASE CookiesExpire \/ ModelsExpire \/ CatalogueChanges
  BY <1>9 DEF CookiesExpire, ModelsExpire, CatalogueChanges, callVars, clientVars
<1>10. CASE UNCHANGED vars
  BY <1>10 DEF vars, callVars, clientVars
<1>11. QED
  BY <1>1, <1>2, <1>4, <1>5, <1>6, <1>7, <1>8, <1>9, <1>10 DEF Next, Step

\* However long the answers are, what a caller gets of one is decided by its first event
\* that counts, although the body is read line by line, kept back and searched as a whole
\* (upstream.go:72-131).
THEOREM FirstEventDecidesHolds == Spec => []FirstEventDecides
BY InitAnswers, NextAnswers, PTL DEF Spec, AnswersInv

\* However often the service's list changes and others store what they got, who asks for
\* a new list of models gets one that is (client.go:418-450).
THEOREM RefreshIsCurrentHolds == Spec => []RefreshIsCurrent
<1>1. AnswersInv => RefreshIsCurrent
  BY DEF AnswersInv, ListsInOrder, RefreshIsCurrent
<1>2. QED
  BY <1>1, InitAnswers, NextAnswers, PTL DEF Spec

=============================================================================
