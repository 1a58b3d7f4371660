--------------------------- MODULE HccSlots_proofs ---------------------------
(***************************************************************************)
(* Theorems about HccSlots, for any finite set of callers and any limit.   *)
(*                                                                         *)
(* The inductive invariant is the conjunction of what the runs check: each *)
(* part needs the others.  The counter stays in its range because a call   *)
(* that releases is counted; a hand-over keeps the count because the head  *)
(* of the queue is a waiter, hence not a holder; a new caller cannot take  *)
(* a slot past the queue because no slot is free while somebody waits.     *)
(***************************************************************************)
EXTENDS HccSlots, FiniteSetTheorems, SequenceTheorems, TLAPS

(***************************************************************************)
(* Sequences without repetition                                            *)
(***************************************************************************)
Distinct(s) == \A i, j \in DOMAIN s : s[i] = s[j] => i = j

Elements(s) == {s[i] : i \in DOMAIN s}

\* Appending an element that is not there.
LEMMA AppendDistinct ==
    ASSUME NEW S, NEW s \in Seq(S), NEW e \in S, Distinct(s), e \notin Elements(s)
    PROVE  /\ Append(s, e) \in Seq(S)
           /\ Distinct(Append(s, e))
           /\ Elements(Append(s, e)) = Elements(s) \cup {e}
<1> DEFINE t == Append(s, e)
           n == Len(s)
<1>1. /\ n \in Nat /\ DOMAIN s = 1 .. n
      /\ t \in Seq(S) /\ DOMAIN t = 1 .. n + 1
      /\ \A k \in 1 .. n : t[k] = s[k]
      /\ t[n + 1] = e
    OBVIOUS
<1> HIDE DEF t, n
<1>2. Distinct(t)
    BY <1>1 DEF Distinct, Elements
<1>3. Elements(t) \subseteq Elements(s) \cup {e}
    BY <1>1 DEF Elements
<1>4. e \in Elements(t)
    BY <1>1 DEF Elements
<1>5. Elements(s) \subseteq Elements(t)
    BY <1>1 DEF Elements
<1> QED
    BY <1>1, <1>2, <1>3, <1>4, <1>5 DEF t

\* What is where once the element at a position is removed.
LEMMA RemoveAtIndexes ==
    ASSUME NEW S, NEW s \in Seq(S), NEW i \in DOMAIN s
    PROVE  LET t == RemoveAt(s, i)
               n == Len(s)
           IN  /\ t \in Seq(S)
               /\ DOMAIN t = 1 .. n - 1
               /\ \A k \in 1 .. n - 1 : t[k] = IF k < i THEN s[k] ELSE s[k + 1]
<1> DEFINE t == RemoveAt(s, i)
           n == Len(s)
           front == SubSeq(s, 1, i - 1)
           back == SubSeq(s, i + 1, n)
<1>1. n \in Nat /\ i \in 1 .. n /\ DOMAIN s = 1 .. n
    OBVIOUS
<1>2. front \in Seq(S) /\ Len(front) = i - 1
    BY <1>1
<1>3. \A k \in 1 .. i - 1 : front[k] = s[k]
    BY <1>1
<1>4. back \in Seq(S) /\ Len(back) = n - i
    BY <1>1
<1>5. \A k \in 1 .. n - i : back[k] = s[k + i]
    BY <1>1
<1>6. t = front \o back
    BY DEF RemoveAt
<1> HIDE DEF front, back, t
<1>7. /\ t \in Seq(S)
      /\ Len(t) = Len(front) + Len(back)
    BY <1>2, <1>4, <1>6, ConcatProperties
<1>8. \A k \in 1 .. Len(front) + Len(back) :
          t[k] = IF k <= Len(front) THEN front[k] ELSE back[k - Len(front)]
    BY <1>2, <1>4, <1>6, ConcatProperties
<1> HIDE DEF n
<1>9. \A k \in 1 .. n - 1 : t[k] = IF k <= i - 1 THEN front[k] ELSE back[k - (i - 1)]
    <2>1. i - 1 + (n - i) = n - 1
        BY <1>1
    <2>2. Len(front) = i - 1 /\ Len(back) = n - i
        BY <1>2, <1>4
    <2> QED
        BY ONLY <1>8, <2>1, <2>2
<1>10. ASSUME NEW k \in 1 .. n - 1
       PROVE  t[k] = IF k < i THEN s[k] ELSE s[k + 1]
    <2>1. CASE k < i
        BY ONLY <1>1, <1>3, <1>9, <2>1, k \in 1 .. n - 1
    <2>2. CASE k >= i
        <3>1. k - (i - 1) \in 1 .. n - i /\ k - (i - 1) + i = k + 1
            BY ONLY <1>1, <2>2, k \in 1 .. n - 1
        <3>2. back[k - (i - 1)] = s[k + 1]
            BY ONLY <1>5, <3>1
        <3> QED
            BY ONLY <1>1, <1>9, <2>2, <3>2, k \in 1 .. n - 1
    <2> QED
        BY <1>1, <2>1, <2>2
<1>11. DOMAIN t = 1 .. n - 1
    <2>1. Len(t) = n - 1
        BY <1>1, <1>2, <1>4, <1>7
    <2> QED
        BY <1>7, <2>1
<1> QED
    BY <1>7, <1>10, <1>11 DEF t, n

\* Removing the element at a position removes it, and it only.
LEMMA RemoveAtDistinct ==
    ASSUME NEW S, NEW s \in Seq(S), NEW i \in DOMAIN s, Distinct(s)
    PROVE  /\ RemoveAt(s, i) \in Seq(S)
           /\ Distinct(RemoveAt(s, i))
           /\ Elements(RemoveAt(s, i)) = Elements(s) \ {s[i]}
<1> DEFINE t == RemoveAt(s, i)
           n == Len(s)
           at(k) == IF k < i THEN k ELSE k + 1
<1>1. /\ n \in Nat /\ i \in 1 .. n /\ DOMAIN s = 1 .. n
      /\ t \in Seq(S) /\ DOMAIN t = 1 .. n - 1
      /\ \A k \in 1 .. n - 1 : t[k] = IF k < i THEN s[k] ELSE s[k + 1]
    BY RemoveAtIndexes
<1> HIDE DEF t, n
<1>2. ASSUME NEW k \in 1 .. n - 1
      PROVE  at(k) \in 1 .. n /\ at(k) # i /\ t[k] = s[at(k)]
    BY <1>1
<1>3. Distinct(t)
    <2> SUFFICES ASSUME NEW j \in 1 .. n - 1, NEW k \in 1 .. n - 1, t[j] = t[k]
                 PROVE  j = k
        BY <1>1 DEF Distinct
    <2>1. s[at(j)] = s[at(k)]
        BY <1>2
    <2>2. at(j) = at(k)
        BY ONLY <1>1, <1>2, <2>1, Distinct(s) DEF Distinct
    <2> QED
        BY <1>1, <2>2
<1>4. ASSUME NEW e \in Elements(t)
      PROVE  e \in Elements(s) \ {s[i]}
    <2>1. PICK k \in 1 .. n - 1 : t[k] = e
        BY <1>1 DEF Elements
    <2>2. at(k) \in 1 .. n /\ at(k) # i /\ e = s[at(k)]
        BY <1>2, <2>1
    <2> HIDE DEF at
    <2> QED
        BY <1>1, <2>2 DEF Distinct, Elements
<1> HIDE DEF at
<1>5. ASSUME NEW e \in Elements(s) \ {s[i]}
      PROVE  e \in Elements(t)
    <2>1. PICK k \in 1 .. n : s[k] = e /\ k # i
        BY <1>1 DEF Elements
    <2>2. CASE k < i
        BY <1>1, <2>1, <2>2 DEF Elements
    <2>3. CASE k > i
        <3>1. k - 1 \in DOMAIN t /\ t[k - 1] = e
            BY <1>1, <2>1, <2>3
        <3> QED
            BY <3>1 DEF Elements
    <2> QED
        BY <1>1, <2>1, <2>2, <2>3
<1> QED
    BY <1>1, <1>3, <1>4, <1>5 DEF t

\* Taking the head off.
LEMMA TailDistinct ==
    ASSUME NEW S, NEW s \in Seq(S), s # <<>>, Distinct(s)
    PROVE  /\ Head(s) \in Elements(s)
           /\ Tail(s) \in Seq(S)
           /\ Distinct(Tail(s))
           /\ Elements(Tail(s)) = Elements(s) \ {Head(s)}
<1> DEFINE t == Tail(s)
           n == Len(s)
<1>1. /\ n \in Nat \ {0} /\ DOMAIN s = 1 .. n /\ Head(s) = s[1]
      /\ t \in Seq(S) /\ DOMAIN t = 1 .. n - 1
      /\ \A k \in 1 .. n - 1 : t[k] = s[k + 1]
    OBVIOUS
<1> HIDE DEF t, n
<1>2. Distinct(t)
    <2> SUFFICES ASSUME NEW j \in 1 .. n - 1, NEW k \in 1 .. n - 1, t[j] = t[k]
                 PROVE  j = k
        BY <1>1 DEF Distinct
    <2>1. /\ j + 1 \in DOMAIN s /\ k + 1 \in DOMAIN s
          /\ s[j + 1] = s[k + 1]
        BY <1>1
    <2>2. j + 1 = k + 1
        BY <2>1 DEF Distinct
    <2> QED
        BY <2>2
<1>3. Head(s) \in Elements(s)
    BY <1>1 DEF Elements
<1>4. ASSUME NEW e \in Elements(t)
      PROVE  e \in Elements(s) \ {Head(s)}
    BY <1>1, <1>4 DEF Distinct, Elements
<1>5. ASSUME NEW e \in Elements(s) \ {Head(s)}
      PROVE  e \in Elements(t)
    <2>1. PICK k \in 1 .. n : s[k] = e /\ k # 1
        BY <1>1 DEF Elements
    <2>2. k - 1 \in DOMAIN t /\ t[k - 1] = e
        BY <1>1, <2>1
    <2> QED
        BY <2>2 DEF Elements
<1> QED
    BY <1>1, <1>2, <1>3, <1>4, <1>5 DEF t
(***************************************************************************)
(* The inductive invariant                                                 *)
(***************************************************************************)
USE SlotsAssumption DEF SlotsAssumption

Inv == TypeOK /\ CountIsExact /\ QueueIsExact /\ NoIdleSlot

\* QueueIsExact, in the terms of the lemmas above.
LEMMA QueueAsSet ==
    ASSUME TypeOK
    PROVE  QueueIsExact <=>
              /\ Distinct(waiters)
              /\ Elements(waiters) = {r \in Requests : pc[r] = "waiting"}
BY DEF TypeOK, QueueIsExact, Distinct, Elements

LEMMA QueueAsSetPrime ==
    ASSUME TypeOK'
    PROVE  QueueIsExact' <=>
              /\ Distinct(waiters')
              /\ Elements(waiters') = {r \in Requests : pc'[r] = "waiting"}
BY DEF TypeOK, QueueIsExact, Distinct, Elements

\* The calls that hold a slot are finitely many.
LEMMA HoldersFinite ==
    /\ IsFiniteSet(Holders)
    /\ Cardinality(Holders) \in Nat
    /\ \A r \in Holders : Cardinality(Holders \ {r}) = Cardinality(Holders) - 1
    /\ \A r : r \notin Holders =>
                 Cardinality(Holders \cup {r}) = Cardinality(Holders) + 1
<1>1. IsFiniteSet(Holders)
    BY FS_Subset DEF Holders
<1> QED
    BY <1>1, FS_CardinalityType, FS_RemoveElement, FS_AddElement

LEMMA InvInit == Init => Inv
<1> SUFFICES ASSUME Init PROVE Inv
    OBVIOUS
<1>1. TypeOK
    BY DEF Init, TypeOK, Stages
<1>2. Holders = {}
    BY DEF Init, Holders
<1>3. CountIsExact
    BY <1>2, FS_EmptySet DEF Init, CountIsExact
<1>4. QueueIsExact /\ NoIdleSlot
    BY DEF Init, QueueIsExact, NoIdleSlot
<1> QED
    BY <1>1, <1>3, <1>4 DEF Inv

\* A call that ends passes its slot to the head of the queue or frees it.
LEMMA ReleaseStep ==
    ASSUME Inv, NEW r \in Holders, Release(r)
    PROVE  Inv'
<1> USE DEF Inv
<1>1. r \in Requests /\ pc[r] \notin {"idle", "waiting"}
    BY DEF Holders
<1>2. CASE SomeoneWaits /\ HandOver(r)
    <2> DEFINE h == Head(waiters)
    <2>1. /\ Distinct(waiters)
          /\ Elements(waiters) = {q \in Requests : pc[q] = "waiting"}
        BY QueueAsSet
    <2>2. /\ h \in Elements(waiters) /\ waiters' \in Seq(Requests)
          /\ Distinct(waiters') /\ Elements(waiters') = Elements(waiters) \ {h}
        BY <1>2, <2>1, TailDistinct DEF SomeoneWaits, HandOver, TypeOK
    <2>3. h \in Requests /\ pc[h] = "waiting" /\ h # r
        BY <1>1, <2>1, <2>2
    <2> HIDE DEF h
    <2>4. pc' = [pc EXCEPT ![r] = "idle", ![h] = "granted"] /\ inFlight' = inFlight
        BY <1>2 DEF HandOver, h
    <2>5. TypeOK'
        BY <1>1, <2>2, <2>3, <2>4 DEF TypeOK, Stages, Release
    <2>6. QueueIsExact'
        <3>1. Elements(waiters') = {q \in Requests : pc'[q] = "waiting"}
            BY <1>1, <2>1, <2>2, <2>3, <2>4 DEF TypeOK
        <3> QED
            BY <2>2, <2>5, <3>1, QueueAsSetPrime
    <2>7. CountIsExact'
        <3>1. Holders' = (Holders \ {r}) \cup {h}
            BY <1>1, <2>3, <2>4 DEF TypeOK, Holders
        <3>2. h \notin Holders
            BY <2>3 DEF Holders
        <3>3. /\ IsFiniteSet(Holders \ {r})
              /\ Cardinality(Holders \ {r}) = Cardinality(Holders) - 1
            BY HoldersFinite, FS_RemoveElement
        <3>4. Cardinality(Holders') = Cardinality(Holders) - 1 + 1
            BY <3>1, <3>2, <3>3, FS_AddElement
        <3> QED
            BY <2>4, <3>4, HoldersFinite DEF CountIsExact
    <2>8. NoIdleSlot'
        BY <1>2, <2>4 DEF NoIdleSlot, SomeoneWaits
    <2> QED
        BY <2>5, <2>6, <2>7, <2>8
<1>3. CASE ~SomeoneWaits /\ FreeSlot(r)
    <2>1. /\ waiters' = waiters /\ waiters = <<>>
          /\ inFlight' = inFlight - 1
          /\ pc' = [pc EXCEPT ![r] = "idle"]
        BY <1>3 DEF SomeoneWaits, FreeSlot
    <2>2. Cardinality(Holders) # 0
        BY HoldersFinite, FS_EmptySet
    <2>3. TypeOK'
        BY <1>1, <2>1, <2>2, HoldersFinite DEF TypeOK, Stages, CountIsExact, Release
    <2>4. CountIsExact'
        <3>1. Holders' = Holders \ {r}
            BY <1>1, <2>1 DEF TypeOK, Holders
        <3> QED
            BY <2>1, <3>1, HoldersFinite DEF CountIsExact
    <2>5. QueueIsExact'
        BY <1>1, <2>1 DEF TypeOK, QueueIsExact
    <2>6. NoIdleSlot'
        BY <2>1 DEF NoIdleSlot
    <2> QED
        BY <2>3, <2>4, <2>5, <2>6
<1> QED
    BY <1>2, <1>3 DEF Release
\* Every step preserves the invariant.
LEMMA InvStep == Inv /\ [Next]_vars => Inv'
<1> SUFFICES ASSUME Inv, [Next]_vars
             PROVE  Inv'
    OBVIOUS
<1> USE DEF Inv
<1>1. CASE UNCHANGED vars
    BY <1>1 DEF vars, TypeOK, CountIsExact, Holders, QueueIsExact, NoIdleSlot
<1>2. ASSUME NEW r \in Requests, RefuseCall(r) \/ Abort(r)
      PROVE  Inv'
    BY <1>2 DEF RefuseCall, Abort, TypeOK, CountIsExact, Holders, QueueIsExact, NoIdleSlot
<1>3. ASSUME NEW r \in Requests, TakeSlot(r)
      PROVE  Inv'
    <2>1. TypeOK' /\ QueueIsExact' /\ NoIdleSlot'
        BY <1>3 DEF TakeSlot, HasFreeSlot, TypeOK, Stages, QueueIsExact, NoIdleSlot
    <2>2. Holders' = Holders \cup {r} /\ r \notin Holders
        BY <1>3 DEF TakeSlot, TypeOK, Holders
    <2>3. CountIsExact'
        BY <1>3, <2>2, HoldersFinite DEF TakeSlot, CountIsExact
    <2> QED
        BY <2>1, <2>3
<1>4. ASSUME NEW r \in Requests, JoinQueue(r)
      PROVE  Inv'
    <2>1. /\ Distinct(waiters)
          /\ Elements(waiters) = {q \in Requests : pc[q] = "waiting"}
        BY QueueAsSet
    <2>2. r \notin Elements(waiters)
        BY <1>4, <2>1 DEF JoinQueue
    <2>3. /\ waiters' \in Seq(Requests) /\ Distinct(waiters')
          /\ Elements(waiters') = Elements(waiters) \cup {r}
        BY <1>4, <2>1, <2>2, AppendDistinct DEF JoinQueue, Enqueued, TypeOK
    <2>4. TypeOK' /\ NoIdleSlot'
        BY <1>4, <2>3 DEF JoinQueue, HasFreeSlot, TypeOK, Stages, NoIdleSlot
    <2>5. QueueIsExact'
        <3>1. Elements(waiters') = {q \in Requests : pc'[q] = "waiting"}
            BY <1>4, <2>1, <2>3 DEF JoinQueue, TypeOK
        <3> QED
            BY <2>3, <2>4, <3>1, QueueAsSetPrime
    <2>6. Holders' = Holders
        BY <1>4 DEF JoinQueue, TypeOK, Holders
    <2> QED
        BY <1>4, <2>4, <2>5, <2>6 DEF JoinQueue, CountIsExact
<1>5. ASSUME NEW r \in Requests, AbortWaiter(r)
      PROVE  Inv'
    <2>1. /\ Distinct(waiters)
          /\ Elements(waiters) = {q \in Requests : pc[q] = "waiting"}
        BY QueueAsSet
    <2>2. PICK i \in DOMAIN waiters : waiters[i] = r /\ waiters' = RemoveAt(waiters, i)
        BY <1>5 DEF AbortWaiter, Dequeued
    <2>3. /\ waiters' \in Seq(Requests) /\ Distinct(waiters')
          /\ Elements(waiters') = Elements(waiters) \ {r}
        BY <2>1, <2>2, RemoveAtDistinct DEF TypeOK
    <2>4. TypeOK'
        BY <1>5, <2>3 DEF AbortWaiter, TypeOK, Stages
    <2>5. QueueIsExact'
        <3>1. Elements(waiters') = {q \in Requests : pc'[q] = "waiting"}
            BY <1>5, <2>1, <2>3 DEF AbortWaiter, TypeOK
        <3> QED
            BY <2>3, <2>4, <3>1, QueueAsSetPrime
    <2>6. waiters # <<>>
        BY <2>2
    <2>7. Holders' = Holders
        BY <1>5 DEF AbortWaiter, TypeOK, Holders
    <2> QED
        BY <1>5, <2>4, <2>5, <2>6, <2>7 DEF AbortWaiter, CountIsExact, NoIdleSlot
<1>6. ASSUME NEW r \in Requests, Resume(r)
      PROVE  Inv'
    <2>1. TypeOK' /\ QueueIsExact' /\ NoIdleSlot'
        BY <1>6 DEF Resume, TypeOK, Stages, QueueIsExact, NoIdleSlot
    <2>2. Holders' = Holders
        BY <1>6 DEF Resume, TypeOK, Holders
    <2> QED
        BY <1>6, <2>1, <2>2 DEF Resume, CountIsExact
<1>7. ASSUME NEW r \in Requests, ResumeAborted(r) \/ Settle(r)
      PROVE  Inv'
    <2>1. r \in Holders /\ Release(r)
        BY <1>7 DEF ResumeAborted, Settle, Holders
    <2> QED
        BY <2>1, ReleaseStep
<1> QED
    BY <1>1, <1>2, <1>3, <1>4, <1>5, <1>6, <1>7 DEF Next, Proceed

LEMMA Invariance == Spec => []Inv
BY InvInit, InvStep, PTL DEF Spec

(***************************************************************************)
(* The variables stay in their ranges: in particular hccInFlight is never  *)
(* negative and never exceeds BACKFILL_HCC_CONCURRENCY.                    *)
(***************************************************************************)
THEOREM SlotsTypeCorrect == Spec => []TypeOK
BY Invariance, PTL DEF Inv

(***************************************************************************)
(* hccInFlight is the number of calls that hold a slot, at any time and    *)
(* whenever signals fire: acquireHccSlot and releaseHccSlot neither leak a *)
(* slot nor free one twice.                                                *)
(***************************************************************************)
THEOREM NoSlotLost == Spec => []CountIsExact
BY Invariance, PTL DEF Inv

(***************************************************************************)
(* hccWaiters holds each waiting call once and nothing else, and a call    *)
(* waits only while every slot is taken: a wake-up is neither lost, nor    *)
(* given to a call that has gone.                                          *)
(***************************************************************************)
THEOREM NoWakeUpLost == Spec => [](QueueIsExact /\ NoIdleSlot)
BY Invariance, PTL DEF Inv

(***************************************************************************)
(* Order of service                                                        *)
(***************************************************************************)
LEMMA OrderStep ==
    ASSUME Inv, [Next]_vars,
           NEW r \in Requests, NEW s \in Requests, WaitsBefore(r, s)
    PROVE  \/ pc'[r] # "waiting"
           \/ /\ WaitsBefore(r, s)'
              /\ pc'[s] = "granted" => pc[s] = "granted"
<1> DEFINE Ordered == /\ WaitsBefore(r, s)'
                      /\ pc'[s] = "granted" => pc[s] = "granted"
<1> USE DEF Inv
<1>1. PICK i \in DOMAIN waiters :
          waiters[i] = r /\ \A j \in 1 .. i - 1 : waiters[j] # s
    BY DEF WaitsBefore
<1>2. /\ waiters # <<>> /\ inFlight = Capacity
      /\ Len(waiters) \in Nat /\ DOMAIN waiters = 1 .. Len(waiters)
    BY <1>1 DEF NoIdleSlot, TypeOK
<1>3. CASE UNCHANGED vars
    BY <1>3 DEF vars, WaitsBefore
<1>4. ASSUME NEW c \in Requests, RefuseCall(c) \/ Abort(c) \/ Resume(c)
      PROVE  Ordered
    BY <1>4 DEF RefuseCall, Abort, Resume, WaitsBefore, TypeOK
<1>5. ASSUME NEW c \in Requests, TakeSlot(c)
      PROVE  FALSE
    BY <1>2, <1>5 DEF TakeSlot, HasFreeSlot, TypeOK
<1>6. ASSUME NEW c \in Requests, JoinQueue(c)
      PROVE  Ordered
    <2>1. /\ i \in DOMAIN waiters'
          /\ \A j \in 1 .. i : waiters'[j] = waiters[j]
        BY <1>2, <1>6 DEF JoinQueue, Enqueued, TypeOK
    <2>2. WaitsBefore(r, s)'
        BY <1>1, <1>2, <2>1 DEF WaitsBefore
    <2> QED
        BY <1>6, <2>2 DEF JoinQueue, TypeOK
<1>7. ASSUME NEW c \in Requests, AbortWaiter(c), c # r
      PROVE  Ordered
    <2>1. PICK p \in DOMAIN waiters : waiters[p] = c /\ waiters' = RemoveAt(waiters, p)
        BY <1>7 DEF AbortWaiter, Dequeued
    <2>2. /\ DOMAIN waiters' = 1 .. Len(waiters) - 1
          /\ \A k \in 1 .. Len(waiters) - 1 :
                waiters'[k] = IF k < p THEN waiters[k] ELSE waiters[k + 1]
        BY <2>1, RemoveAtIndexes DEF TypeOK
    <2>3. p # i
        BY <1>1, <1>7, <2>1
    <2>4. CASE i < p
        <3>1. /\ i \in DOMAIN waiters'
              /\ \A j \in 1 .. i : waiters'[j] = waiters[j]
            BY <1>2, <2>2, <2>4
        <3>2. WaitsBefore(r, s)'
            BY <1>1, <1>2, <3>1 DEF WaitsBefore
        <3> QED
            BY <1>7, <3>2 DEF AbortWaiter, TypeOK
    <2>5. CASE p < i
        <3>1. i - 1 \in DOMAIN waiters' /\ waiters'[i - 1] = r
            BY <1>1, <1>2, <2>2, <2>5
        <3>2. ASSUME NEW j \in 1 .. i - 1 - 1
              PROVE  waiters'[j] # s
            BY <1>1, <1>2, <2>2, <2>5
        <3> QED
            BY <1>7, <3>1, <3>2 DEF WaitsBefore, AbortWaiter, TypeOK
    <2> QED
        BY <1>2, <2>3, <2>4, <2>5
<1>8. ASSUME NEW c \in Requests, pc[c] \in {"granted", "fetching"}, Release(c)
      PROVE  pc'[r] # "waiting" \/ Ordered
    <2>1. /\ waiters' = Tail(waiters)
          /\ pc' = [pc EXCEPT ![c] = "idle", ![waiters[1]] = "granted"]
        BY <1>2, <1>8 DEF Release, SomeoneWaits, HandOver, TypeOK
    <2>2. CASE i = 1
        BY <1>1, <2>1, <2>2 DEF TypeOK
    <2>3. CASE i > 1
        <3>1. /\ DOMAIN waiters' = 1 .. Len(waiters) - 1
              /\ \A k \in 1 .. Len(waiters) - 1 : waiters'[k] = waiters[k + 1]
            BY <1>2, <2>1 DEF TypeOK
        <3>2. i - 1 \in DOMAIN waiters' /\ waiters'[i - 1] = r
            BY <1>1, <1>2, <2>3, <3>1
        <3>3. ASSUME NEW j \in 1 .. i - 1 - 1
              PROVE  waiters'[j] # s
            BY <1>1, <1>2, <2>3, <3>1
        <3>4. waiters[1] # s
            BY <1>1, <1>2, <2>3
        <3> QED
            BY <2>1, <3>2, <3>3, <3>4 DEF WaitsBefore, TypeOK
    <2> QED
        BY <1>2, <2>2, <2>3
<1>9. ASSUME AbortWaiter(r)
      PROVE  pc'[r] # "waiting"
    BY <1>9 DEF AbortWaiter, TypeOK
<1> QED
    BY <1>3, <1>4, <1>5, <1>6, <1>7, <1>8, <1>9
    DEF Next, Proceed, ResumeAborted, Settle

(***************************************************************************)
(* First come, first served: shift() serves the head, push() adds at the   *)
(* end, splice() of an aborted waiter moves nobody back, and a new caller  *)
(* finds no free slot while somebody waits.                                *)
(***************************************************************************)
THEOREM FirstComeFirstServed == Spec => NoOvertaking
<1>1. Inv /\ [Next]_vars =>
          [\A r, s \in Requests :
              WaitsBefore(r, s) =>
                  \/ pc'[r] # "waiting"
                  \/ /\ WaitsBefore(r, s)'
                     /\ pc'[s] = "granted" => pc[s] = "granted"]_vars
    BY OrderStep
<1> QED
    BY <1>1, Invariance, PTL DEF Spec, NoOvertaking
=============================================================================
