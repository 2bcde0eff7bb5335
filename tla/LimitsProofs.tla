---------------------------- MODULE LimitsProofs ----------------------------
(***************************************************************************)
(* What luima refuses, and that it refuses nothing else: proofs about the  *)
(* rate limiter, for any number of requests, keys and limits, and about    *)
(* the two walks behind the query limits, for any document.                *)
(*                                                                         *)
(* RateLimit.  Its safety properties are not inductive: a 429 is justified *)
(* by the other requests counted in its window, and the widths of windows  *)
(* by the order in which the mutex admits clock readings.  IInv adds those *)
(* two: the map agrees with the requests it counted (Books), and the       *)
(* readings of two counted requests are ordered as their windows are       *)
(* (Ordered).                                                              *)
(*                                                                         *)
(* QueryLimits.  The invariant WalkInv says how the calls in progress are  *)
(* nested, what each has measured of the selections it has done, and what  *)
(* the map that the walks hand on has to do with both.                     *)
(***************************************************************************)
EXTENDS RateLimit, QueryLimits, SequenceTheorems, FiniteSetTheorems,
        NaturalsInduction, WellFoundedInduction, TLAPS

(* Exactly the goroutine that holds the mutex is in the critical section.  *)
Mutex == \A r \in Requests : InCritical(r) <=> mu = r

(* The window of a request in the critical section is not ahead of it; once *)
(* swept, the request lies within the window.                              *)
Swept == \A r \in Requests :
            /\ pc[r] \in {"sweep", "hit"} => /\ now[r] <= clock
                                             /\ windowEnd - Per <= now[r]
            /\ pc[r] = "hit" => now[r] <= windowEnd

NotAhead == windowEnd - Per <= clock

(* Where a counted request lies relative to the current window.            *)
Placed == \A q \in Counted :
            /\ win[q] <= window
            /\ win[q] = window => /\ windowEnd - Per <= now[q]
                                  /\ now[q] + retry[q] = windowEnd
            /\ now[q] <= windowEnd
            /\ win[q] < window => now[q] < windowEnd - Per
            /\ win[q] + 1 < window => now[q] + Per < windowEnd - Per

(* The readings of two counted requests are ordered as their windows are.  *)
Ordered == \A p, q \in Counted :
            /\ win[p] < win[q] => now[p] < now[q]
            /\ win[p] + 1 < win[q] => now[p] + Per < now[q]
            /\ win[p] <= win[q] => now[p] <= now[q] + retry[q]

(* The map agrees with the requests it has counted.                        *)
Books == /\ IsFiniteSet(Counted)
         /\ \A k \in Keys :
              /\ CountOf(hits, k) = Cardinality(CountedIn(k, window))
              /\ Cardinality(AdmittedIn(k, window)) = Least(CountOf(hits, k), N)
         /\ \A k \in Keys, w \in 0 .. window : Cardinality(AdmittedIn(k, w)) <= N
         /\ \A r \in Counted : over[r] => Cardinality(AdmittedIn(key[r], win[r])) = N

IInv == TypeOK /\ Mutex /\ NotAhead /\ Swept /\ Placed /\ Ordered /\ Books

-----------------------------------------------------------------------------
(* The sets of counted requests are finite where Counted is.               *)
LEMMA FinitePieces ==
    ASSUME IsFiniteSet(Counted), NEW k, NEW w
    PROVE  IsFiniteSet(CountedIn(k, w)) /\ IsFiniteSet(AdmittedIn(k, w))
  <1>1. CountedIn(k, w) \subseteq Counted /\ AdmittedIn(k, w) \subseteq Counted
    BY DEF CountedIn, AdmittedIn
  <1> QED  BY <1>1, FS_Subset

(* Bump adds one to one key and leaves the others.                         *)
LEMMA BumpCounts ==
    ASSUME NEW h, NEW k, NEW x
    PROVE  CountOf(Bump(h, k), x) = IF x = k THEN CountOf(h, k) + 1 ELSE CountOf(h, x)
  BY DEF CountOf, Bump

(* A step that counts nobody leaves every counted set as it was.           *)
LEMMA CountedUnchanged ==
    ASSUME Counted' = Counted, UNCHANGED <<key, win, over>>
    PROVE  \A k, w : /\ CountedIn(k, w)' = CountedIn(k, w)
                     /\ AdmittedIn(k, w)' = AdmittedIn(k, w)
  BY DEF CountedIn, AdmittedIn

(* The counting step adds one request, to its own key and window only.     *)
LEMMA HitCounts ==
    ASSUME TypeOK, NEW r \in Requests, Hit(r)
    PROVE  /\ r \notin Counted
           /\ Counted' = Counted \cup {r}
           /\ win'[r] = window /\ retry'[r] = windowEnd - now[r]
           /\ over'[r] <=> (CountOf(hits, key[r]) + 1 > N)
           /\ \A q \in Counted : win'[q] = win[q] /\ retry'[q] = retry[q] /\ over'[q] = over[q]
           /\ \A k, w : /\ CountedIn(k, w)' = IF k = key[r] /\ w = window
                                              THEN CountedIn(k, w) \cup {r}
                                              ELSE CountedIn(k, w)
                        /\ AdmittedIn(k, w)' = IF k = key[r] /\ w = window /\ ~over'[r]
                                               THEN AdmittedIn(k, w) \cup {r}
                                               ELSE AdmittedIn(k, w)
  <1>1. r \notin Counted /\ Counted' = Counted \cup {r}
    BY DEF TypeOK, Hit, OverLimit, Unlock, Goto, Counted
  <1>2. win'[r] = window /\ retry'[r] = windowEnd - now[r]
    BY DEF TypeOK, Hit, OverLimit, Unlock
  <1>3. \A q \in Counted : win'[q] = win[q] /\ retry'[q] = retry[q] /\ over'[q] = over[q]
    BY <1>1 DEF TypeOK, Hit, OverLimit, Unlock, Counted
  <1>4. over'[r] <=> (CountOf(hits, key[r]) + 1 > N)
    <2>1. over'[r] <=> (CountOf(hits', key[r]) > N)
      BY DEF TypeOK, Hit, OverLimit, Unlock, CountOf, Bump
    <2> QED  BY <2>1, BumpCounts DEF Hit, OverLimit, Unlock
  <1>5. key' = key
    BY DEF Hit, OverLimit, Unlock
  <1>6. ASSUME NEW k, NEW w
        PROVE  /\ CountedIn(k, w)' = IF k = key[r] /\ w = window
                                     THEN CountedIn(k, w) \cup {r} ELSE CountedIn(k, w)
               /\ AdmittedIn(k, w)' = IF k = key[r] /\ w = window /\ ~over'[r]
                                      THEN AdmittedIn(k, w) \cup {r} ELSE AdmittedIn(k, w)
    BY <1>1, <1>2, <1>3, <1>5 DEF CountedIn, AdmittedIn
  <1> QED  BY <1>1, <1>2, <1>3, <1>4, <1>6

-----------------------------------------------------------------------------
(* Every step keeps the types.                                             *)
LEMMA TypeStep == TypeOK /\ [Next]_vars => TypeOK'
  <1> SUFFICES ASSUME TypeOK, [Next]_vars PROVE TypeOK'
    OBVIOUS
  <1> USE LimiterConstants DEF TypeOK
  <1>1. CASE UNCHANGED vars
    BY <1>1 DEF vars
  <1>2. CASE Tick
    BY <1>2 DEF Tick, shared, locals
  <1>3. ASSUME NEW r \in Requests, Arrive(r) PROVE TypeOK'
    BY <1>3 DEF Arrive, Goto, shared, locals
  <1>4. ASSUME NEW r \in Requests, Lock(r) PROVE TypeOK'
    BY <1>4 DEF Lock, Goto, locals
  <1>5. ASSUME NEW r \in Requests, ReadClock(r) PROVE TypeOK'
    BY <1>5 DEF ReadClock, Goto, shared
  <1>6. ASSUME NEW r \in Requests, Sweep(r) PROVE TypeOK'
    <2>1. CASE now[r] > windowEnd
      BY <1>6, <2>1 DEF Sweep, Expired, EndAfter, SweptMap, Goto, locals, EmptyMap
    <2>2. CASE ~(now[r] > windowEnd)
      BY <1>6, <2>2 DEF Sweep, Expired, EndAfter, SweptMap, Goto, locals
    <2> QED  BY <2>1, <2>2
  <1>7. ASSUME NEW r \in Requests, Hit(r) PROVE TypeOK'
    <2>1. DOMAIN hits' = DOMAIN hits \cup {key[r]}
      BY <1>7 DEF Hit, OverLimit, Unlock, Bump
    <2>2. \A k \in DOMAIN hits' : hits'[k] \in Nat \ {0}
      BY <1>7 DEF Hit, OverLimit, Unlock, Bump, CountOf
    <2> QED  BY <1>7, <2>1, <2>2 DEF Hit, OverLimit, Unlock, Goto
  <1>8. ASSUME NEW r \in Requests, Answer(r) PROVE TypeOK'
    BY <1>8 DEF Answer, Goto, shared, locals
  <1> QED  BY <1>1, <1>2, <1>3, <1>4, <1>5, <1>6, <1>7, <1>8 DEF Next, Step

(* Every step keeps the mutex exclusive.                                   *)
LEMMA MutexStep == TypeOK /\ Mutex /\ [Next]_vars => Mutex'
  <1> SUFFICES ASSUME TypeOK, Mutex, [Next]_vars PROVE Mutex'
    OBVIOUS
  <1> USE LimiterConstants DEF TypeOK, Mutex, InCritical
  <1>1. CASE UNCHANGED vars
    BY <1>1 DEF vars
  <1>2. CASE Tick
    BY <1>2 DEF Tick, shared
  <1>3. ASSUME NEW r \in Requests, Arrive(r) \/ Lock(r) \/ Hit(r) \/ Answer(r) PROVE Mutex'
    BY <1>3 DEF Arrive, Lock, Hit, OverLimit, Unlock, Answer, Goto, shared
  <1>4. ASSUME NEW r \in Requests, ReadClock(r) \/ Sweep(r) PROVE Mutex'
    BY <1>4 DEF ReadClock, Sweep, Expired, EndAfter, SweptMap, Goto, shared
  <1> QED  BY <1>1, <1>2, <1>3, <1>4 DEF Next, Step

(* Steps other than the sweep and the counting step count nobody and keep  *)
(* the window.                                                             *)
Quiet == /\ Counted' = Counted
         /\ UNCHANGED <<hits, windowEnd, window, key, win, over, retry>>

LEMMA QuietSteps ==
    ASSUME TypeOK, NEW r \in Requests,
           UNCHANGED vars \/ Tick \/ Arrive(r) \/ Lock(r) \/ ReadClock(r) \/ Answer(r)
    PROVE  Quiet
  <1> USE DEF TypeOK, Quiet, Counted, Goto, shared, locals
  <1>1. CASE UNCHANGED vars \/ Tick
    BY <1>1 DEF vars, Tick
  <1>2. CASE Arrive(r) \/ Lock(r) \/ ReadClock(r)
    BY <1>2 DEF Arrive, Lock, ReadClock
  <1>3. CASE Answer(r)
    BY <1>3 DEF Answer
  <1> QED  BY <1>1, <1>2, <1>3

(* The readings of counted requests never change.                          *)
LEMMA ReadingsKept ==
    ASSUME TypeOK, [Next]_vars
    PROVE  \A q \in Counted : q \in Counted' /\ now'[q] = now[q] /\ key'[q] = key[q]
  <1> USE DEF TypeOK, Counted, Goto, shared, locals
  <1>1. CASE UNCHANGED vars \/ Tick
    BY <1>1 DEF vars, Tick
  <1>2. ASSUME NEW r \in Requests, Arrive(r) \/ Lock(r) \/ ReadClock(r) \/ Answer(r)
        PROVE  \A q \in Counted : q \in Counted' /\ now'[q] = now[q] /\ key'[q] = key[q]
    BY <1>2 DEF Arrive, Lock, ReadClock, Answer
  <1>3. ASSUME NEW r \in Requests, Sweep(r) \/ Hit(r)
        PROVE  \A q \in Counted : q \in Counted' /\ now'[q] = now[q] /\ key'[q] = key[q]
    BY <1>3 DEF Sweep, Expired, EndAfter, SweptMap, Hit, OverLimit, Unlock
  <1> QED  BY <1>1, <1>2, <1>3 DEF Next, Step

-----------------------------------------------------------------------------
Times == NotAhead /\ Swept /\ Placed /\ Ordered

(* Every step keeps requests and windows in the order of the clock.        *)
LEMMA TimesStep == TypeOK /\ Mutex /\ Times /\ [Next]_vars => Times'
  <1> SUFFICES ASSUME TypeOK, Mutex, Times, [Next]_vars PROVE Times'
    OBVIOUS
  <1>k. \A q \in Counted : q \in Counted' /\ now'[q] = now[q] /\ key'[q] = key[q]
    BY ReadingsKept
  <1>a. ASSUME Quiet PROVE Placed' /\ Ordered'
    BY <1>a, <1>k DEF Quiet, Times, Placed, Ordered
  <1> USE LimiterConstants DEF TypeOK, Times, NotAhead, Swept
  <1>1. CASE UNCHANGED vars
    <2>1. Quiet
      BY <1>1 DEF Quiet, Counted, vars
    <2> QED  BY <1>1, <1>a, <2>1 DEF vars
  <1>2. CASE Tick
    <2>1. Quiet
      BY <1>2 DEF Quiet, Counted, Tick, shared, locals
    <2> QED  BY <1>2, <1>a, <2>1 DEF Tick, shared, locals
  <1>3. ASSUME NEW r \in Requests, Arrive(r) \/ Lock(r) \/ Answer(r) PROVE Times'
    <2>1. Quiet
      BY <1>3, QuietSteps
    <2> QED  BY <1>3, <1>a, <2>1 DEF Arrive, Lock, Answer, Goto, shared, locals
  <1>4. ASSUME NEW r \in Requests, ReadClock(r) PROVE Times'
    <2>1. Quiet
      BY <1>4, QuietSteps
    <2>2. NotAhead' /\ Swept'
      BY <1>4 DEF ReadClock, Goto, shared
    <2> QED  BY <1>a, <2>1, <2>2
  <1>5. ASSUME NEW r \in Requests, Sweep(r) PROVE Times'
    <2>1. Counted' = Counted /\ UNCHANGED <<clock, now, win, retry>>
      BY <1>5 DEF Sweep, Expired, EndAfter, SweptMap, Counted, Goto, locals
    <2>2. Ordered'
      BY <2>1 DEF Ordered
    <2>3. \A q \in Requests : q # r => pc'[q] = pc[q] /\ ~InCritical(q)
      BY <1>5 DEF Sweep, Expired, EndAfter, SweptMap, Goto, Mutex, InCritical
    <2>4. CASE now[r] > windowEnd
      <3>1. windowEnd' = now[r] + Per /\ window' = window + 1
        BY <1>5, <2>4 DEF Sweep, Expired, EndAfter, SweptMap
      <3>2. NotAhead' /\ Swept'
        BY <1>5, <2>1, <2>3, <2>4, <3>1 DEF Sweep, Expired, EndAfter, SweptMap, Goto, InCritical
      <3>3. Placed'
        BY <1>5, <2>1, <2>4, <3>1 DEF Placed, Counted
      <3> QED  BY <2>2, <3>2, <3>3
    <2>5. CASE ~(now[r] > windowEnd)
      <3>1. UNCHANGED <<windowEnd, window>>
        BY <1>5, <2>5 DEF Sweep, Expired, EndAfter, SweptMap
      <3>2. NotAhead' /\ Swept'
        BY <1>5, <2>1, <2>3, <2>5, <3>1 DEF Sweep, Expired, EndAfter, SweptMap, Goto, InCritical
      <3>3. Placed'
        BY <2>1, <3>1 DEF Placed
      <3> QED  BY <2>2, <3>2, <3>3
    <2> QED  BY <2>4, <2>5
  <1>6. ASSUME NEW r \in Requests, Hit(r) PROVE Times'
    <2>1. /\ r \notin Counted
          /\ Counted' = Counted \cup {r}
          /\ win'[r] = window /\ retry'[r] = windowEnd - now[r]
          /\ \A q \in Counted : win'[q] = win[q] /\ retry'[q] = retry[q]
      BY <1>6, HitCounts
    <2>2. UNCHANGED <<clock, windowEnd, window, now>>
      BY <1>6 DEF Hit, OverLimit, Unlock
    <2>3. windowEnd - Per <= now[r] /\ now[r] <= windowEnd
      BY <1>6 DEF Hit, OverLimit, Unlock
    <2>4. NotAhead' /\ Swept'
      BY <1>6, <2>2 DEF Hit, OverLimit, Unlock, Goto
    <2>5. Placed'
      BY <2>1, <2>2, <2>3 DEF Placed, Counted
    <2>6. Ordered'
      <3> SUFFICES ASSUME NEW p \in Counted \cup {r}, NEW q \in Counted \cup {r}
                   PROVE  /\ win'[p] < win'[q] => now[p] < now[q]
                          /\ win'[p] + 1 < win'[q] => now[p] + Per < now[q]
                          /\ win'[p] <= win'[q] => now[p] <= now[q] + retry'[q]
        BY <2>1, <2>2 DEF Ordered
      <3>1. CASE p \in Counted /\ q \in Counted
        BY <3>1, <2>1 DEF Ordered
      <3>2. CASE p \in Counted /\ q = r
        BY <3>2, <2>1, <2>3 DEF Placed, Counted
      <3>3. CASE p = r /\ q \in Counted
        BY <3>3, <2>1, <2>3 DEF Placed, Counted
      <3>4. CASE p = r /\ q = r
        BY <3>4, <2>1, <2>3
      <3> QED  BY <3>1, <3>2, <3>3, <3>4
    <2> QED  BY <2>4, <2>5, <2>6
  <1> QED  BY <1>1, <1>2, <1>3, <1>4, <1>5, <1>6 DEF Next, Step

-----------------------------------------------------------------------------
(* A window nobody has been counted in yet is empty.                       *)
LEMMA Unopened ==
    ASSUME TypeOK, Placed, NEW k, NEW w \in Nat, w > window
    PROVE  CountedIn(k, w) = {} /\ AdmittedIn(k, w) = {}
  BY DEF TypeOK, Placed, Counted, CountedIn, AdmittedIn

(* Every step keeps the map in agreement with the requests counted.        *)
LEMMA BooksStep == TypeOK /\ Placed /\ Books /\ [Next]_vars => Books'
  <1> SUFFICES ASSUME TypeOK, Placed, Books, [Next]_vars PROVE Books'
    OBVIOUS
  <1> USE LimiterConstants
  <1>a. ASSUME Quiet PROVE Books'
    <2>1. \A k, w : /\ CountedIn(k, w)' = CountedIn(k, w)
                    /\ AdmittedIn(k, w)' = AdmittedIn(k, w)
      BY <1>a, CountedUnchanged DEF Quiet
    <2>2. IsFiniteSet(Counted')
      BY <1>a DEF Quiet, Books
    <2>3. \A k \in Keys :
              /\ CountOf(hits', k) = Cardinality(CountedIn(k, window)')
              /\ Cardinality(AdmittedIn(k, window)') = Least(CountOf(hits', k), N)
      BY <1>a, <2>1 DEF Quiet, Books
    <2>4. \A k \in Keys, w \in 0 .. window' : Cardinality(AdmittedIn(k, w)') <= N
      BY <1>a, <2>1 DEF Quiet, Books
    <2>5. \A r \in Counted' : over'[r] => Cardinality(AdmittedIn(key[r], win[r])') = N
      BY <1>a, <2>1 DEF Quiet, Books
    <2> QED  BY <1>a, <2>1, <2>2, <2>3, <2>4, <2>5 DEF Quiet, Books
  <1>1. CASE UNCHANGED vars \/ Tick
    BY <1>1, <1>a DEF Quiet, Counted, vars, Tick, shared, locals
  <1>2. ASSUME NEW r \in Requests, Arrive(r) \/ Lock(r) \/ ReadClock(r) \/ Answer(r)
        PROVE  Books'
    BY <1>2, <1>a, QuietSteps
  <1>3. ASSUME NEW r \in Requests, Sweep(r) PROVE Books'
    <2>1. Counted' = Counted /\ UNCHANGED <<key, win, over>>
      BY <1>3 DEF Sweep, Expired, EndAfter, SweptMap, Counted, Goto, locals
    <2>2. CASE now[r] > windowEnd
      <3>1. hits' = EmptyMap /\ window' = window + 1
        BY <1>3, <2>2 DEF Sweep, Expired, EndAfter, SweptMap
      <3>2. \A k, w : /\ CountedIn(k, w)' = CountedIn(k, w)
                      /\ AdmittedIn(k, w)' = AdmittedIn(k, w)
        BY <2>1, CountedUnchanged
      <3>3. \A k \in Keys : CountedIn(k, window + 1) = {} /\ AdmittedIn(k, window + 1) = {}
        BY Unopened DEF TypeOK
      <3>4. \A k : CountOf(hits', k) = 0
        BY <3>1 DEF CountOf, EmptyMap
      <3>5. \A k \in Keys :
              /\ CountOf(hits', k) = Cardinality(CountedIn(k, window + 1))
              /\ Cardinality(AdmittedIn(k, window + 1)) = Least(CountOf(hits', k), N)
        BY <3>3, <3>4, FS_EmptySet DEF Least
      <3>6. \A k \in Keys, w \in 0 .. window + 1 : Cardinality(AdmittedIn(k, w)) <= N
        <4> SUFFICES ASSUME NEW k \in Keys, NEW w \in 0 .. window + 1
                     PROVE  Cardinality(AdmittedIn(k, w)) <= N
          OBVIOUS
        <4>1. CASE w = window + 1
          BY <4>1, <3>3, FS_EmptySet
        <4>2. CASE w \in 0 .. window
          BY <4>2 DEF Books
        <4> QED  BY <4>1, <4>2 DEF TypeOK
      <3> QED  BY <2>1, <3>1, <3>2, <3>5, <3>6 DEF Books
    <2>3. CASE ~(now[r] > windowEnd)
      <3>1. Quiet
        BY <1>3, <2>1, <2>3 DEF Sweep, Expired, EndAfter, SweptMap, Quiet, locals
      <3> QED  BY <3>1, <1>a
    <2> QED  BY <2>2, <2>3
  <1>4. ASSUME NEW r \in Requests, Hit(r) PROVE Books'
    <2>0. PICK kr, W : kr = key[r] /\ W = window
      OBVIOUS
    <2>1. /\ r \notin Counted
          /\ Counted' = Counted \cup {r}
          /\ win'[r] = W
          /\ over'[r] <=> (CountOf(hits, kr) + 1 > N)
          /\ \A q \in Counted : win'[q] = win[q] /\ over'[q] = over[q]
          /\ CountedIn(kr, W)' = CountedIn(kr, W) \cup {r}
          /\ over'[r] => AdmittedIn(kr, W)' = AdmittedIn(kr, W)
          /\ ~over'[r] => AdmittedIn(kr, W)' = AdmittedIn(kr, W) \cup {r}
          /\ \A k, w : ~(k = kr /\ w = W) => /\ CountedIn(k, w)' = CountedIn(k, w)
                                             /\ AdmittedIn(k, w)' = AdmittedIn(k, w)
      BY <1>4, <2>0, HitCounts
    <2>2. window' = W /\ key' = key /\ kr \in Keys /\ W \in Nat
      BY <1>4, <2>0 DEF Hit, OverLimit, Unlock, TypeOK
    <2>3. \A k : CountOf(hits', k) = IF k = kr THEN CountOf(hits, kr) + 1
                                     ELSE CountOf(hits, k)
      BY <1>4, <2>0, BumpCounts DEF Hit, OverLimit, Unlock
    <2>4. r \notin CountedIn(kr, W) /\ r \notin AdmittedIn(kr, W)
      BY <2>1 DEF CountedIn, AdmittedIn
    <2>5. IsFiniteSet(CountedIn(kr, W)) /\ IsFiniteSet(AdmittedIn(kr, W))
      BY FinitePieces DEF Books
    <2>6. /\ Cardinality(CountedIn(kr, W) \cup {r}) = Cardinality(CountedIn(kr, W)) + 1
          /\ Cardinality(AdmittedIn(kr, W) \cup {r}) = Cardinality(AdmittedIn(kr, W)) + 1
      BY <2>4, <2>5, FS_AddElement
    <2>7. IsFiniteSet(Counted')
      BY <2>1, FS_AddElement DEF Books
    <2>8. CountOf(hits, kr) \in Nat /\ N \in Nat
      BY <2>2 DEF TypeOK, CountOf, LimiterConstants
    <2>b. \A k \in Keys :
              /\ CountOf(hits, k) = Cardinality(CountedIn(k, W))
              /\ Cardinality(AdmittedIn(k, W)) = Least(CountOf(hits, k), N)
      BY <2>0 DEF Books
    <2>9. \A k \in Keys : /\ CountOf(hits', k) = Cardinality(CountedIn(k, W)')
                          /\ Cardinality(AdmittedIn(k, W)') = Least(CountOf(hits', k), N)
      <3> SUFFICES ASSUME NEW k \in Keys
                   PROVE  /\ CountOf(hits', k) = Cardinality(CountedIn(k, W)')
                          /\ Cardinality(AdmittedIn(k, W)') = Least(CountOf(hits', k), N)
        OBVIOUS
      <3>1. CASE k # kr
        BY <3>1, <2>1, <2>3, <2>b
      <3>2. CASE k = kr
        <4>1. CountOf(hits', kr) = Cardinality(CountedIn(kr, W)')
          BY <2>1, <2>2, <2>3, <2>6, <2>b
        <4>2. Cardinality(AdmittedIn(kr, W)) = Least(CountOf(hits, kr), N)
          BY <2>2, <2>b
        <4>3. CountOf(hits', kr) = CountOf(hits, kr) + 1
          BY <2>3
        <4>4. CASE over'[r]
          <5>1. Cardinality(AdmittedIn(kr, W)') = Cardinality(AdmittedIn(kr, W))
            BY <2>1, <4>4
          <5>2. CountOf(hits, kr) + 1 > N
            BY <2>1, <4>4
          <5>3. Least(CountOf(hits, kr), N) = Least(CountOf(hits', kr), N)
            BY <2>8, <4>3, <5>2 DEF Least
          <5> QED  BY <3>2, <4>1, <4>2, <5>1, <5>3
        <4>5. CASE ~over'[r]
          <5>1. Cardinality(AdmittedIn(kr, W)') = Cardinality(AdmittedIn(kr, W)) + 1
            BY <2>1, <2>6, <4>5
          <5>2. ~(CountOf(hits, kr) + 1 > N)
            BY <2>1, <4>5
          <5>3. Least(CountOf(hits, kr), N) + 1 = Least(CountOf(hits', kr), N)
            BY <2>8, <4>3, <5>2 DEF Least
          <5> QED  BY <3>2, <4>1, <4>2, <5>1, <5>3
        <4> QED  BY <4>4, <4>5
      <3> QED  BY <3>1, <3>2
    <2>10. \A k \in Keys, w \in 0 .. W : Cardinality(AdmittedIn(k, w)') <= N
      <3> SUFFICES ASSUME NEW k \in Keys, NEW w \in 0 .. W
                   PROVE  Cardinality(AdmittedIn(k, w)') <= N
        OBVIOUS
      <3>1. CASE w = W /\ k = kr
        <4>1. Cardinality(AdmittedIn(k, w)') = Least(CountOf(hits', kr), N)
          BY <3>1, <2>9
        <4>2. CountOf(hits', kr) \in Nat
          BY <2>3, <2>8
        <4> QED  BY <4>1, <4>2, <2>8 DEF Least
      <3>2. CASE ~(w = W /\ k = kr)
        BY <3>2, <2>0, <2>1 DEF Books
      <3> QED  BY <3>1, <3>2
    <2>11. ASSUME NEW q \in Counted', over'[q]
           PROVE  Cardinality(AdmittedIn(key[q], win[q])') = N
      <3>0. PICK kq, wq : kq = key'[q] /\ wq = win'[q]
        OBVIOUS
      <3>a. AdmittedIn(key[q], win[q])' = AdmittedIn(kq, wq)'
        BY <3>0 DEF AdmittedIn, CountedIn
      <3>1. CASE q = r
        <4>1. kq = kr /\ wq = W
          BY <3>0, <3>1, <2>0, <2>1, <2>2
        <4>2. Cardinality(AdmittedIn(kr, W)') = Least(CountOf(hits', kr), N)
          BY <2>2, <2>9
        <4>3. CountOf(hits', kr) = CountOf(hits, kr) + 1 /\ CountOf(hits, kr) + 1 > N
          BY <2>1, <2>3, <2>11, <3>1
        <4>4. Least(CountOf(hits', kr), N) = N
          BY <2>8, <4>3 DEF Least
        <4> QED  BY <3>a, <4>1, <4>2, <4>4
      <3>2. CASE q \in Counted
        <4>1. over[q] /\ wq = win[q] /\ kq = key[q] /\ kq \in Keys
          BY <3>0, <3>2, <2>1, <2>2, <2>11 DEF TypeOK, Counted
        <4>2. Cardinality(AdmittedIn(kq, wq)) = N
          BY <3>2, <4>1 DEF Books
        <4>3. CASE kq = kr /\ wq = W
          <5>1. Least(CountOf(hits, kr), N) = N
            BY <4>2, <4>3, <2>2, <2>b
          <5>2. CountOf(hits, kr) + 1 > N
            BY <5>1, <2>8 DEF Least
          <5>3. AdmittedIn(kr, W)' = AdmittedIn(kr, W)
            BY <5>2, <2>1
          <5> QED  BY <3>a, <4>2, <4>3, <5>3
        <4>4. CASE ~(kq = kr /\ wq = W)
          BY <3>a, <4>2, <4>4, <2>1
        <4> QED  BY <4>3, <4>4
      <3> QED  BY <3>1, <3>2, <2>1
    <2>12. \A k \in Keys : /\ CountedIn(k, window)' = CountedIn(k, W)'
                           /\ AdmittedIn(k, window)' = AdmittedIn(k, W)'
      BY <2>2 DEF AdmittedIn, CountedIn
    <2> QED  BY <2>2, <2>7, <2>9, <2>10, <2>11, <2>12 DEF Books
  <1> QED  BY <1>1, <1>2, <1>3, <1>4 DEF Next, Step

-----------------------------------------------------------------------------
LEMMA InitInv == Init => IInv
  <1> SUFFICES ASSUME Init PROVE IInv
    OBVIOUS
  <1> USE LimiterConstants DEF Init
  <1>1. Counted = {}
    BY DEF Counted
  <1>2. TypeOK
    BY DEF TypeOK, EmptyMap
  <1>3. Mutex /\ NotAhead /\ Swept
    BY DEF Mutex, InCritical, NotAhead, Swept
  <1>4. Placed /\ Ordered
    BY <1>1 DEF Placed, Ordered
  <1>5. \A k, w : CountedIn(k, w) = {} /\ AdmittedIn(k, w) = {}
    BY <1>1 DEF CountedIn, AdmittedIn
  <1>6. \A k : CountOf(hits, k) = 0
    BY DEF CountOf, EmptyMap
  <1>7. Books
    BY <1>1, <1>5, <1>6, FS_EmptySet DEF Books, Least
  <1> QED  BY <1>2, <1>3, <1>4, <1>7 DEF IInv

LEMMA NextInv == IInv /\ [Next]_vars => IInv'
  BY TypeStep, MutexStep, TimesStep, BooksStep DEF IInv, Times

(* The strengthening holds in every reachable state.                       *)
THEOREM Inductive == Spec => []IInv
  BY InitInv, NextInv, PTL DEF Spec

(* Every variable keeps its type.                                          *)
THEOREM TypeCorrect == Spec => []TypeOK
  <1>1. IInv => TypeOK
    BY DEF IInv
  <1> QED  BY <1>1, Inductive, PTL

(* However many requests share a key and however they interleave, no       *)
(* window admits more than N of them.                                      *)
THEOREM BudgetKept == Spec => []WindowBudget
  <1>1. IInv => WindowBudget
    <2> SUFFICES ASSUME IInv, NEW r \in Counted
                 PROVE  Cardinality(AdmittedIn(key[r], win[r])) <= N
      BY DEF WindowBudget
    <2>1. key[r] \in Keys /\ win[r] \in 0 .. window
      BY DEF IInv, TypeOK, Placed, Counted
    <2> QED  BY <2>1 DEF IInv, Books
  <1> QED  BY <1>1, Inductive, PTL

(* A 429 is never needless: the N of its window were all admitted.         *)
THEOREM RefusalsJustified == Spec => []RefusedOnlyWhenSpent
  <1>1. IInv => RefusedOnlyWhenSpent
    BY DEF IInv, Books, RefusedOnlyWhenSpent
  <1> QED  BY <1>1, Inductive, PTL

(* Both at once: the budget of a key in a window is exactly N.             *)
THEOREM BudgetIsExact == Spec => []BudgetExact
  <1>1. WindowBudget /\ RefusedOnlyWhenSpent => BudgetExact
    BY DEF BudgetExact
  <1> QED  BY <1>1, BudgetKept, RefusalsJustified, PTL

(* A window's width, placed anywhere in time, holds at most 2N admissions  *)
(* of a key: such an interval meets two windows and no third.              *)
THEOREM TwiceAtMost == Spec => []TwiceInAnyWidth
  <1>1. ASSUME IInv PROVE TwiceInAnyWidth
    <2> SUFFICES ASSUME NEW r \in Counted
                 PROVE  Cardinality({q \in Counted : /\ key[q] = key[r]
                                                     /\ ~over[q]
                                                     /\ now[q] \in now[r] .. now[r] + Per}) <= 2 * N
      BY DEF TwiceInAnyWidth
    <2> DEFINE Near  == {q \in Counted : /\ key[q] = key[r]
                                         /\ ~over[q]
                                         /\ now[q] \in now[r] .. now[r] + Per}
               First == AdmittedIn(key[r], win[r])
               Later == AdmittedIn(key[r], win[r] + 1)
    <2>1. /\ key[r] \in Keys /\ win[r] \in 0 .. window /\ win[r] \in Nat
          /\ window \in Nat /\ N \in Nat /\ Per \in Nat
      BY <1>1, LimiterConstants DEF IInv, TypeOK, Placed, Counted
    <2>2. Near \subseteq First \cup Later
      <3> SUFFICES ASSUME NEW q \in Near PROVE win[q] = win[r] \/ win[q] = win[r] + 1
        BY DEF AdmittedIn, CountedIn
      <3>1. /\ now[q] \in Nat /\ now[r] \in Nat /\ win[q] \in Nat
            /\ now[q] >= now[r] /\ now[q] <= now[r] + Per
        BY <1>1, <2>1 DEF IInv, TypeOK, Counted
      <3>2. ~(win[q] < win[r]) /\ ~(win[r] + 1 < win[q])
        BY <1>1, <3>1, <2>1 DEF IInv, Ordered
      <3> QED  BY <3>1, <3>2, <2>1
    <2>3. IsFiniteSet(First) /\ IsFiniteSet(Later)
      BY <1>1, FinitePieces DEF IInv, Books
    <2>4. Cardinality(First) <= N
      BY <1>1, <2>1 DEF IInv, Books
    <2>5. Cardinality(Later) <= N
      <3>1. CASE win[r] + 1 <= window
        BY <1>1, <2>1, <3>1 DEF IInv, Books
      <3>2. CASE win[r] + 1 > window
        <4>1. Later = {}
          BY <1>1, <2>1, <3>2, Unopened DEF IInv
        <4> QED  BY <4>1, <2>1, FS_EmptySet
      <3> QED  BY <3>1, <3>2, <2>1
    <2>6. /\ IsFiniteSet(First \cup Later)
          /\ Cardinality(First \cup Later) <= Cardinality(First) + Cardinality(Later)
      <3>1. /\ IsFiniteSet(First \cap Later)
            /\ Cardinality(First \cup Later) =
                 Cardinality(First) + Cardinality(Later) - Cardinality(First \cap Later)
        BY <2>3, FS_Union, FS_Intersection
      <3>2. /\ Cardinality(First \cap Later) \in Nat
            /\ Cardinality(First) \in Nat /\ Cardinality(Later) \in Nat
        BY <2>3, <3>1, FS_CardinalityType
      <3> QED  BY <2>3, <3>1, <3>2, FS_Union
    <2>7. Cardinality(Near) <= Cardinality(First \cup Later)
      BY <2>2, <2>6, FS_Subset
    <2>8. /\ Cardinality(First) \in Nat /\ Cardinality(Later) \in Nat
          /\ Cardinality(First \cup Later) \in Nat /\ Cardinality(Near) \in Nat
      BY <2>2, <2>3, <2>6, FS_Subset, FS_CardinalityType
    <2> HIDE DEF Near, First, Later
    <2>9. Cardinality(Near) <= 2 * N
      BY <2>1, <2>4, <2>5, <2>6, <2>7, <2>8
    <2> QED  BY <2>9 DEF Near
  <1> QED  BY <1>1, Inductive, PTL

(* The map never holds a key the current window has not counted.           *)
THEOREM MapSwept == Spec => []OnlyCurrentKeys
  <1>1. ASSUME IInv, NEW k \in DOMAIN hits PROVE CountedIn(k, window) # {}
    <2>1. k \in Keys /\ CountOf(hits, k) # 0
      BY <1>1 DEF IInv, TypeOK, CountOf
    <2>2. Cardinality(CountedIn(k, window)) # 0
      BY <1>1, <2>1 DEF IInv, Books
    <2> QED  BY <2>2, FS_EmptySet
  <1>2. IInv => OnlyCurrentKeys
    BY <1>1 DEF OnlyCurrentKeys
  <1> QED  BY <1>2, Inductive, PTL

(* Rounding down to whole seconds and adding one exceeds the duration.     *)
LEMMA RoundedUp ==
    ASSUME NEW d \in Nat
    PROVE  RetryAfter(d) \in Nat \ {0} /\ RetryAfter(d) * Second > d
  <1> DEFINE s == d \div Second
  <1>1. Second \in Nat /\ Second > 0
    BY LimiterConstants
  <1>2. s \in Nat /\ s * Second <= d /\ d < (s + 1) * Second
    BY <1>1
  <1> QED  BY <1>1, <1>2 DEF RetryAfter

(* Waiting as long as Retry-After says always suffices.                    *)
THEOREM RetrySuffices == Spec => []RetryLandsLater
  <1>1. ASSUME IInv, NEW r \in Counted
        PROVE  /\ RetryAfter(retry[r]) > 0
               /\ \A q \in Counted :
                    now[q] >= now[r] + RetryAfter(retry[r]) * Second => win[q] > win[r]
    <2>1. /\ now[r] \in Nat /\ retry[r] \in Int /\ win[r] \in Nat
          /\ now[r] <= now[r] + retry[r]
      BY <1>1 DEF IInv, TypeOK, Ordered, Counted
    <2>2. retry[r] \in Nat
      BY <2>1
    <2>3. /\ RetryAfter(retry[r]) \in Nat \ {0}
          /\ RetryAfter(retry[r]) * Second > retry[r]
      BY <2>2, RoundedUp
    <2>4. ASSUME NEW q \in Counted, now[q] >= now[r] + RetryAfter(retry[r]) * Second
          PROVE  win[q] > win[r]
      <3>1. now[q] \in Nat /\ win[q] \in Nat
        BY <1>1 DEF IInv, TypeOK, Counted
      <3>2. RetryAfter(retry[r]) * Second \in Nat
        BY <2>3, LimiterConstants
      <3>3. now[q] > now[r] + retry[r]
        BY <2>1, <2>3, <2>4, <3>1, <3>2
      <3>4. ~(win[q] <= win[r])
        BY <1>1, <2>1, <3>1, <3>3 DEF IInv, Ordered
      <3> QED  BY <2>1, <3>1, <3>4
    <2> QED  BY <2>3, <2>4
  <1>2. IInv => RetryLandsLater
    BY <1>1 DEF RetryLandsLater
  <1> QED  BY <1>2, Inductive, PTL

-----------------------------------------------------------------------------
(* The limiter implements the quota book: the sweep opens a period, the    *)
(* counting step admits or refuses, every other step is a stutter.         *)
bookSpent   == [k \in Keys |-> Least(CountOf(hits, k), N)]
bookVerdict == [r \in Requests |-> Verdict(r)]

LEMMA QuietBook ==
    ASSUME Quiet
    PROVE  UNCHANGED <<windowEnd, bookSpent, bookVerdict>>
  BY DEF Quiet, bookSpent, bookVerdict, Verdict

LEMMA SweepBook ==
    ASSUME IInv, NEW r \in Requests, Sweep(r)
    PROVE  Book!OpenPeriod \/ UNCHANGED <<windowEnd, bookSpent, bookVerdict>>
  <1>1. Counted' = Counted /\ UNCHANGED <<key, win, over, retry>>
    BY DEF Sweep, Expired, EndAfter, SweptMap, Counted, Goto, locals, IInv, TypeOK
  <1>2. bookVerdict' = bookVerdict
    BY <1>1 DEF bookVerdict, Verdict
  <1>3. CASE now[r] > windowEnd
    <2>1. windowEnd' > windowEnd + Per
      BY <1>3, LimiterConstants DEF Sweep, Expired, EndAfter, SweptMap, IInv, TypeOK
    <2>2. \A k : CountOf(hits', k) = 0
      BY <1>3 DEF Sweep, Expired, EndAfter, SweptMap, CountOf, EmptyMap
    <2>3. bookSpent' = [k \in Keys |-> 0]
      BY <2>2, LimiterConstants DEF bookSpent, Least
    <2> QED  BY <1>2, <2>1, <2>3 DEF Book!OpenPeriod, bookSpent, bookVerdict
  <1>4. CASE ~(now[r] > windowEnd)
    <2>1. UNCHANGED <<hits, windowEnd>>
      BY <1>4 DEF Sweep, Expired, EndAfter, SweptMap
    <2> QED  BY <1>2, <2>1 DEF bookSpent
  <1> QED  BY <1>3, <1>4

LEMMA HitBook ==
    ASSUME IInv, NEW r \in Requests, Hit(r)
    PROVE  Book!Admit(r, key[r]) \/ Book!Refuse(r, key[r])
  <1>0. TypeOK /\ N \in Nat
    BY LimiterConstants DEF IInv
  <1>1. /\ r \notin Counted
        /\ Counted' = Counted \cup {r}
        /\ over'[r] <=> (CountOf(hits, key[r]) + 1 > N)
        /\ \A q \in Counted : over'[q] = over[q]
    BY <1>0, HitCounts
  <1>2. key[r] \in Keys /\ CountOf(hits, key[r]) \in Nat
    BY <1>0 DEF TypeOK, CountOf
  <1>3. \A k : CountOf(hits', k) = IF k = key[r] THEN CountOf(hits, key[r]) + 1
                                   ELSE CountOf(hits, k)
    BY BumpCounts DEF Hit, OverLimit, Unlock
  <1>4. /\ bookVerdict[r] = "none" /\ windowEnd' = windowEnd
        /\ bookSpent[key[r]] = Least(CountOf(hits, key[r]), N)
    BY <1>1, <1>2 DEF Hit, OverLimit, Unlock, bookVerdict, Verdict, bookSpent
  <1>5. bookVerdict' = [bookVerdict EXCEPT ![r] = IF over'[r] THEN "refused" ELSE "admitted"]
    BY <1>1 DEF bookVerdict, Verdict
  <1>6. CASE over'[r]
    <2>1. CountOf(hits, key[r]) + 1 > N
      BY <1>1, <1>6
    <2>2. bookSpent[key[r]] = N
      BY <1>0, <1>2, <1>4, <2>1 DEF Least
    <2>3. bookSpent' = bookSpent
      <3> SUFFICES ASSUME NEW k \in Keys
                   PROVE  Least(CountOf(hits', k), N) = Least(CountOf(hits, k), N)
        BY DEF bookSpent
      <3>1. CASE k = key[r]
        BY <1>0, <1>2, <1>3, <2>1, <3>1 DEF Least
      <3>2. CASE k # key[r]
        BY <1>3, <3>2
      <3> QED  BY <3>1, <3>2
    <2> QED  BY <1>4, <1>5, <1>6, <2>2, <2>3 DEF Book!Refuse, bookSpent, bookVerdict
  <1>7. CASE ~over'[r]
    <2>1. CountOf(hits, key[r]) + 1 <= N
      BY <1>0, <1>1, <1>2, <1>7
    <2>2. bookSpent[key[r]] < N
      BY <1>0, <1>2, <1>4, <2>1 DEF Least
    <2>3. bookSpent' = [bookSpent EXCEPT ![key[r]] = @ + 1]
      <3> SUFFICES ASSUME NEW k \in Keys
                   PROVE  Least(CountOf(hits', k), N) =
                            IF k = key[r] THEN Least(CountOf(hits, k), N) + 1
                            ELSE Least(CountOf(hits, k), N)
        BY <1>2 DEF bookSpent
      <3>1. CASE k = key[r]
        BY <1>0, <1>2, <1>3, <2>1, <3>1 DEF Least
      <3>2. CASE k # key[r]
        BY <1>3, <3>2
      <3> QED  BY <3>1, <3>2
    <2> QED  BY <1>4, <1>5, <1>7, <2>2, <2>3 DEF Book!Admit, bookSpent, bookVerdict
  <1> QED  BY <1>6, <1>7

THEOREM Refinement == Spec => KeepsBook
  <1>1. Init => Book!Init
    <2> SUFFICES ASSUME Init PROVE Book!Init
      OBVIOUS
    <2>1. \A k : CountOf(hits, k) = 0
      BY DEF Init, CountOf, EmptyMap
    <2> QED  BY <2>1, LimiterConstants DEF Init, Book!Init, Least, Verdict, Counted
  <1>2. IInv /\ [Next]_vars => [Book!Next]_(Book!vars)
    <2> SUFFICES ASSUME IInv, [Next]_vars
                 PROVE  Book!Next \/ UNCHANGED <<windowEnd, bookSpent, bookVerdict>>
      BY DEF Book!vars, bookSpent, bookVerdict
    <2>0. TypeOK
      BY DEF IInv
    <2>1. CASE UNCHANGED vars \/ Tick
      <3>1. Quiet
        BY <2>1 DEF Quiet, Counted, vars, Tick, shared, locals
      <3> QED  BY <3>1, QuietBook
    <2>2. ASSUME NEW r \in Requests, Arrive(r) \/ Lock(r) \/ ReadClock(r) \/ Answer(r)
          PROVE  UNCHANGED <<windowEnd, bookSpent, bookVerdict>>
      BY <2>0, <2>2, QuietSteps, QuietBook
    <2>3. ASSUME NEW r \in Requests, Sweep(r)
          PROVE  Book!Next \/ UNCHANGED <<windowEnd, bookSpent, bookVerdict>>
      BY <2>3, SweepBook DEF Book!Next
    <2>4. ASSUME NEW r \in Requests, Hit(r) PROVE Book!Next
      <3>1. key[r] \in Keys
        BY <2>0 DEF TypeOK
      <3> QED  BY <2>4, <3>1, HitBook DEF Book!Next
    <2> QED  BY <2>1, <2>2, <2>3, <2>4 DEF Next, Step
  <1> QED  BY <1>1, <1>2, Inductive, PTL DEF Spec, KeepsBook, Book!Spec

-----------------------------------------------------------------------------
(* QueryLimits.  The selections of a document, of any width and nesting.   *)
Selected  == [kind : {"field", "inline", "spread", "__schema"}, to : Sets \cup {Leaf, Undefined}]
Formed(w, sel) == /\ sel \in Selected
                  /\ sel.kind = "spread" => sel.to \in Fragments \cup {Undefined}
                  /\ sel.kind = "inline" => sel.to \in Nested
                  /\ sel.kind = "field" => sel.to \in Nested \cup {Leaf}
                  /\ sel.kind = "__schema" => sel.to = Leaf /\ w = "introspects"
WellFormed(w, d) == /\ d \in [Sets -> SUBSET Selected]
                    /\ \A n \in Sets : \A sel \in d[n] : Formed(w, sel)
Frame == [set : Sets, left : SUBSET Selected, depth : Nat, for : Selected \cup {Root}]

WalkTypes == /\ walk \in {"depth", "introspects"} /\ WellFormed(walk, doc)
             /\ stack \in Seq(Frame)
             /\ visiting \subseteq Fragments \cup {Undefined}
             /\ result \in Int
             /\ walked \in [Fragments -> Nat]
             /\ result = Walking <=> stack # <<>>

(* The calls in progress: each was made for a selection its caller has     *)
(* done, and is for a set that can be reached from that of any before it.  *)
Nests(d, s) ==
    /\ \A i \in 1..Len(s) : s[i].left \subseteq d[s[i].set]
    /\ \A i \in 1..Len(s) : IF i = 1 THEN s[i].set = Op /\ s[i].for = Root
                            ELSE /\ s[i].for \in d[s[i - 1].set] \ s[i - 1].left
                                 /\ s[i].for.to = s[i].set
Reaches(d, s) == \A j \in 1..Len(s) : \A i \in 1..j : s[j].set \in Reachable(d, s[i].set)

(* selectionDepth's map holds the spreads on the stack, each of them once. *)
Spreads(s)    == {i \in 1..Len(s) : s[i].for.kind = "spread"}
OnceEach(s)   == \A i, j \in Spreads(s) : s[i].for.to = s[j].for.to => i = j
MapIs(s, v)   == v = {s[i].for.to : i \in Spreads(s)}

(* A call has the depth of the selections it has done, but for the one     *)
(* whose call is still in progress.                                        *)
Deepest(h, S, k) == /\ k \in Nat /\ \A sel \in S : Adds(h, sel) <= k
                    /\ k = 0 \/ \E sel \in S : Adds(h, sel) = k
Done(d, s, i) == {sel \in d[s[i].set] \ s[i].left : i < Len(s) => sel # s[i + 1].for}
Measured(d, s) == \A i \in 1..Len(s) : Deepest(Heights(d), Done(d, s, i), s[i].depth)

(* introspects has found nothing in a set D of selection sets it is done   *)
(* with, nor in what the calls in progress have done; all of it leads to   *)
(* one or the other.                                                       *)
Passed(sel, E) == sel.kind # "__schema" /\ (sel.to \in Sets => sel.to \in E)
OnStack(s)     == {s[i].set : i \in 1..Len(s)}
Nothing(d, s, v, D) ==
    /\ v \cap Fragments \subseteq D \cup OnStack(s)
    /\ \A n \in D : \A sel \in d[n] : Passed(sel, D \cup OnStack(s))
    /\ \A i \in 1..Len(s) : \A sel \in d[s[i].set] \ s[i].left : Passed(sel, D \cup OnStack(s))
Introspects(d) == \E n \in Reachable(d, Op) : \E sel \in d[n] : sel.kind = "__schema"

DepthInv == walk = "depth" =>
    /\ OnceEach(stack) /\ MapIs(stack, visiting)
    /\ Acyclic(doc) => /\ Measured(doc, stack)
                       /\ result # Walking => result = Height(doc)
MemoInv == walk = "introspects" =>
    /\ \A f \in Fragments : walked[f] = IF f \in visiting THEN 1 ELSE 0
    /\ result = Walking => \E D \in SUBSET Sets : Nothing(doc, stack, visiting, D)
    /\ result # Walking => (result = 1 <=> Introspects(doc))

WalkInv == /\ WalkTypes /\ Nests(doc, stack) /\ Reaches(doc, stack)
           /\ DepthInv /\ MemoInv

-----------------------------------------------------------------------------
(* The documents are well formed, and stay what they are.                  *)
LEMMA DocumentsFormed ==
    ASSUME NEW w \in {"depth", "introspects"}, NEW d \in Documents(w)
    PROVE  WellFormed(w, d)
  <1> USE QueryLimitsConstants
  <1>1. \A n \in Sets : d[n] \subseteq Selections(w, n)
    BY DEF Documents
  <1>2. \A n \in Sets : \A sel \in Selections(w, n) : Formed(w, sel)
    BY DEF Selections, Plain, Meta, Below, Spread, Formed, Selected, Sets
  <1>3. d \in [Sets -> SUBSET Selected]
    <2>1. d \in [Sets -> UNION {Wide(w, n) : n \in Sets}]
      BY DEF Documents
    <2>2. \A n \in Sets : d[n] \in SUBSET Selected
      BY <1>1, <1>2 DEF Formed
    <2> HIDE DEF Sets
    <2> QED
      BY <2>1, <2>2
  <1> QED
    BY <1>1, <1>2, <1>3 DEF WellFormed

(* Reachable sets: oneself, one step further, and nothing a closed set     *)
(* leaves out.                                                             *)
LEMMA ReachesItself == ASSUME NEW d, NEW n \in Sets PROVE n \in Reachable(d, n)
  BY DEF Reachable

LEMMA OneStep ==
    ASSUME NEW d, NEW n, NEW m \in Reachable(d, n), NEW sel \in d[m], sel.to \in Sets
    PROVE  sel.to \in Reachable(d, n)
  BY DEF Reachable, Closed, Steps

LEMMA InClosed ==
    ASSUME NEW d, NEW n, NEW C \in SUBSET Sets, n \in C, Closed(d, C)
    PROVE  Reachable(d, n) \subseteq C
  BY DEF Reachable

LEMMA ReachableClosed == ASSUME NEW d, NEW n PROVE Closed(d, Reachable(d, n))
  BY OneStep DEF Closed, Steps

LEMMA ReachesOn ==
    ASSUME NEW d, NEW n, NEW m \in Reachable(d, n)
    PROVE  Reachable(d, m) \subseteq Reachable(d, n)
  BY ReachableClosed, InClosed DEF Reachable

-----------------------------------------------------------------------------
(* Among numbers up to n there is a greatest, and in any set a least.      *)
LEMMA LeastOf ==
    ASSUME NEW S \in SUBSET Nat, S # {}
    PROVE  \E m \in S : \A j \in S : m <= j
  <1> DEFINE R == OpToRel(<, Nat)
  <1>1. IsWellFoundedOn(R, Nat)
    BY NatLessThanWellFounded
  <1>2. PICK i \in S : \A j \in S : ~(<<j, i>> \in R)
    BY <1>1, WFMin
  <1>3. \A j \in S : ~(j < i)
    BY <1>2 DEF OpToRel
  <1> QED  BY <1>3

LEMMA GreatestOf ==
    ASSUME NEW n \in Nat, NEW S \in SUBSET (0..n), S # {}
    PROVE  \E m \in S : \A j \in S : j <= m
  <1> DEFINE T == {n - j : j \in S}
  <1>1. T \in SUBSET Nat /\ T # {}
    <2>1. \A j \in S : n - j \in Nat
      OBVIOUS
    <2>2. PICK j \in S : TRUE
      OBVIOUS
    <2> QED  BY <2>1, <2>2
  <1>2. PICK i \in T : \A j \in T : i <= j
    <2> HIDE DEF T
    <2> QED  BY <1>1, LeastOf
  <1>3. PICK m \in S : i = n - m
    BY <1>2
  <1>4. \A j \in S : j <= m
    BY <1>2, <1>3
  <1> QED  BY <1>4

(* Max is the depth that is Deepest.                                       *)
LEMMA DeepestIsMax ==
    ASSUME NEW h, NEW S, NEW k, Deepest(h, S, k), \A sel \in S : Adds(h, sel) \in Nat
    PROVE  Max({0} \cup {Adds(h, sel) : sel \in S}) = k
  <1> DEFINE A == {0} \cup {Adds(h, sel) : sel \in S}
  <1>1. k \in A /\ A \subseteq Nat /\ \A y \in A : k >= y
    BY DEF Deepest
  <1> HIDE DEF A
  <1>2. \A x \in A : (\A y \in A : x >= y) => x = k
    BY <1>1
  <1>3. (CHOOSE x \in A : \A y \in A : x >= y) = k
    BY <1>1, <1>2
  <1> QED
    BY <1>3 DEF Max, A

(* How many sets can be reached falls on every way down, if there is no    *)
(* way back up.                                                            *)
Rank(d, n) == Cardinality(Reachable(d, n))

LEMMA RankType ==
    ASSUME NEW d, NEW n \in Sets
    PROVE  IsFiniteSet(Reachable(d, n)) /\ Rank(d, n) \in 1 .. Cardinality(Sets)
  <1>1. IsFiniteSet(Sets)
    BY QueryLimitsConstants, FS_AddElement, FS_Union, FS_EmptySet, FS_Singleton DEF Sets
  <1>2. Reachable(d, n) \in SUBSET Sets /\ n \in Reachable(d, n)
    BY ReachesItself DEF Reachable
  <1>3. IsFiniteSet(Reachable(d, n)) /\ Cardinality(Reachable(d, n)) <= Cardinality(Sets)
    BY <1>1, <1>2, FS_Subset
  <1>4. Cardinality(Sets) \in Nat /\ Cardinality(Reachable(d, n)) \in Nat /\ Cardinality(Reachable(d, n)) # 0
    BY <1>1, <1>2, <1>3, FS_CardinalityType, FS_EmptySet
  <1> QED
    BY <1>3, <1>4 DEF Rank

LEMMA RankFalls ==
    ASSUME NEW d, Acyclic(d), NEW n \in Reachable(d, Op), NEW sel \in d[n], sel.to \in Sets
    PROVE  sel.to \in Reachable(d, Op) /\ Rank(d, sel.to) < Rank(d, n)
  <1>1. n \in Sets
    BY DEF Reachable
  <1>2. sel.to \in Reachable(d, n) /\ sel.to \in Reachable(d, Op)
    BY <1>1, ReachesItself, OneStep
  <1>3. Reachable(d, sel.to) \in SUBSET Reachable(d, n)
    BY <1>2, ReachesOn
  <1>4. n \in Reachable(d, n) /\ n \notin Reachable(d, sel.to)
    BY <1>1, ReachesItself DEF Acyclic, Steps
  <1>5. /\ Cardinality(Reachable(d, sel.to)) <= Cardinality(Reachable(d, n))
        /\ Cardinality(Reachable(d, sel.to)) # Cardinality(Reachable(d, n))
    BY <1>1, <1>3, <1>4, RankType, FS_Subset
  <1>6. Rank(d, n) \in Nat /\ Rank(d, sel.to) \in Nat
    BY <1>1, RankType
  <1> QED
    BY <1>2, <1>5, <1>6 DEF Rank

(* A depth for one more set, when everything below it has one.             *)
Adding(d, h, n) == {0} \cup {Adds(h, sel) : sel \in d[n]}

LEMMA OneMoreDepth ==
    ASSUME NEW w, NEW d, WellFormed(w, d), Acyclic(d), NEW n \in Reachable(d, Op),
           NEW h, \A sel \in d[n] : sel.to \in Sets => h[sel.to] \in 0 .. Rank(d, sel.to)
    PROVE  \E k \in 0 .. Rank(d, n) : Deepest(h, d[n], k)
  <1>1. n \in Sets /\ Rank(d, n) \in Nat \ {0}
    <2>1. n \in Sets
      BY DEF Reachable
    <2>2. Rank(d, n) \in 1 .. Cardinality(Sets)
      BY <2>1, RankType
    <2> QED
      BY <2>1, <2>2
  <1>2. ASSUME NEW sel \in d[n] PROVE Adds(h, sel) \in 0 .. Rank(d, n)
    <2>1. CASE sel.to \in Sets
      <3>1. Rank(d, sel.to) \in Nat /\ Rank(d, sel.to) < Rank(d, n) /\ h[sel.to] \in 0 .. Rank(d, sel.to)
        BY <2>1, RankFalls, RankType
      <3> QED
        BY <1>1, <2>1, <3>1 DEF Adds
    <2>2. CASE sel.to \notin Sets
      BY <1>1, <2>2 DEF Adds
    <2> QED
      BY <2>1, <2>2
  <1>3. Adding(d, h, n) \in SUBSET (0 .. Rank(d, n)) /\ 0 \in Adding(d, h, n)
    BY <1>1, <1>2 DEF Adding
  <1>4. PICK k \in Adding(d, h, n) : \A j \in Adding(d, h, n) : j <= k
    BY <1>1, <1>3, GreatestOf
  <1>5. k \in 0 .. Rank(d, n)
    BY <1>3, <1>4
  <1>6. Deepest(h, d[n], k)
    <2>1. \A sel \in d[n] : Adds(h, sel) \in Adding(d, h, n)
      BY DEF Adding
    <2>2. k = 0 \/ \E sel \in d[n] : Adds(h, sel) = k
      BY <1>4 DEF Adding
    <2>3. k \in Nat
      BY <1>1, <1>5
    <2> QED
      BY <1>4, <2>1, <2>2, <2>3 DEF Deepest
  <1> QED
    BY <1>5, <1>6

(* So a document without cycles can be measured: of the closed sets that   *)
(* can be, the largest is all of it.                                       *)
Measurable(d, C, h) == /\ C \subseteq Reachable(d, Op) /\ Closed(d, C) /\ h \in [C -> Nat]
                       /\ \A n \in C : h[n] <= Rank(d, n) /\ Deepest(h, d[n], h[n])

LEMMA OneMoreMeasured ==
    ASSUME NEW w, NEW d, WellFormed(w, d), Acyclic(d), NEW C, NEW h, Measurable(d, C, h),
           C # Reachable(d, Op)
    PROVE  \E m \in Reachable(d, Op) \ C : \E g : Measurable(d, C \cup {m}, g)
  <1> DEFINE R == Reachable(d, Op)
             Ranks == {Rank(d, n) : n \in R \ C}
  <1>1. R \subseteq Sets /\ R \ C # {}
    BY DEF Measurable, Reachable
  <1>2. Ranks \in SUBSET Nat /\ Ranks # {}
    BY <1>1, RankType
  <1>3. PICK r \in Ranks : \A q \in Ranks : r <= q
    <2> HIDE DEF Ranks
    <2> QED  BY <1>2, LeastOf
  <1>4. PICK m \in R \ C : r = Rank(d, m)
    BY <1>3
  <1>5. \A n \in R \ C : Rank(d, m) <= Rank(d, n)
    BY <1>3, <1>4
  <1>6. \A sel \in d[m] : sel.to \in Sets => sel.to \in C
    <2> SUFFICES ASSUME NEW sel \in d[m], sel.to \in Sets, sel.to \notin C PROVE FALSE
      OBVIOUS
    <2>1. sel.to \in R /\ Rank(d, sel.to) < Rank(d, m)
      BY <1>4, RankFalls
    <2>2. Rank(d, sel.to) \in Nat /\ Rank(d, m) \in Nat
      BY <1>1, <1>4, RankType
    <2> QED
      BY <1>5, <2>1, <2>2
  <1>7. \A n \in C : n \in Sets /\ Rank(d, n) \in Nat /\ h[n] \in 0 .. Rank(d, n)
    BY <1>1, RankType DEF Measurable
  <1>8. PICK k \in 0 .. Rank(d, m) : Deepest(h, d[m], k)
    <2>1. \A sel \in d[m] : sel.to \in Sets => h[sel.to] \in 0 .. Rank(d, sel.to)
      BY <1>6, <1>7
    <2> QED
      BY <1>4, <2>1, OneMoreDepth
  <1> DEFINE g == [n \in C \cup {m} |-> IF n = m THEN k ELSE h[n]]
  <1>9. \A n \in C \cup {m} : \A sel \in d[n] : Adds(g, sel) = Adds(h, sel)
    <2> SUFFICES ASSUME NEW n \in C \cup {m}, NEW sel \in d[n] PROVE Adds(g, sel) = Adds(h, sel)
      OBVIOUS
    <2>1. sel.to \in Sets => sel.to \in C
      BY <1>6 DEF Measurable, Closed, Steps
    <2>2. sel.to \in C => g[sel.to] = h[sel.to]
      BY <1>4
    <2> HIDE DEF g
    <2> QED
      BY <2>1, <2>2 DEF Adds
  <1>10. \A n \in C \cup {m} : g[n] <= Rank(d, n) /\ Deepest(g, d[n], g[n])
    <2> SUFFICES ASSUME NEW n \in C \cup {m} PROVE g[n] <= Rank(d, n) /\ Deepest(g, d[n], g[n])
      OBVIOUS
    <2>1. Deepest(h, d[n], g[n]) /\ g[n] <= Rank(d, n)
      BY <1>1, <1>4, <1>8, RankType DEF Measurable
    <2> HIDE DEF g
    <2> QED
      BY <1>9, <2>1 DEF Deepest
  <1>11. g \in [C \cup {m} -> Nat]
    BY <1>1, <1>4, <1>8, RankType DEF Measurable
  <1>12. Closed(d, C \cup {m}) /\ C \cup {m} \subseteq R
    BY <1>4, <1>6 DEF Measurable, Closed, Steps
  <1> HIDE DEF g, R
  <1>13. Measurable(d, C \cup {m}, g)
    BY <1>10, <1>11, <1>12 DEF Measurable, R
  <1> QED
    BY <1>4, <1>13 DEF R

LEMMA EmptyMeasured == ASSUME NEW d PROVE Measurable(d, {}, [n \in {} |-> 0])
  BY DEF Measurable, Closed

LEMMA AllMeasured ==
    ASSUME NEW w, NEW d, WellFormed(w, d), Acyclic(d)
    PROVE  \E h : Measurable(d, Reachable(d, Op), h)
  <1> DEFINE R == Reachable(d, Op)
             Sizes == {Cardinality(C) : C \in {D \in SUBSET R : \E h : Measurable(d, D, h)}}
  <1>1. IsFiniteSet(R) /\ Cardinality(R) \in Nat
    BY RankType, FS_CardinalityType DEF Sets
  <1>2. Sizes # {}
    BY EmptyMeasured
  <1>3. \A C \in SUBSET R : IsFiniteSet(C) /\ Cardinality(C) \in 0 .. Cardinality(R)
    BY <1>1, FS_Subset, FS_CardinalityType
  <1>4. Sizes \in SUBSET (0 .. Cardinality(R))
    BY <1>3
  <1>5. PICK most \in Sizes : \A c \in Sizes : c <= most
    <2> HIDE DEF Sizes, R
    <2> QED  BY <1>1, <1>2, <1>4, GreatestOf
  <1>6. PICK C \in SUBSET R : most = Cardinality(C) /\ \E h : Measurable(d, C, h)
    BY <1>5
  <1>7. PICK h : Measurable(d, C, h)
    BY <1>6
  <1>8. CASE C = R
    BY <1>7, <1>8
  <1>9. CASE C # R
    <2>1. PICK m \in R \ C : \E g : Measurable(d, C \cup {m}, g)
      BY <1>7, <1>9, OneMoreMeasured
    <2>2. C \cup {m} \in SUBSET R
      BY <1>6, <2>1
    <2>3. Cardinality(C \cup {m}) \in Sizes
      BY <2>1, <2>2
    <2> HIDE DEF R, Sizes
    <2>4. Cardinality(C \cup {m}) = Cardinality(C) + 1
      BY <1>3, <1>6, <2>1, FS_AddElement
    <2> QED
      BY <1>3, <1>5, <1>6, <2>3, <2>4
  <1> QED
    BY <1>8, <1>9

(* What is measured is what Heights measures, and is what the walk counts. *)
LEMMA HeightsMeasured ==
    ASSUME NEW w, NEW d, WellFormed(w, d), Acyclic(d)
    PROVE  /\ Heights(d) \in [Reachable(d, Op) -> 0 .. Cardinality(Sets)]
           /\ Measures(d, Heights(d))
  <1> DEFINE R == Reachable(d, Op)
  <1>1. PICK h : Measurable(d, R, h)
    BY AllMeasured
  <1>2. R \subseteq Sets /\ h \in [R -> Nat] /\ Closed(d, R)
    BY <1>1 DEF Measurable, Reachable
  <1>3. \A n \in R : h[n] \in 0 .. Cardinality(Sets)
    <2> SUFFICES ASSUME NEW n \in R PROVE h[n] \in 0 .. Cardinality(Sets)
      OBVIOUS
    <2>1. Rank(d, n) \in 1 .. Cardinality(Sets) /\ Cardinality(Sets) \in Int
      <3>1. IsFiniteSet(Sets)
        BY QueryLimitsConstants, FS_AddElement, FS_Union, FS_EmptySet, FS_Singleton DEF Sets
      <3> QED
        BY <1>2, <3>1, RankType, FS_CardinalityType
    <2>2. h[n] \in Nat /\ h[n] <= Rank(d, n)
      BY <1>1, <1>2 DEF Measurable
    <2> QED
      BY <2>1, <2>2
  <1>4. \A n \in R : \A sel \in d[n] : Adds(h, sel) \in Nat
    BY <1>2 DEF Adds, Closed, Steps
  <1>5. \A n \in R : h[n] = Max({0} \cup {Adds(h, sel) : sel \in d[n]})
    <2> SUFFICES ASSUME NEW n \in R PROVE h[n] = Max({0} \cup {Adds(h, sel) : sel \in d[n]})
      OBVIOUS
    <2>1. Deepest(h, d[n], h[n])
      BY <1>1 DEF Measurable
    <2> QED
      BY <1>4, <2>1, DeepestIsMax
  <1>6. h \in [R -> 0 .. Cardinality(Sets)] /\ DOMAIN h = R
    BY <1>2, <1>3
  <1>7. Measures(d, h)
    BY <1>5, <1>6 DEF Measures
  <1> QED
    BY <1>6, <1>7 DEF Heights

LEMMA HeightsAre ==
    ASSUME NEW w, NEW d, WellFormed(w, d), Acyclic(d), NEW n \in Reachable(d, Op)
    PROVE  /\ Heights(d)[n] \in Nat
           /\ \A sel \in d[n] : Adds(Heights(d), sel) \in Nat
           /\ \A k : Deepest(Heights(d), d[n], k) => Heights(d)[n] = k
  <1> DEFINE H == Heights(d)
             R == Reachable(d, Op)
  <1>1. H \in [R -> 0 .. Cardinality(Sets)] /\ Measures(d, H)
    BY HeightsMeasured
  <1> HIDE DEF H
  <1>2. \A m \in R : H[m] \in Nat
    BY <1>1
  <1>3. \A sel \in d[n] : sel.to \in Sets => sel.to \in R
    BY OneStep
  <1>4. \A sel \in d[n] : Adds(H, sel) \in Nat
    BY <1>2, <1>3 DEF Adds
  <1>5. H[n] = Max({0} \cup {Adds(H, sel) : sel \in d[n]})
    BY <1>1 DEF Measures
  <1>6. ASSUME NEW k, Deepest(H, d[n], k) PROVE H[n] = k
    BY <1>4, <1>5, <1>6, DeepestIsMax
  <1> QED
    BY <1>2, <1>4, <1>6 DEF H

-----------------------------------------------------------------------------
(* The stack with another entry in place of its last.                      *)
LEMMA Replaced ==
    ASSUME NEW S, NEW s \in Seq(S), s # <<>>, NEW t \in S
    PROVE  /\ Append(Front(s), t) \in Seq(S) /\ Len(Append(Front(s), t)) = Len(s)
           /\ Append(Front(s), t)[Len(s)] = t
           /\ \A i \in 1 .. Len(s) - 1 : Append(Front(s), t)[i] = s[i]
           /\ Len(s) \in Nat \ {0} /\ Last(s) = s[Len(s)] /\ Last(s) \in S
           /\ Front(s) \in Seq(S) /\ Len(Front(s)) = Len(s) - 1
           /\ \A i \in 1 .. Len(s) - 1 : Front(s)[i] = s[i]
  <1> DEFINE l == Len(s)
             f == Front(s)
  <1>1. l \in Nat \ {0}
    BY LenProperties, EmptySeq
  <1>2. \A i \in 1 .. l : s[i] \in S
    BY ElementOfSeq
  <1>3. f = SubSeq(s, 1, l - 1)
    BY DEF Front
  <1>4. f \in Seq(S) /\ Len(f) = l - 1 /\ \A i \in 1 .. l - 1 : f[i] = s[i]
    <2>1. l - 1 \in Int /\ 1 \in Int /\ \A i \in 1 .. l - 1 : s[i] \in S
      BY <1>1, <1>2
    <2> HIDE DEF f, l
    <2>2. /\ SubSeq(s, 1, l - 1) \in Seq(S)
          /\ Len(SubSeq(s, 1, l - 1)) = IF 1 <= l - 1 THEN l - 1 - 1 + 1 ELSE 0
          /\ \A i \in 1 .. l - 1 - 1 + 1 : SubSeq(s, 1, l - 1)[i] = s[1 + i - 1]
      BY <2>1, SubSeqProperties
    <2> QED
      BY <1>1, <1>3, <2>2
  <1> DEFINE u == Append(f, t)
  <1> HIDE DEF f
  <1>5. u \in Seq(S) /\ Len(u) = Len(f) + 1 /\ u[Len(f) + 1] = t /\ \A i \in 1 .. Len(f) : u[i] = f[i]
    BY <1>4, AppendProperties
  <1> HIDE DEF u, l
  <1>6. /\ u \in Seq(S) /\ Len(u) = l /\ u[l] = t
        /\ \A i \in 1 .. l - 1 : u[i] = s[i]
    BY <1>1, <1>4, <1>5
  <1>7. Last(s) = s[l] /\ Last(s) \in S
    BY <1>1, <1>2 DEF Last, l
  <1> QED
    BY <1>1, <1>4, <1>6, <1>7 DEF u, f, l

(* The top call with a selection done, and the depth it may have found.    *)
LEMMA TakenIs ==
    ASSUME WalkTypes, stack # <<>>, NEW sel
    PROVE  /\ Top \in Frame /\ Taken(sel) \in Frame
           /\ Taken(sel).set = Top.set /\ Taken(sel).left = Top.left \ {sel}
           /\ Taken(sel).depth = Top.depth /\ Taken(sel).for = Top.for
  <1>1. Top \in Frame
    BY Replaced DEF WalkTypes, Top
  <1> QED
    BY <1>1 DEF Taken, Frame

LEMMA DeeperIs ==
    ASSUME NEW call \in Frame, NEW k \in Nat
    PROVE  /\ Deeper(call, k) \in Frame
           /\ Deeper(call, k).set = call.set /\ Deeper(call, k).left = call.left
           /\ Deeper(call, k).for = call.for
           /\ Deeper(call, k).depth = IF k > call.depth THEN k ELSE call.depth
  BY DEF Deeper, Frame

(* A selection of the top call: what it is, and where it leads.            *)
LEMMA Selecting ==
    ASSUME WalkInv, stack # <<>>, NEW sel \in Top.left
    PROVE  /\ Len(stack) \in Nat \ {0} /\ Top = stack[Len(stack)]
           /\ Top.set \in Reachable(doc, Op) /\ sel \in doc[Top.set]
           /\ Formed(walk, sel) /\ Level(sel) \in Nat
           /\ sel.to \in Sets => sel.to \in Reachable(doc, Top.set)
  <1>1. Len(stack) \in Nat \ {0} /\ Top = stack[Len(stack)] /\ Top \in Frame
    BY Replaced DEF WalkInv, WalkTypes, Top
  <1>2. Top.set \in Sets /\ sel \in doc[Top.set]
    BY <1>1 DEF WalkInv, Nests, Frame
  <1>3. Top.set \in Reachable(doc, stack[1].set) /\ stack[1].set = Op
    BY <1>1 DEF WalkInv, Nests, Reaches
  <1>4. sel.to \in Sets => sel.to \in Reachable(doc, Top.set)
    BY <1>2, ReachesItself, OneStep
  <1> QED
    BY <1>1, <1>2, <1>3, <1>4 DEF WalkInv, WalkTypes, WellFormed, Level

(* The calls stay nested in each other when the top one goes on, makes a   *)
(* call or returns.                                                        *)
Alike(t, f) == t.set = f.set /\ t.for = f.for /\ t.left \subseteq f.left

LEMMA GoesOnNested ==
    ASSUME NEW d, NEW s \in Seq(Frame), s # <<>>, Nests(d, s), Reaches(d, s),
           NEW t \in Frame, Alike(t, Last(s)), NEW u, u = Append(Front(s), t)
    PROVE  Nests(d, u) /\ Reaches(d, u)
  <1> DEFINE l == Len(s)
  <1>1. /\ l \in Nat \ {0} /\ Len(u) = l /\ u[l] = t /\ Last(s) = s[l]
        /\ \A i \in 1 .. l - 1 : u[i] = s[i]
    BY Replaced
  <1> HIDE DEF l
  <1>2. \A i \in 1 .. l : Alike(u[i], s[i])
    BY <1>1 DEF Alike
  <1>3. Nests(d, u)
    <2>1. \A i \in 1 .. l : u[i].left \subseteq d[u[i].set]
      BY <1>2 DEF Nests, Alike, l
    <2>2. ASSUME NEW i \in 1 .. l
          PROVE  IF i = 1 THEN u[i].set = Op /\ u[i].for = Root
                 ELSE u[i].for \in d[u[i - 1].set] \ u[i - 1].left /\ u[i].for.to = u[i].set
      <3>1. CASE i = 1
        BY <1>2, <3>1 DEF Nests, Alike, l
      <3>2. CASE i # 1
        <4>1. i - 1 \in 1 .. l
          BY <1>1, <3>2
        <4>2. Alike(u[i], s[i]) /\ Alike(u[i - 1], s[i - 1])
          BY <1>2, <4>1
        <4>3. s[i].for \in d[s[i - 1].set] \ s[i - 1].left /\ s[i].for.to = s[i].set
          BY <3>2 DEF Nests, l
        <4> QED
          BY <3>2, <4>2, <4>3 DEF Alike
      <3> QED
        BY <3>1, <3>2
    <2> QED
      BY <1>1, <2>1, <2>2 DEF Nests
  <1>4. Reaches(d, u)
    <2>1. \A j \in 1 .. l : \A i \in 1 .. j : i \in 1 .. l
      BY <1>1
    <2>2. \A i \in 1 .. l : u[i].set = s[i].set
      BY <1>2 DEF Alike
    <2>3. \A j \in 1 .. l : \A i \in 1 .. j : s[j].set \in Reachable(d, s[i].set)
      BY DEF Reaches, l
    <2> QED
      BY <1>1, <2>1, <2>2, <2>3 DEF Reaches
  <1> QED
    BY <1>3, <1>4

LEMMA CallsNested ==
    ASSUME NEW d, NEW s \in Seq(Frame), s # <<>>, Nests(d, s), Reaches(d, s),
           NEW sel \in d[Last(s).set] \ Last(s).left, sel.to \in Sets,
           NEW c \in Frame, c.set = sel.to, c.for = sel, c.left \subseteq d[c.set],
           NEW u, u = Append(s, c)
    PROVE  Nests(d, u) /\ Reaches(d, u)
  <1> DEFINE l == Len(s)
  <1>1. l \in Nat \ {0} /\ Last(s) = s[l]
    BY Replaced
  <1>2. Len(u) = l + 1 /\ u[l + 1] = c /\ \A i \in 1 .. l : u[i] = s[i]
    BY AppendProperties
  <1> HIDE DEF l
  <1>3. Nests(d, u)
    <2>1. ASSUME NEW i \in 1 .. l + 1
          PROVE  /\ u[i].left \subseteq d[u[i].set]
                 /\ IF i = 1 THEN u[i].set = Op /\ u[i].for = Root
                    ELSE u[i].for \in d[u[i - 1].set] \ u[i - 1].left /\ u[i].for.to = u[i].set
      <3>1. CASE i = l + 1
        <4>1. i - 1 = l /\ i # 1 /\ l \in 1 .. l
          BY <1>1, <3>1
        <4> QED
          BY <1>1, <1>2, <3>1, <4>1
      <3>2. CASE i # l + 1
        <4>1. i \in 1 .. l /\ (i # 1 => i - 1 \in 1 .. l)
          BY <1>1, <3>2
        <4>2. u[i] = s[i] /\ (i # 1 => u[i - 1] = s[i - 1])
          BY <1>2, <4>1
        <4> QED
          BY <4>1, <4>2 DEF Nests, l
      <3> QED
        BY <3>1, <3>2
    <2> QED
      BY <1>2, <2>1 DEF Nests
  <1>4. Reaches(d, u)
    <2> SUFFICES ASSUME NEW j \in 1 .. l + 1, NEW i \in 1 .. j PROVE u[j].set \in Reachable(d, u[i].set)
      BY <1>2 DEF Reaches
    <2>1. CASE j \in 1 .. l
      <3>1. i \in 1 .. l
        BY <1>1, <2>1
      <3> QED
        BY <1>2, <2>1, <3>1 DEF Reaches, l
    <2>2. CASE j = l + 1 /\ i = l + 1
      BY <1>2, <2>2, ReachesItself
    <2>3. CASE j = l + 1 /\ i # l + 1
      <3>1. i \in 1 .. l /\ l \in 1 .. l
        BY <1>1, <2>3
      <3>2. s[l].set \in Reachable(d, s[i].set)
        BY <3>1 DEF Reaches, l
      <3>3. sel.to \in Reachable(d, s[i].set)
        BY <1>1, <3>2, OneStep
      <3> QED
        BY <1>2, <2>3, <3>1, <3>3
    <2>4. j \in 1 .. l \/ j = l + 1
      BY <1>1
    <2> QED
      BY <2>1, <2>2, <2>3, <2>4
  <1> QED
    BY <1>3, <1>4

LEMMA ReturnsNested ==
    ASSUME NEW d, NEW s \in Seq(Frame), s # <<>>, Nests(d, s), Reaches(d, s)
    PROVE  Nests(d, Front(s)) /\ Reaches(d, Front(s))
  <1> DEFINE l == Len(s)
  <1>1. l \in Nat \ {0} /\ Len(Front(s)) = l - 1 /\ \A i \in 1 .. l - 1 : Front(s)[i] = s[i]
    BY Replaced
  <1> HIDE DEF l
  <1>2. Nests(d, Front(s))
    <2> SUFFICES ASSUME NEW i \in 1 .. l - 1
          PROVE  /\ Front(s)[i].left \subseteq d[Front(s)[i].set]
                 /\ IF i = 1 THEN Front(s)[i].set = Op /\ Front(s)[i].for = Root
                    ELSE /\ Front(s)[i].for \in d[Front(s)[i - 1].set] \ Front(s)[i - 1].left
                         /\ Front(s)[i].for.to = Front(s)[i].set
      BY <1>1 DEF Nests
    <2>1. i \in 1 .. l /\ (i # 1 => i - 1 \in 1 .. l - 1)
      BY <1>1
    <2>2. Front(s)[i] = s[i] /\ (i # 1 => Front(s)[i - 1] = s[i - 1])
      BY <1>1, <2>1
    <2> QED
      BY <2>1, <2>2 DEF Nests, l
  <1>3. Reaches(d, Front(s))
    <2> SUFFICES ASSUME NEW j \in 1 .. l - 1, NEW i \in 1 .. j
                 PROVE  Front(s)[j].set \in Reachable(d, Front(s)[i].set)
      BY <1>1 DEF Reaches
    <2>1. i \in 1 .. l - 1 /\ j \in 1 .. l
      BY <1>1
    <2> QED
      BY <1>1, <2>1 DEF Reaches, l
  <1> QED
    BY <1>2, <1>3

-----------------------------------------------------------------------------
(* The map of selectionDepth, when the top call goes on, makes a call and  *)
(* returns.                                                                *)
LEMMA GoesOnMapped ==
    ASSUME NEW s \in Seq(Frame), s # <<>>, NEW v, OnceEach(s), MapIs(s, v),
           NEW t \in Frame, Alike(t, Last(s)), NEW u, u = Append(Front(s), t)
    PROVE  OnceEach(u) /\ MapIs(u, v)
  <1> DEFINE l == Len(s)
  <1>1. /\ l \in Nat \ {0} /\ Len(u) = l /\ u[l] = t /\ Last(s) = s[l]
        /\ \A i \in 1 .. l - 1 : u[i] = s[i]
    BY Replaced
  <1> HIDE DEF l
  <1>2. \A i \in 1 .. l : u[i].for = s[i].for
    BY <1>1 DEF Alike
  <1>3. Spreads(u) = Spreads(s) /\ Spreads(s) \subseteq 1 .. l
    BY <1>1, <1>2 DEF Spreads, l
  <1>4. OnceEach(u)
    BY <1>2, <1>3 DEF OnceEach
  <1>5. MapIs(u, v)
    BY <1>2, <1>3 DEF MapIs
  <1> QED
    BY <1>4, <1>5

LEMMA CallsMapped ==
    ASSUME NEW s \in Seq(Frame), s # <<>>, NEW v, OnceEach(s), MapIs(s, v),
           NEW c \in Frame, NEW u, u = Append(s, c),
           c.for.kind = "spread" => c.for.to \notin v
    PROVE  OnceEach(u) /\ MapIs(u, IF c.for.kind = "spread" THEN v \cup {c.for.to} ELSE v)
  <1> DEFINE l == Len(s)
  <1>1. l \in Nat /\ Len(u) = l + 1 /\ u[l + 1] = c /\ \A i \in 1 .. l : u[i] = s[i]
    BY AppendProperties, LenProperties
  <1> HIDE DEF l
  <1>2. 1 .. l + 1 = 1 .. l \cup {l + 1} /\ l + 1 \notin 1 .. l
    BY <1>1
  <1>3. Spreads(u) = IF c.for.kind = "spread" THEN Spreads(s) \cup {l + 1} ELSE Spreads(s)
    BY <1>1, <1>2 DEF Spreads, l
  <1>4. Spreads(s) \subseteq 1 .. l /\ \A i \in Spreads(s) : u[i].for.to = s[i].for.to /\ s[i].for.to \in v
    BY <1>1 DEF Spreads, l, MapIs
  <1>5. OnceEach(u)
    BY <1>1, <1>3, <1>4 DEF OnceEach
  <1>6. MapIs(u, IF c.for.kind = "spread" THEN v \cup {c.for.to} ELSE v)
    BY <1>1, <1>3, <1>4 DEF MapIs
  <1> QED
    BY <1>5, <1>6

LEMMA ReturnsMapped ==
    ASSUME NEW s \in Seq(Frame), s # <<>>, NEW v, OnceEach(s), MapIs(s, v)
    PROVE  /\ OnceEach(Front(s))
           /\ MapIs(Front(s), IF Last(s).for.kind = "spread" THEN v \ {Last(s).for.to} ELSE v)
  <1> DEFINE l == Len(s)
             f == Front(s)
  <1>1. l \in Nat \ {0} /\ Len(f) = l - 1 /\ Last(s) = s[l] /\ \A i \in 1 .. l - 1 : f[i] = s[i]
    BY Replaced
  <1> HIDE DEF l, f
  <1>2. 1 .. l = 1 .. l - 1 \cup {l} /\ l \notin 1 .. l - 1
    BY <1>1
  <1>3. Spreads(s) = IF s[l].for.kind = "spread" THEN Spreads(f) \cup {l} ELSE Spreads(f)
    BY <1>1, <1>2 DEF Spreads, l
  <1>4. Spreads(f) \subseteq 1 .. l - 1 /\ l \notin Spreads(f) /\ \A i \in Spreads(f) : f[i].for.to = s[i].for.to
    BY <1>1, <1>2 DEF Spreads
  <1>5. OnceEach(f)
    BY <1>3, <1>4 DEF OnceEach
  <1>6. s[l].for.kind = "spread" => \A i \in Spreads(f) : s[i].for.to # s[l].for.to
    BY <1>3, <1>4 DEF OnceEach
  <1>7. v = {s[i].for.to : i \in Spreads(s)}
    BY DEF MapIs
  <1>8. {f[i].for.to : i \in Spreads(f)} = {s[i].for.to : i \in Spreads(f)}
    BY <1>4
  <1>9. MapIs(f, IF s[l].for.kind = "spread" THEN v \ {s[l].for.to} ELSE v)
    <2>1. CASE s[l].for.kind = "spread"
      <3>1. v \ {s[l].for.to} = {s[i].for.to : i \in Spreads(f)}
        BY <1>3, <1>6, <1>7, <2>1
      <3> QED
        BY <1>8, <2>1, <3>1 DEF MapIs
    <2>2. CASE s[l].for.kind # "spread"
      BY <1>3, <1>7, <1>8, <2>2 DEF MapIs
    <2> QED
      BY <2>1, <2>2
  <1> QED
    BY <1>1, <1>5, <1>9 DEF f

-----------------------------------------------------------------------------
(* The depths of the calls in progress.                                    *)
LEMMA OneMoreDone ==
    ASSUME NEW h, NEW S, NEW k, Deepest(h, S, k), NEW sel,
           \A x \in S \cup {sel} : Adds(h, x) \in Nat
    PROVE  Deepest(h, S \cup {sel}, IF Adds(h, sel) > k THEN Adds(h, sel) ELSE k)
  <1>1. k \in Nat /\ \A x \in S : Adds(h, x) <= k
    BY DEF Deepest
  <1>2. CASE Adds(h, sel) > k
    <2>1. \A x \in S : Adds(h, x) <= Adds(h, sel)
      <3> SUFFICES ASSUME NEW x \in S PROVE Adds(h, x) <= Adds(h, sel)
        OBVIOUS
      <3>1. Adds(h, x) <= k /\ Adds(h, x) \in Int /\ Adds(h, sel) \in Int
        BY <1>1
      <3> HIDE DEF Adds
      <3> QED
        BY <1>1, <1>2, <3>1
    <2> QED
      BY <1>2, <2>1 DEF Deepest
  <1>3. CASE ~(Adds(h, sel) > k)
    BY <1>1, <1>3 DEF Deepest
  <1> QED
    BY <1>2, <1>3

LEMMA GoesOnMeasured ==
    ASSUME NEW d, NEW s \in Seq(Frame), s # <<>>, Measured(d, s),
           NEW sel \in Last(s).left, Last(s).left \subseteq d[Last(s).set],
           \A x \in d[Last(s).set] : Adds(Heights(d), x) \in Nat,
           NEW t \in Frame, t.set = Last(s).set, t.for = Last(s).for, t.left = Last(s).left \ {sel},
           NEW k, k = Last(s).depth,
           t.depth = IF Adds(Heights(d), sel) > k THEN Adds(Heights(d), sel) ELSE k,
           NEW u, u = Append(Front(s), t)
    PROVE  Measured(d, u)
  <1> DEFINE l == Len(s)
             H == Heights(d)
  <1>1. /\ l \in Nat \ {0} /\ Len(u) = l /\ u[l] = t /\ Last(s) = s[l]
        /\ \A i \in 1 .. l - 1 : u[i] = s[i]
    BY Replaced
  <1> HIDE DEF l, H
  <1>2. \A i \in 1 .. l : Deepest(H, Done(d, s, i), s[i].depth)
    BY DEF Measured, l, H
  <1>3. ASSUME NEW i \in 1 .. l PROVE Deepest(H, Done(d, u, i), u[i].depth)
    <2>1. CASE i = l
      <3>1. Done(d, s, l) = d[s[l].set] \ s[l].left /\ Done(d, u, l) = d[s[l].set] \ (s[l].left \ {sel})
        BY <1>1 DEF Done, l
      <3>2. Done(d, u, l) = Done(d, s, l) \cup {sel}
        BY <1>1, <3>1
      <3>3. \A x \in Done(d, s, l) \cup {sel} : Adds(H, x) \in Nat
        BY <1>1, <3>1 DEF H
      <3>4. Deepest(H, Done(d, s, l), k)
        BY <1>1, <1>2
      <3>5. Deepest(H, Done(d, s, l) \cup {sel}, IF Adds(H, sel) > k THEN Adds(H, sel) ELSE k)
        BY <3>3, <3>4, OneMoreDone
      <3> QED
        BY <1>1, <2>1, <3>2, <3>5 DEF H
    <2>2. CASE i # l
      <3>1. i \in 1 .. l - 1 /\ i + 1 \in 1 .. l /\ u[i] = s[i]
        BY <1>1, <2>2
      <3>2. u[i + 1].for = s[i + 1].for
        BY <1>1, <3>1
      <3>3. Done(d, u, i) = Done(d, s, i)
        BY <1>1, <3>1, <3>2 DEF Done, l
      <3> QED
        BY <1>2, <3>1, <3>3
    <2> QED
      BY <2>1, <2>2
  <1> QED
    BY <1>1, <1>3 DEF Measured, H

(* A call begins with nothing done, and what it is for is not done yet.    *)
LEMMA CallsMeasured ==
    ASSUME NEW d, NEW s \in Seq(Frame), s # <<>>, Measured(d, s),
           NEW sel \in Last(s).left,
           NEW t \in Frame, t.set = Last(s).set, t.for = Last(s).for, t.left = Last(s).left \ {sel},
           t.depth = Last(s).depth,
           NEW c \in Frame, c.for = sel, c.left = d[c.set], c.depth = 0,
           NEW u, u = Append(Append(Front(s), t), c)
    PROVE  Measured(d, u)
  <1> DEFINE l == Len(s)
             H == Heights(d)
             f == Append(Front(s), t)
  <1>0. u = Append(f, c)
    OBVIOUS
  <1>1. /\ l \in Nat \ {0} /\ f \in Seq(Frame) /\ Len(f) = l /\ f[l] = t /\ Last(s) = s[l]
        /\ \A i \in 1 .. l - 1 : f[i] = s[i]
    <2>1. /\ f \in Seq(Frame) /\ Len(f) = Len(s) /\ f[Len(s)] = t
          /\ \A i \in 1 .. Len(s) - 1 : f[i] = s[i]
      BY Replaced
    <2>2. Len(s) \in Nat \ {0} /\ Last(s) = s[Len(s)]
      BY Replaced
    <2> QED  BY <2>1, <2>2
  <1> HIDE DEF l, H, f
  <1>2. Len(u) = l + 1 /\ u[l + 1] = c /\ \A i \in 1 .. l : u[i] = f[i]
    BY <1>0, <1>1, AppendProperties
  <1>3. \A i \in 1 .. l : Deepest(H, Done(d, s, i), s[i].depth)
    BY DEF Measured, l, H
  <1>4. ASSUME NEW i \in 1 .. l + 1 PROVE Deepest(H, Done(d, u, i), u[i].depth)
    <2>1. CASE i = l + 1
      <3>1. Done(d, u, i) = {} /\ u[i].depth = 0
        BY <1>2, <2>1 DEF Done
      <3> QED
        BY <3>1 DEF Deepest
    <2>2. CASE i = l
      <3>1. l < Len(u) /\ ~(l < Len(s)) /\ u[l] = t /\ u[l + 1] = c
        BY <1>1, <1>2 DEF l
      <3>2. Done(d, u, l) = Done(d, s, l)
        BY <1>1, <3>1 DEF Done
      <3> QED
        BY <1>1, <1>3, <2>2, <3>1, <3>2
    <2>3. CASE i # l /\ i # l + 1
      <3>1. i \in 1 .. l - 1 /\ i \in 1 .. l /\ i + 1 \in 1 .. l
        BY <1>1, <2>3
      <3>2. u[i] = s[i] /\ u[i + 1].for = s[i + 1].for /\ i < Len(u) /\ i < Len(s)
        <4>1. u[i] = f[i] /\ u[i + 1] = f[i + 1]
          BY <1>2, <3>1
        <4>2. f[i] = s[i] /\ f[i + 1].for = s[i + 1].for
          BY <1>1, <3>1
        <4> QED
          BY <1>1, <1>2, <3>1, <4>1, <4>2 DEF l
      <3>3. Done(d, u, i) = Done(d, s, i)
        BY <3>2 DEF Done
      <3> QED
        BY <1>3, <3>1, <3>2, <3>3
    <2> QED
      BY <2>1, <2>2, <2>3
  <1> QED
    BY <1>2, <1>4 DEF Measured, H

(* A call that returns has measured what it was for.                       *)
LEMMA ReturnsMeasured ==
    ASSUME NEW d, NEW s \in Seq(Frame), Len(s) > 1, Measured(d, s), Nests(d, s),
           NEW b \in Frame, b = Last(Front(s)), NEW k, k = Adds(Heights(d), Last(s).for),
           \A x \in d[b.set] : Adds(Heights(d), x) \in Nat,
           NEW t \in Frame, t.set = b.set, t.for = b.for, t.left = b.left,
           t.depth = IF k > b.depth THEN k ELSE b.depth,
           NEW u, u = Append(Front(Front(s)), t)
    PROVE  Measured(d, u)
  <1> DEFINE l == Len(s)
             H == Heights(d)
             f == Front(s)
  <1>1. /\ l \in Nat /\ l > 1 /\ f \in Seq(Frame) /\ Len(f) = l - 1 /\ Last(s) = s[l]
        /\ \A i \in 1 .. l - 1 : f[i] = s[i]
    BY Replaced, LenProperties, EmptySeq
  <1>2. f # <<>>
    BY <1>1, EmptySeq
  <1> HIDE DEF l, H, f
  <1>3. /\ Len(u) = l - 1 /\ u[l - 1] = t /\ b = f[l - 1]
        /\ \A i \in 1 .. l - 2 : u[i] = f[i]
    <2>1. /\ Len(u) = Len(f) /\ u[Len(f)] = t /\ b = f[Len(f)]
          /\ \A i \in 1 .. Len(f) - 1 : u[i] = f[i]
      BY <1>1, <1>2, Replaced DEF f
    <2>2. Len(f) - 1 = l - 2
      BY <1>1
    <2> QED
      BY <1>1, <2>1, <2>2
  <1>4. b = s[l - 1] /\ l - 1 \in 1 .. l /\ l - 1 < l
    BY <1>1, <1>3
  <1>5. \A i \in 1 .. l : Deepest(H, Done(d, s, i), s[i].depth)
    BY DEF Measured, l, H
  <1>6. s[l].for \in d[b.set] \ b.left
    <2>1. l \in 1 .. Len(s) /\ l # 1
      BY <1>1 DEF l
    <2> QED
      BY <1>4, <2>1 DEF Nests
  <1>7. ASSUME NEW i \in 1 .. l - 1 PROVE Deepest(H, Done(d, u, i), u[i].depth)
    <2>1. CASE i = l - 1
      <3>1. ~(i < Len(u)) /\ i < Len(s) /\ i + 1 = l
        BY <1>1, <1>3, <2>1 DEF l
      <3>2. Done(d, s, i) = {x \in d[b.set] \ b.left : x # s[l].for} /\ Done(d, u, i) = d[b.set] \ b.left
        BY <1>3, <1>4, <2>1, <3>1 DEF Done
      <3>3. Done(d, u, i) = Done(d, s, i) \cup {s[l].for}
        BY <1>6, <3>2
      <3>4. \A x \in Done(d, s, i) \cup {s[l].for} : Adds(H, x) \in Nat
        BY <1>6, <3>2 DEF H
      <3>5. Deepest(H, Done(d, s, i), b.depth)
        BY <1>4, <1>5, <2>1
      <3>6. k = Adds(H, s[l].for)
        BY <1>1 DEF H
      <3>7. Deepest(H, Done(d, s, i) \cup {s[l].for},
                    IF Adds(H, s[l].for) > b.depth THEN Adds(H, s[l].for) ELSE b.depth)
        BY <3>4, <3>5, OneMoreDone
      <3> QED
        BY <1>3, <2>1, <3>3, <3>6, <3>7
    <2>2. CASE i # l - 1
      <3>1. i \in 1 .. l - 2 /\ i \in 1 .. l - 1 /\ i + 1 \in 1 .. l - 1 /\ i < Len(s) /\ i < l - 1 /\ i \in 1 .. l
        BY <1>1, <2>2 DEF l
      <3>2. u[i] = s[i] /\ u[i + 1].for = s[i + 1].for
        <4>1. u[i] = f[i] /\ f[i] = s[i] /\ f[i + 1] = s[i + 1]
          BY <1>1, <1>3, <3>1
        <4>2. CASE i + 1 \in 1 .. l - 2
          BY <1>3, <4>1, <4>2
        <4>3. CASE i + 1 \notin 1 .. l - 2
          <5>1. i + 1 = l - 1
            BY <1>1, <3>1, <4>3
          <5> QED
            BY <1>3, <1>4, <4>1, <5>1
        <4> QED
          BY <4>1, <4>2, <4>3
      <3>3. Done(d, u, i) = Done(d, s, i)
        BY <1>3, <3>1, <3>2 DEF Done
      <3> QED
        BY <1>5, <3>1, <3>2, <3>3
    <2> QED
      BY <2>1, <2>2
  <1> QED
    BY <1>3, <1>7 DEF Measured, H

-----------------------------------------------------------------------------
(* The memo of introspects.  Going on past a selection that was looked at. *)
LEMMA GoesOnClean ==
    ASSUME NEW d, NEW s \in Seq(Frame), s # <<>>, NEW v, NEW D, Nothing(d, s, v, D),
           NEW t \in Frame, t.set = Last(s).set,
           \A x \in Last(s).left \ t.left : Passed(x, D \cup OnStack(s)),
           NEW u, u = Append(Front(s), t),
           NEW w, w \cap Fragments \subseteq v
    PROVE  Nothing(d, u, w, D)
  <1> DEFINE l == Len(s)
             E == D \cup OnStack(s)
  <1>1. /\ l \in Nat \ {0} /\ Len(u) = l /\ u[l] = t /\ Last(s) = s[l]
        /\ \A i \in 1 .. l - 1 : u[i] = s[i]
    BY Replaced
  <1> HIDE DEF l
  <1>2. \A i \in 1 .. l : u[i].set = s[i].set
    BY <1>1
  <1>3. OnStack(u) = OnStack(s)
    BY <1>1, <1>2 DEF OnStack, l
  <1> HIDE DEF E
  <1>4. /\ v \cap Fragments \subseteq E /\ \A n \in D : \A x \in d[n] : Passed(x, E)
        /\ \A i \in 1 .. l : \A x \in d[s[i].set] \ s[i].left : Passed(x, E)
    BY DEF Nothing, E, l
  <1>5. ASSUME NEW i \in 1 .. l, NEW x \in d[u[i].set] \ u[i].left PROVE Passed(x, E)
    <2>1. CASE i = l
      BY <1>1, <1>2, <1>4, <1>5, <2>1 DEF E
    <2>2. CASE i # l
      <3>1. i \in 1 .. l - 1
        BY <1>1, <2>2
      <3> QED
        BY <1>1, <1>4, <1>5, <3>1
    <2> QED
      BY <2>1, <2>2
  <1> QED
    BY <1>1, <1>3, <1>4, <1>5 DEF Nothing, E

LEMMA CallsClean ==
    ASSUME NEW d, NEW s \in Seq(Frame), s # <<>>, NEW v, NEW D, Nothing(d, s, v, D),
           NEW sel \in Last(s).left, sel.kind # "__schema",
           NEW t \in Frame, t.set = Last(s).set, t.left = Last(s).left \ {sel},
           NEW c \in Frame, c.set = sel.to, c.left = d[c.set]
    PROVE  Nothing(d, Append(Append(Front(s), t), c), v \cup {sel.to}, D)
  <1> DEFINE l == Len(s)
             f == Append(Front(s), t)
             u == Append(f, c)
             w == v \cup {sel.to}
             E == D \cup OnStack(s)
             G == D \cup OnStack(u)
  <1>0. u = Append(f, c)
    OBVIOUS
  <1>1. /\ l \in Nat \ {0} /\ f \in Seq(Frame) /\ Len(f) = l /\ f[l] = t /\ Last(s) = s[l]
        /\ \A i \in 1 .. l - 1 : f[i] = s[i]
    <2>1. /\ f \in Seq(Frame) /\ Len(f) = Len(s) /\ f[Len(s)] = t
          /\ \A i \in 1 .. Len(s) - 1 : f[i] = s[i]
      BY Replaced
    <2>2. Len(s) \in Nat \ {0} /\ Last(s) = s[Len(s)]
      BY Replaced
    <2> QED  BY <2>1, <2>2
  <1> HIDE DEF l, f, u
  <1>2. Len(u) = l + 1 /\ u[l + 1] = c /\ \A i \in 1 .. l : u[i] = f[i]
    BY <1>0, <1>1, AppendProperties
  <1>3. \A i \in 1 .. l : u[i].set = s[i].set
    <2> SUFFICES ASSUME NEW i \in 1 .. l PROVE u[i].set = s[i].set
      OBVIOUS
    <2>1. CASE i = l
      BY <1>1, <1>2, <2>1
    <2>2. CASE i # l
      <3>1. i \in 1 .. l - 1
        BY <1>1, <2>2
      <3> QED
        BY <1>1, <1>2, <3>1
    <2> QED
      BY <2>1, <2>2
  <1>4. OnStack(u) = OnStack(s) \cup {sel.to}
    <2>1. 1 .. l + 1 = 1 .. l \cup {l + 1}
      BY <1>1
    <2> QED
      BY <1>2, <1>3, <2>1 DEF OnStack, l
  <1>5. /\ v \cap Fragments \subseteq E /\ \A n \in D : \A x \in d[n] : Passed(x, E)
        /\ \A i \in 1 .. l : \A x \in d[s[i].set] \ s[i].left : Passed(x, E)
    BY DEF Nothing, l
  <1>6. E \subseteq G /\ sel.to \in G
    BY <1>4
  <1> HIDE DEF E, G
  <1>7. \A x : Passed(x, E) => Passed(x, G)
    BY <1>6 DEF Passed
  <1>8. ASSUME NEW i \in 1 .. l + 1, NEW x \in d[u[i].set] \ u[i].left PROVE Passed(x, G)
    <2>1. CASE i = l + 1
      BY <1>2, <1>8, <2>1
    <2>2. CASE i = l
      <3>1. x \in d[s[l].set] /\ x \notin s[l].left \ {sel} /\ l \in 1 .. l
        BY <1>1, <1>2, <1>3, <1>8, <2>2
      <3>2. CASE x = sel
        BY <1>6, <3>2 DEF Passed
      <3>3. CASE x # sel
        BY <1>5, <1>7, <3>1, <3>3
      <3> QED
        BY <3>2, <3>3
    <2>3. CASE i # l /\ i # l + 1
      <3>1. i \in 1 .. l - 1 /\ i \in 1 .. l
        BY <1>1, <2>3
      <3>2. u[i] = s[i]
        BY <1>1, <1>2, <3>1
      <3> QED
        BY <1>5, <1>7, <1>8, <3>1, <3>2
    <2> QED
      BY <2>1, <2>2, <2>3
  <1>9. w \cap Fragments \subseteq G /\ \A n \in D : \A x \in d[n] : Passed(x, G)
    BY <1>5, <1>6, <1>7
  <1>10. Nothing(d, u, w, D)
    BY <1>2, <1>8, <1>9 DEF Nothing, G
  <1> QED
    BY <1>10 DEF u, f

(* A call that returns is done with its set.                               *)
LEMMA ReturnsClean ==
    ASSUME NEW d, NEW s \in Seq(Frame), s # <<>>, NEW v, NEW D, Nothing(d, s, v, D),
           Last(s).left = {}
    PROVE  Nothing(d, Front(s), v, D \cup {Last(s).set})
  <1> DEFINE l == Len(s)
             f == Front(s)
             n == Last(s).set
             E == D \cup OnStack(s)
  <1>1. l \in Nat \ {0} /\ Len(f) = l - 1 /\ Last(s) = s[l] /\ \A i \in 1 .. l - 1 : f[i] = s[i]
    BY Replaced
  <1> HIDE DEF l, f
  <1>2. 1 .. l = 1 .. l - 1 \cup {l}
    BY <1>1
  <1>3. OnStack(s) = OnStack(f) \cup {n}
    BY <1>1, <1>2 DEF OnStack, l
  <1>4. /\ v \cap Fragments \subseteq E /\ \A m \in D : \A x \in d[m] : Passed(x, E)
        /\ \A i \in 1 .. l : \A x \in d[s[i].set] \ s[i].left : Passed(x, E)
    BY DEF Nothing, l
  <1>5. E = (D \cup {n}) \cup OnStack(f)
    BY <1>3
  <1> HIDE DEF E
  <1>6. \A x \in d[n] : Passed(x, E)
    BY <1>1, <1>2, <1>4
  <1>7. \A i \in 1 .. l - 1 : \A x \in d[f[i].set] \ f[i].left : Passed(x, E)
    BY <1>1, <1>2, <1>4
  <1> QED
    BY <1>1, <1>4, <1>5, <1>6, <1>7 DEF Nothing, f

(* With nothing left, and no call in progress, there is nothing to find.   *)
LEMMA NothingLeft ==
    ASSUME NEW d, NEW v, NEW D \in SUBSET Sets, Op \in D, NEW s, Len(s) = 0, Nothing(d, s, v, D)
    PROVE  ~Introspects(d)
  <1>1. OnStack(s) = {}
    BY DEF OnStack
  <1>2. \A n \in D : \A x \in d[n] : x.kind # "__schema" /\ (x.to \in Sets => x.to \in D)
    BY <1>1 DEF Nothing, Passed
  <1>3. Reachable(d, Op) \subseteq D
    <2>1. Closed(d, D)
      BY <1>2 DEF Closed, Steps
    <2> QED
      BY <2>1, InClosed
  <1> QED
    BY <1>2, <1>3 DEF Introspects

-----------------------------------------------------------------------------
LEMMA WalkInvInit == ASSUME Walks \subseteq {"depth", "introspects"}, WalkInit PROVE WalkInv
  <1> DEFINE first == [set |-> Op, left |-> doc[Op], depth |-> 0, for |-> Root]
  <1>1. walk \in {"depth", "introspects"} /\ WellFormed(walk, doc)
    BY DocumentsFormed DEF WalkInit
  <1>2. stack = <<first>> /\ visiting = {} /\ result = Walking /\ walked = [f \in Fragments |-> 0]
    BY DEF WalkInit
  <1>3. first \in Frame /\ doc[Op] \subseteq Selected
    BY <1>1 DEF WellFormed, Frame, Sets
  <1>4. /\ first.set = Op /\ first.left = doc[Op] /\ first.depth = 0 /\ first.for = Root
        /\ first.for.kind # "spread" /\ Op \in Sets
    BY DEF Root, Sets
  <1> HIDE DEF first
  <1>5. stack \in Seq(Frame) /\ stack # <<>> /\ Len(stack) = 1 /\ stack[1] = first
    BY <1>2, <1>3
  <1>6. WalkTypes
    BY <1>1, <1>2, <1>5 DEF WalkTypes, Walking
  <1>7. Nests(doc, stack) /\ Reaches(doc, stack)
    <2>1. Nests(doc, stack)
      BY <1>4, <1>5 DEF Nests
    <2>2. Reaches(doc, stack)
      <3> SUFFICES ASSUME NEW j \in 1..1, NEW i \in 1..j PROVE stack[j].set \in Reachable(doc, stack[i].set)
        BY <1>5 DEF Reaches
      <3>1. i = 1 /\ j = 1
        OBVIOUS
      <3> QED
        BY <1>4, <1>5, <3>1, ReachesItself
    <2> QED
      BY <2>1, <2>2
  <1>8. OnceEach(stack) /\ MapIs(stack, visiting)
    <2>1. Spreads(stack) = {}
      BY <1>4, <1>5 DEF Spreads
    <2> QED
      BY <1>2, <2>1 DEF OnceEach, MapIs
  <1>9. Measured(doc, stack)
    <2>1. Done(doc, stack, 1) = {}
      BY <1>4, <1>5 DEF Done
    <2>2. Deepest(Heights(doc), {}, 0)
      BY DEF Deepest
    <2>3. \A i \in 1 .. Len(stack) : i = 1
      BY <1>5
    <2>4. stack[1].depth = 0
      BY <1>4, <1>5
    <2> QED
      BY <2>1, <2>2, <2>3, <2>4 DEF Measured
  <1>10. Nothing(doc, stack, visiting, {})
    BY <1>2, <1>4, <1>5 DEF Nothing
  <1>11. DepthInv
    BY <1>2, <1>8, <1>9 DEF DepthInv
  <1>12. MemoInv
    <2>1. \A f \in Fragments : walked[f] = IF f \in visiting THEN 1 ELSE 0
      BY <1>2
    <2> QED
      BY <1>2, <1>10, <2>1 DEF MemoInv
  <1> QED
    BY <1>6, <1>7, <1>11, <1>12 DEF WalkInv

(* Past a selection without a call.  A spread is passed over because its   *)
(* fragment is not defined or, without cycles, never.                      *)
LEMMA SpreadsLeadOn ==
    ASSUME WalkInv, walk = "depth", Acyclic(doc), stack # <<>>, NEW sel \in Top.left, sel.to \in visiting
    PROVE  sel.to \notin Sets
  <1> SUFFICES ASSUME sel.to \in Sets PROVE FALSE
    OBVIOUS
  <1>1. /\ Len(stack) \in Nat \ {0} /\ Top = stack[Len(stack)]
        /\ Top.set \in Reachable(doc, Op) /\ sel \in doc[Top.set]
    BY Selecting
  <1>2. PICK i \in Spreads(stack) : stack[i].for.to = sel.to
    BY DEF WalkInv, DepthInv, MapIs
  <1>3. i \in 1 .. Len(stack) /\ i # 1 /\ stack[i].set = sel.to
    BY <1>2 DEF Spreads, WalkInv, Nests, Root
  <1>4. Top.set \in Reachable(doc, sel.to)
    BY <1>1, <1>3 DEF WalkInv, Reaches
  <1> QED
    BY <1>1, <1>4 DEF Acyclic, Steps

LEMMA PassesKeeps ==
    ASSUME WalkInv, stack # <<>>, NEW sel \in Top.left,
           UNCHANGED <<walk, doc, result, walked>>,
           NEW k \in Nat, NEW t, t = Deeper(Taken(sel), k), stack' = Append(Rest, t),
           walk = "depth" => k = Adds(Heights(doc), sel) \/ ~Acyclic(doc),
           walk = "introspects" => Passed(sel, visiting),
           visiting' \subseteq visiting \cup {Undefined}, walk = "depth" => visiting' = visiting,
           visiting \subseteq visiting'
    PROVE  WalkInv'
  <1> DEFINE l == Len(stack)
  <1>1. /\ t \in Frame /\ t.set = Top.set /\ t.left = Top.left \ {sel} /\ t.for = Top.for
        /\ t.depth = IF k > Top.depth THEN k ELSE Top.depth
    <2>1. /\ Taken(sel) \in Frame
          /\ Taken(sel).set = Top.set /\ Taken(sel).left = Top.left \ {sel}
          /\ Taken(sel).depth = Top.depth /\ Taken(sel).for = Top.for
      BY TakenIs DEF WalkInv
    <2> QED
      BY <2>1, DeeperIs
  <1>2. stack \in Seq(Frame) /\ Top = Last(stack) /\ Rest = Front(stack)
    BY DEF WalkInv, WalkTypes, Top, Rest
  <1>3. stack' \in Seq(Frame) /\ stack' # <<>>
    BY <1>1, <1>2, Replaced, EmptySeq
  <1>4. Alike(t, Last(stack)) /\ stack' = Append(Front(stack), t)
    BY <1>1, <1>2 DEF Alike
  <1>5. Nests(doc, stack') /\ Reaches(doc, stack')
    BY <1>1, <1>2, <1>4, GoesOnNested DEF WalkInv
  <1>6. WalkTypes'
    BY <1>3, QueryLimitsConstants DEF WalkInv, WalkTypes
  <1>7. DepthInv'
    <2> SUFFICES ASSUME walk = "depth" PROVE DepthInv'
      BY DEF DepthInv
    <2>1. OnceEach(stack') /\ MapIs(stack', visiting)
      BY <1>1, <1>2, <1>4, GoesOnMapped DEF WalkInv, DepthInv
    <2>2. ASSUME Acyclic(doc) PROVE Measured(doc, stack')
      <3>1. \A x \in doc[Top.set] : Adds(Heights(doc), x) \in Nat
        BY <2>2, Selecting, HeightsAre DEF WalkInv, WalkTypes
      <3>2. k = Adds(Heights(doc), sel) /\ Measured(doc, stack)
        BY <2>2 DEF WalkInv, DepthInv
      <3>3. Top.left \subseteq doc[Top.set]
        BY Selecting
      <3> QED
        BY <1>1, <1>2, <1>4, <3>1, <3>2, <3>3, GoesOnMeasured
    <2>3. result = Walking /\ result' = Walking
      BY DEF WalkInv, WalkTypes
    <2> QED
      BY <2>1, <2>2, <2>3 DEF DepthInv
  <1>8. MemoInv'
    <2> SUFFICES ASSUME walk = "introspects" PROVE MemoInv'
      BY DEF MemoInv
    <2>1. result = Walking /\ result' = Walking
      BY DEF WalkInv, WalkTypes
    <2>2. PICK D \in SUBSET Sets : Nothing(doc, stack, visiting, D)
      BY <2>1 DEF WalkInv, MemoInv
    <2>3. visiting' \cap Fragments = visiting \cap Fragments
      BY QueryLimitsConstants
    <2>4. Passed(sel, D \cup OnStack(stack))
      <3>1. sel.to \in Sets => sel.to \in visiting /\ sel.to \in Fragments
        <4>1. visiting \subseteq Fragments \cup {Undefined} /\ Undefined \notin Sets
          BY QueryLimitsConstants DEF WalkInv, WalkTypes, Sets
        <4> QED
          BY <4>1 DEF Passed
      <3> QED
        BY <2>2, <3>1 DEF Passed, Nothing
    <2>5. Nothing(doc, stack', visiting', D)
      BY <1>1, <1>2, <1>4, <2>2, <2>3, <2>4, GoesOnClean
    <2>6. \A f \in Fragments : walked[f] = IF f \in visiting' THEN 1 ELSE 0
      BY <2>3 DEF WalkInv, MemoInv
    <2> QED
      BY <2>1, <2>2, <2>5, <2>6 DEF MemoInv
  <1> QED
    BY <1>5, <1>6, <1>7, <1>8 DEF WalkInv

LEMMA ScalarKeeps ==
    ASSUME WalkInv, stack # <<>>, NEW sel \in Top.left, Scalar(sel), UNCHANGED walk
    PROVE  WalkInv'
  <1>1. Formed(walk, sel) /\ Level(sel) \in Nat
    BY Selecting
  <1>2. /\ sel.to = Leaf /\ sel.kind = IF walk = "depth" THEN sel.kind ELSE "field"
        /\ sel.kind \in {"field", "__schema"} /\ walk = "depth" => sel.kind = "field"
    BY <1>1, QueryLimitsConstants DEF Scalar, Formed, Selected, WalkInv, WalkTypes
  <1>3. walk = "depth" => Level(sel) = Adds(Heights(doc), sel)
    BY <1>2, QueryLimitsConstants DEF Level, Adds, Sets
  <1>4. walk = "introspects" => Passed(sel, visiting)
    BY <1>2, QueryLimitsConstants DEF Passed, Sets
  <1>5. /\ stack' = Append(Rest, Deeper(Taken(sel), Level(sel)))
        /\ UNCHANGED <<walk, doc, result, walked>> /\ visiting' = visiting
    BY DEF Scalar
  <1> QED
    BY <1>1, <1>3, <1>4, <1>5, PassesKeeps

LEMMA SkipKeeps ==
    ASSUME WalkInv, stack # <<>>, NEW sel \in Top.left, SkipSpread(sel), UNCHANGED walk
    PROVE  WalkInv'
  <1> DEFINE t == Deeper(Taken(sel), 0)
  <1>1. sel.kind = "spread" /\ (sel.to \in visiting \/ sel.to = Undefined)
    BY DEF SkipSpread, Skipped
  <1>2. t = Taken(sel)
    <2>1. Taken(sel) \in Frame
      BY TakenIs DEF WalkInv
    <2> QED
      BY <2>1 DEF Deeper, Frame
  <1>3. walk = "depth" => (0 = Adds(Heights(doc), sel) \/ ~Acyclic(doc))
    <2> SUFFICES ASSUME walk = "depth", Acyclic(doc) PROVE Adds(Heights(doc), sel) = 0
      OBVIOUS
    <2>1. sel.to \notin Sets
      BY <1>1, SpreadsLeadOn, QueryLimitsConstants DEF Sets
    <2> QED
      BY <1>1, <2>1 DEF Adds
  <1>4. Passed(sel, visiting)
    BY <1>1, QueryLimitsConstants DEF Passed, Sets
  <1>5. /\ stack' = Append(Rest, Taken(sel)) /\ UNCHANGED <<walk, doc, result, walked>>
        /\ visiting' = IF walk = "introspects" THEN visiting \cup {sel.to} ELSE visiting
    BY DEF SkipSpread
  <1>6. /\ visiting' \subseteq visiting \cup {Undefined} /\ visiting \subseteq visiting'
        /\ walk = "depth" => visiting' = visiting
    BY <1>1, <1>5
  <1>7. stack' = Append(Rest, t)
    BY <1>2, <1>5
  <1> HIDE DEF t
  <1>8. t = Deeper(Taken(sel), 0) /\ 0 \in Nat
    BY DEF t
  <1> QED
    BY <1>3, <1>4, <1>5, <1>6, <1>7, <1>8, PassesKeeps

LEMMA FoundKeeps ==
    ASSUME WalkInv, stack # <<>>, NEW sel \in Top.left, Found(sel), UNCHANGED walk
    PROVE  WalkInv'
  <1>1. Top.set \in Reachable(doc, Op) /\ sel \in doc[Top.set]
    BY Selecting
  <1>2. /\ walk = "introspects" /\ sel.kind = "__schema" /\ stack' = <<>> /\ result' = 1
        /\ UNCHANGED <<walk, doc, visiting, walked>>
    BY DEF Found
  <1>3. Introspects(doc)
    BY <1>1, <1>2 DEF Introspects
  <1>4. stack' \in Seq(Frame) /\ Len(stack') = 0
    BY <1>2, EmptySeq
  <1>5. Nests(doc, stack') /\ Reaches(doc, stack')
    BY <1>4 DEF Nests, Reaches
  <1>6. WalkTypes'
    BY <1>2, <1>4 DEF WalkInv, WalkTypes, Walking
  <1>7. MemoInv'
    BY <1>2, <1>3 DEF WalkInv, MemoInv, Walking
  <1>8. DepthInv'
    BY <1>2 DEF DepthInv
  <1> QED
    BY <1>2, <1>5, <1>6, <1>7, <1>8 DEF WalkInv

(* A call, into a nested set or into a fragment that is not in the map.    *)
LEMMA CallKeeps ==
    ASSUME WalkInv, stack # <<>>, NEW sel \in Top.left, sel.to \in Sets,
           UNCHANGED <<walk, doc, result>>,
           stack' = Append(Append(Rest, Taken(sel)), Call(sel.to, sel)),
           visiting' = IF sel.kind = "spread" THEN visiting \cup {sel.to} ELSE visiting,
           sel.kind = "spread" => sel.to \notin visiting /\ sel.to \in Fragments,
           walked' = IF sel.kind = "spread" THEN [walked EXCEPT ![sel.to] = @ + 1] ELSE walked
    PROVE  WalkInv'
  <1> DEFINE t == Taken(sel)
             c == Call(sel.to, sel)
             f == Append(Front(stack), t)
  <1>1. /\ t \in Frame /\ t.set = Top.set /\ t.left = Top.left \ {sel} /\ t.for = Top.for
        /\ t.depth = Top.depth
    BY TakenIs DEF WalkInv
  <1>2. stack \in Seq(Frame) /\ Top = Last(stack) /\ Rest = Front(stack)
    BY DEF WalkInv, WalkTypes, Top, Rest
  <1>3. /\ Formed(walk, sel) /\ sel \in doc[Top.set] /\ Top.left \subseteq doc[Top.set]
        /\ Top.set \in Reachable(doc, Op)
    BY Selecting
  <1>4. c.set = sel.to /\ c.for = sel /\ c.left = doc[sel.to] /\ c.depth = 0
    BY DEF Call
  <1>5. c \in Frame
    <2>1. doc[sel.to] \in SUBSET Selected /\ sel \in Selected
      BY <1>3 DEF WalkInv, WalkTypes, WellFormed, Formed
    <2> QED
      BY <2>1 DEF Call, Frame
  <1> HIDE DEF t, c
  <1>6. f \in Seq(Frame) /\ f # <<>> /\ Last(f) = t /\ Alike(t, Last(stack))
    <2>0. Len(stack) \in Nat \ {0}
      BY <1>1, <1>2, Replaced
    <2>1. f \in Seq(Frame) /\ Len(f) = Len(stack) /\ f[Len(stack)] = t
      BY <1>1, <1>2, Replaced
    <2>2. f # <<>> /\ Last(f) = f[Len(f)]
      BY <2>0, <2>1, EmptySeq DEF Last
    <2> QED
      BY <1>1, <1>2, <2>1, <2>2 DEF Alike
  <1>7. stack' = Append(f, c)
    BY <1>2 DEF t, c
  <1>8. stack' \in Seq(Frame) /\ stack' # <<>>
    <2> HIDE DEF f
    <2> QED
      BY <1>5, <1>6, <1>7, AppendProperties
  <1>9. Nests(doc, f) /\ Reaches(doc, f)
    BY <1>1, <1>2, <1>6, GoesOnNested DEF WalkInv
  <1>10. Nests(doc, stack') /\ Reaches(doc, stack')
    <2>1. sel \in doc[Last(f).set] \ Last(f).left
      BY <1>1, <1>3, <1>6
    <2> HIDE DEF f
    <2> QED
      BY <1>4, <1>5, <1>6, <1>7, <1>9, <2>1, CallsNested
  <1>11. WalkTypes'
    <2>1. result = Walking /\ result' = Walking
      BY DEF WalkInv, WalkTypes
    <2>2. visiting' \subseteq Fragments \cup {Undefined}
      BY DEF WalkInv, WalkTypes
    <2>3. walked' \in [Fragments -> Nat]
      BY DEF WalkInv, WalkTypes
    <2> QED
      BY <1>8, <2>1, <2>2, <2>3 DEF WalkInv, WalkTypes
  <1>12. DepthInv'
    <2> SUFFICES ASSUME walk = "depth" PROVE DepthInv'
      BY DEF DepthInv
    <2>1. OnceEach(f) /\ MapIs(f, visiting)
      BY <1>1, <1>2, <1>6, GoesOnMapped DEF WalkInv, DepthInv
    <2>2. OnceEach(stack') /\ MapIs(stack', visiting')
      <3>1. /\ c.for.kind = "spread" => c.for.to \notin visiting
            /\ visiting' = IF c.for.kind = "spread" THEN visiting \cup {c.for.to} ELSE visiting
        BY <1>4
      <3>2. OnceEach(stack') /\ MapIs(stack', IF c.for.kind = "spread" THEN visiting \cup {c.for.to} ELSE visiting)
        <4> HIDE DEF f
        <4> QED
          BY <1>5, <1>6, <1>7, <2>1, <3>1, CallsMapped
      <3> QED
        BY <3>1, <3>2
    <2>3. ASSUME Acyclic(doc) PROVE Measured(doc, stack')
      <3>1. Measured(doc, stack) /\ sel \in Last(stack).left
        BY <1>2, <2>3 DEF WalkInv, DepthInv
      <3>2. c.left = doc[c.set]
        BY <1>4
      <3> QED
        BY <1>1, <1>2, <1>4, <1>5, <1>7, <3>1, <3>2, CallsMeasured
    <2>4. result = Walking /\ result' = Walking
      BY DEF WalkInv, WalkTypes
    <2> QED
      BY <2>2, <2>3, <2>4 DEF DepthInv
  <1>13. MemoInv'
    <2> SUFFICES ASSUME walk = "introspects" PROVE MemoInv'
      BY DEF MemoInv
    <2>1. result = Walking /\ result' = Walking
      BY DEF WalkInv, WalkTypes
    <2>2. PICK D \in SUBSET Sets : Nothing(doc, stack, visiting, D)
      BY <2>1 DEF WalkInv, MemoInv
    <2>3. sel.kind # "__schema"
      BY <1>3, QueryLimitsConstants DEF Formed, Sets
    <2>4. visiting' \subseteq visiting \cup {sel.to} /\ c.left = doc[c.set]
      BY <1>4
    <2>5. Nothing(doc, stack', visiting', D)
      <3>1. /\ t \in Frame /\ t.set = Last(stack).set /\ t.left = Last(stack).left \ {sel}
            /\ c \in Frame /\ c.set = sel.to /\ c.left = doc[c.set]
            /\ stack' = Append(Append(Front(stack), t), c)
        BY <1>1, <1>2, <1>4, <1>5, <1>7
      <3>2. visiting' \subseteq visiting \cup {sel.to}
        BY <2>4
      <3>3. sel \in Last(stack).left
        BY <1>2
      <3> HIDE DEF f
      <3>4. Nothing(doc, Append(Append(Front(stack), t), c), visiting \cup {sel.to}, D)
        BY <1>2, <2>2, <2>3, <3>1, <3>3, CallsClean
      <3>5. Nothing(doc, stack', visiting \cup {sel.to}, D)
        BY <3>1, <3>4
      <3> QED
        BY <3>2, <3>5 DEF Nothing
    <2>6. ASSUME NEW g \in Fragments PROVE walked'[g] = IF g \in visiting' THEN 1 ELSE 0
      <3>1. walked[g] = (IF g \in visiting THEN 1 ELSE 0) /\ walked \in [Fragments -> Nat]
        BY DEF WalkInv, MemoInv, WalkTypes
      <3> QED
        BY <3>1
    <2> QED
      BY <2>1, <2>5, <2>6 DEF MemoInv
  <1> QED
    BY <1>10, <1>11, <1>12, <1>13 DEF WalkInv

LEMMA EnterKeeps ==
    ASSUME WalkInv, stack # <<>>, NEW sel \in Top.left, Enter(sel) \/ EnterSpread(sel), UNCHANGED walk
    PROVE  WalkInv'
  <1>1. Formed(walk, sel)
    BY Selecting
  <1>2. CASE Enter(sel)
    <2>1. sel.to \in Sets /\ sel.kind # "spread"
      BY <1>1, <1>2 DEF Enter, Formed, Sets
    <2> QED
      BY <1>2, <2>1, CallKeeps DEF Enter
  <1>3. CASE EnterSpread(sel)
    <2>1. sel.to \in Fragments /\ sel.to \in Sets /\ sel.kind = "spread" /\ sel.to \notin visiting
      BY <1>1, <1>3 DEF EnterSpread, Formed, Sets, Skipped
    <2> QED
      BY <1>3, <2>1, CallKeeps DEF EnterSpread
  <1> QED
    BY <1>2, <1>3

(* A call returns to its caller, which takes over the depth below what it  *)
(* was for.                                                                *)
LEMMA ReturnsInside ==
    ASSUME WalkInv, Return, UNCHANGED walk, Len(stack) # 1
    PROVE  WalkInv'
  <1> DEFINE b == Last(Rest)
             k == Level(Top.for) + Top.depth
             t == Deeper(b, k)
             f == Front(stack)
  <1>1. /\ stack # <<>> /\ Top.left = {} /\ UNCHANGED <<doc, walked, result>>
        /\ stack' = Append(Front(Rest), t) /\ visiting' = Cleared(Top.for)
    BY DEF Return
  <1>2. /\ stack \in Seq(Frame) /\ Len(stack) \in Nat \ {0} /\ Top = stack[Len(stack)]
        /\ Top = Last(stack) /\ Rest = f /\ Top \in Frame
    BY <1>1, Replaced DEF WalkInv, WalkTypes, Top, Rest
  <1>3. Len(stack) > 1 /\ f \in Seq(Frame) /\ Len(f) = Len(stack) - 1 /\ f # <<>>
    <2>1. f \in Seq(Frame) /\ Len(f) = Len(stack) - 1
      BY <1>1, <1>2, Replaced
    <2> HIDE DEF f
    <2> QED
      BY <1>2, <2>1, EmptySeq
  <1>4. b \in Frame /\ b = f[Len(stack) - 1] /\ b = stack[Len(stack) - 1]
    <2>1. \A i \in 1 .. Len(stack) - 1 : f[i] = stack[i]
      BY <1>1, <1>2, Replaced
    <2>2. Last(f) \in Frame /\ Last(f) = f[Len(f)]
      BY <1>3, Replaced
    <2> HIDE DEF f
    <2> QED
      BY <1>2, <1>3, <2>1, <2>2
  <1>5. Top.for \in doc[b.set] /\ Top.for.to = Top.set /\ Top.set \in Sets /\ b.set \in Sets
    <2>1. Len(stack) \in 1 .. Len(stack) /\ Len(stack) # 1
      BY <1>2, <1>3
    <2>2. Top.set \in Sets /\ b.set \in Sets
      BY <1>2, <1>4 DEF Frame
    <2> QED
      BY <1>2, <1>4, <2>1, <2>2 DEF WalkInv, Nests
  <1>6. Formed(walk, Top.for) /\ Top.for.kind # "__schema"
    <2>1. Formed(walk, Top.for)
      BY <1>5 DEF WalkInv, WalkTypes, WellFormed
    <2> QED
      BY <1>5, <2>1, QueryLimitsConstants DEF Formed, Sets
  <1>7. k \in Nat
    <2>1. Top.depth \in Nat
      BY <1>2 DEF Frame
    <2> QED
      BY <2>1 DEF Level
  <1> HIDE DEF b, k, f
  <1>8. /\ t \in Frame /\ t.set = b.set /\ t.left = b.left /\ t.for = b.for
        /\ t.depth = IF k > b.depth THEN k ELSE b.depth
    BY <1>4, <1>7, DeeperIs
  <1> HIDE DEF t
  <1>9. b = Last(f) /\ Alike(t, Last(f)) /\ stack' = Append(Front(f), t)
    BY <1>1, <1>2, <1>8 DEF b, Alike
  <1>10. stack' \in Seq(Frame) /\ stack' # <<>>
    BY <1>3, <1>8, <1>9, Replaced, EmptySeq
  <1>11. Nests(doc, stack') /\ Reaches(doc, stack')
    <2>1. Nests(doc, f) /\ Reaches(doc, f)
      BY <1>1, <1>2, ReturnsNested DEF WalkInv, f
    <2> QED
      BY <1>3, <1>8, <1>9, <2>1, GoesOnNested
  <1>12. visiting' = IF walk = "depth" /\ Top.for.kind = "spread" THEN visiting \ {Top.for.to} ELSE visiting
    BY <1>1 DEF Cleared
  <1>13. result = Walking /\ result' = Walking
    BY <1>1 DEF WalkInv, WalkTypes
  <1>14. WalkTypes'
    <2>1. visiting' \subseteq Fragments \cup {Undefined}
      BY <1>12 DEF WalkInv, WalkTypes
    <2> QED
      BY <1>1, <1>10, <1>13, <2>1 DEF WalkInv, WalkTypes
  <1>15. DepthInv'
    <2> SUFFICES ASSUME walk = "depth" PROVE DepthInv'
      BY DEF DepthInv
    <2>1. OnceEach(f) /\ MapIs(f, visiting')
      <3>1. OnceEach(stack) /\ MapIs(stack, visiting)
        BY DEF WalkInv, DepthInv
      <3>2. OnceEach(f) /\ MapIs(f, IF Top.for.kind = "spread" THEN visiting \ {Top.for.to} ELSE visiting)
        BY <1>1, <1>2, <3>1, ReturnsMapped DEF f
      <3> QED
        BY <1>12, <3>2
    <2>2. OnceEach(stack') /\ MapIs(stack', visiting')
      BY <1>3, <1>8, <1>9, <2>1, GoesOnMapped
    <2>3. ASSUME Acyclic(doc) PROVE Measured(doc, stack')
      <3>1. Measured(doc, stack) /\ Nests(doc, stack)
        BY <2>3 DEF WalkInv, DepthInv
      <3>2. Top.set \in Reachable(doc, Op) /\ b.set \in Reachable(doc, Op)
        <4>1. 1 \in 1 .. Len(stack) /\ Len(stack) \in 1 .. Len(stack) /\ 1 \in 1 .. Len(stack) - 1
              /\ Len(stack) - 1 \in 1 .. Len(stack)
          BY <1>2, <1>3
        <4>2. stack[1].set = Op
          BY <4>1 DEF WalkInv, Nests
        <4> QED
          BY <1>2, <1>4, <4>1, <4>2 DEF WalkInv, Reaches
      <3>3. \A x \in doc[b.set] : Adds(Heights(doc), x) \in Nat
        BY <2>3, <3>2, HeightsAre DEF WalkInv, WalkTypes
      <3>4. Heights(doc)[Top.set] = Top.depth
        <4>1. Len(stack) \in 1 .. Len(stack) /\ ~(Len(stack) < Len(stack))
          BY <1>2
        <4>2. Done(doc, stack, Len(stack)) = doc[Top.set]
          BY <1>1, <1>2, <4>1 DEF Done
        <4>3. Deepest(Heights(doc), doc[Top.set], Top.depth)
          BY <1>2, <3>1, <4>1, <4>2 DEF Measured
        <4> QED
          BY <2>3, <3>2, <4>3, HeightsAre DEF WalkInv, WalkTypes
      <3>5. k = Adds(Heights(doc), Last(stack).for)
        <4>1. Level(Top.for) = IF Top.for.kind = "field" THEN 1 ELSE 0
          BY <1>6 DEF Level
        <4> QED
          BY <1>2, <1>5, <3>4, <4>1 DEF k, Adds
      <3>6. b = Last(Front(stack)) /\ stack' = Append(Front(Front(stack)), t)
        BY <1>9 DEF f
      <3> QED
        BY <1>2, <1>3, <1>4, <1>8, <3>1, <3>3, <3>5, <3>6, ReturnsMeasured
    <2> QED
      BY <1>1, <1>13, <2>2, <2>3 DEF DepthInv
  <1>16. MemoInv'
    <2> SUFFICES ASSUME walk = "introspects" PROVE MemoInv'
      BY DEF MemoInv
    <2>1. PICK D \in SUBSET Sets : Nothing(doc, stack, visiting, D)
      BY <1>13 DEF WalkInv, MemoInv
    <2>2. Nothing(doc, f, visiting, D \cup {Top.set}) /\ D \cup {Top.set} \in SUBSET Sets
      BY <1>1, <1>2, <1>5, <2>1, ReturnsClean DEF f
    <2>3. visiting' = visiting
      BY <1>12
    <2>4. Nothing(doc, stack', visiting', D \cup {Top.set})
      BY <1>3, <1>8, <1>9, <2>2, <2>3, GoesOnClean
    <2>5. \A g \in Fragments : walked'[g] = IF g \in visiting' THEN 1 ELSE 0
      BY <1>1, <2>3 DEF WalkInv, MemoInv
    <2> QED
      BY <1>1, <1>13, <2>2, <2>4, <2>5 DEF MemoInv
  <1> QED
    BY <1>1, <1>11, <1>14, <1>15, <1>16 DEF WalkInv

(* The outermost call returns: the depth of the whole, or nothing found.   *)
LEMMA ReturnsLast ==
    ASSUME WalkInv, Return, UNCHANGED walk, Len(stack) = 1
    PROVE  WalkInv'
  <1>1. /\ stack # <<>> /\ Top.left = {} /\ UNCHANGED <<doc, walked, visiting>>
        /\ stack' = <<>> /\ result' = IF walk = "depth" THEN Top.depth ELSE 0
    BY DEF Return
  <1>2. /\ stack \in Seq(Frame) /\ Top = stack[1] /\ Top = Last(stack) /\ Top \in Frame
    BY <1>1, Replaced DEF WalkInv, WalkTypes, Top
  <1>3. Top.set = Op /\ Top.depth \in Nat /\ Op \in Sets
    <2>1. 1 \in 1 .. Len(stack)
      OBVIOUS
    <2>2. stack[1].set = Op
      BY <2>1 DEF WalkInv, Nests
    <2>3. Top.depth \in Nat
      BY <1>2 DEF Frame
    <2> QED
      BY <1>2, <2>2, <2>3 DEF Sets
  <1>4. stack' \in Seq(Frame) /\ Len(stack') = 0
    BY <1>1, EmptySeq
  <1>5. Nests(doc, stack') /\ Reaches(doc, stack')
    BY <1>4 DEF Nests, Reaches
  <1>6. WalkTypes'
    BY <1>1, <1>3, <1>4 DEF WalkInv, WalkTypes, Walking
  <1>7. DepthInv'
    <2> SUFFICES ASSUME walk = "depth" PROVE DepthInv'
      BY DEF DepthInv
    <2>1. OnceEach(stack') /\ MapIs(stack', visiting')
      <3>1. Spreads(stack) = {}
        BY <1>1 DEF WalkInv, Nests, Spreads, Root
      <3>2. Spreads(stack') = {}
        BY <1>4 DEF Spreads
      <3> QED
        BY <1>1, <3>1, <3>2 DEF WalkInv, DepthInv, MapIs, OnceEach
    <2>2. ASSUME Acyclic(doc) PROVE result' = Height(doc) /\ Measured(doc, stack')
      <3>1. Done(doc, stack, 1) = doc[Op]
        BY <1>1, <1>2, <1>3 DEF Done
      <3>2. Deepest(Heights(doc), doc[Op], Top.depth)
        <4>1. 1 \in 1 .. Len(stack) /\ Measured(doc, stack)
          BY <2>2 DEF WalkInv, DepthInv
        <4>2. Deepest(Heights(doc), Done(doc, stack, 1), stack[1].depth)
          BY <4>1 DEF Measured
        <4> QED
          BY <1>2, <3>1, <4>2
      <3>3. Op \in Reachable(doc, Op)
        BY <1>3, ReachesItself
      <3>4. Heights(doc)[Op] = Top.depth
        BY <2>2, <3>2, <3>3, HeightsAre DEF WalkInv, WalkTypes
      <3> QED
        BY <1>1, <1>4, <3>4 DEF Height, Measured
    <2> QED
      BY <1>1, <2>1, <2>2 DEF DepthInv
  <1>8. MemoInv'
    <2> SUFFICES ASSUME walk = "introspects" PROVE MemoInv'
      BY DEF MemoInv
    <2>1. PICK D \in SUBSET Sets : Nothing(doc, stack, visiting, D)
      BY <1>1 DEF WalkInv, WalkTypes, MemoInv
    <2>2. Nothing(doc, Front(stack), visiting, D \cup {Op}) /\ D \cup {Op} \in SUBSET Sets
      BY <1>1, <1>2, <1>3, <2>1, ReturnsClean
    <2>3. Len(Front(stack)) = 0
      BY <1>1, <1>2, Replaced
    <2>4. ~Introspects(doc)
      BY <2>2, <2>3, NothingLeft
    <2> QED
      BY <1>1, <2>4 DEF WalkInv, MemoInv, Walking
  <1> QED
    BY <1>1, <1>5, <1>6, <1>7, <1>8 DEF WalkInv

LEMMA WalkInvNext == WalkInv /\ [WalkNext]_walkVars => WalkInv'
  <1> SUFFICES ASSUME WalkInv, [WalkNext]_walkVars PROVE WalkInv'
    OBVIOUS
  <1>1. ASSUME Return, UNCHANGED walk PROVE WalkInv'
    BY <1>1, ReturnsInside, ReturnsLast
  <1>2. ASSUME stack # <<>>, NEW sel \in Top.left, WalkStep(sel), UNCHANGED walk PROVE WalkInv'
    <2>1. CASE Scalar(sel)
      BY <1>2, <2>1, ScalarKeeps
    <2>2. CASE Found(sel)
      BY <1>2, <2>2, FoundKeeps
    <2>3. CASE Enter(sel) \/ EnterSpread(sel)
      BY <1>2, <2>3, EnterKeeps
    <2>4. CASE SkipSpread(sel)
      BY <1>2, <2>4, SkipKeeps
    <2> QED
      BY <1>2, <2>1, <2>2, <2>3, <2>4 DEF WalkStep
  <1>3. CASE UNCHANGED walkVars
    BY <1>3 DEF walkVars, WalkInv, WalkTypes, DepthInv, MemoInv
  <1> QED
    BY <1>1, <1>2, <1>3 DEF WalkNext

LEMMA WalkAlways == WalkSpec => []WalkInv
  <1>1. WalkInit => WalkInv
    BY WalkInvInit, QueryLimitsConstants
  <1> QED
    BY <1>1, WalkInvNext, PTL DEF WalkSpec

(* For every document, of any width and nesting, with fragments shared and *)
(* even cyclic: selectionDepth measures what the written-out operation     *)
(* would, and is never inside one fragment twice.                          *)
THEOREM DepthMeasured == WalkSpec => []DepthExact
  <1>1. WalkInv => DepthExact
    <2> SUFFICES ASSUME WalkInv, walk = "depth" PROVE DepthExact
      BY DEF DepthExact
    <2>1. ASSUME result # Walking, Acyclic(doc)
          PROVE  result = Height(doc) /\ (Rejected <=> Height(doc) > Limit)
      BY <2>1 DEF WalkInv, DepthInv, Rejected
    <2>2. ASSUME NEW i \in DOMAIN stack, NEW j \in DOMAIN stack,
                 stack[i].for.kind = "spread", stack[i].for = stack[j].for
          PROVE  i = j
      <3>1. DOMAIN stack = 1 .. Len(stack)
        BY LenProperties DEF WalkInv, WalkTypes
      <3>2. i \in Spreads(stack) /\ j \in Spreads(stack)
        BY <2>2, <3>1 DEF Spreads
      <3> QED
        BY <2>2, <3>2 DEF WalkInv, DepthInv, OnceEach
    <2> QED
      BY <2>1, <2>2 DEF DepthExact
  <1> QED
    BY <1>1, WalkAlways, PTL

(* And introspects finds introspection exactly where it can be reached,    *)
(* although it enters no fragment twice.                                   *)
THEOREM NothingHides == WalkSpec => []IntrospectionFound
  <1>1. WalkInv => IntrospectionFound
    <2> SUFFICES ASSUME WalkInv, walk = "introspects" PROVE IntrospectionFound
      BY DEF IntrospectionFound
    <2>1. \A f \in Fragments : walked[f] <= 1
      BY DEF WalkInv, MemoInv
    <2>2. result # Walking => (Rejected <=> Introspects(doc))
      BY DEF WalkInv, MemoInv, Rejected
    <2> QED
      BY <2>1, <2>2 DEF IntrospectionFound, Introspects
  <1> QED
    BY <1>1, WalkAlways, PTL
=============================================================================
