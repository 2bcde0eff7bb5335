----------------------------- MODULE RateLimit -----------------------------
(***************************************************************************)
(* The fixed-window limiter of src/server/middleware.go (RateLimit).       *)
(*                                                                         *)
(* Every request is served on a goroutine of its own.  The goroutines      *)
(* share one map of counters, one window end and the mutex that guards     *)
(* both; the clock advances between any two of their steps, also while one *)
(* of them holds the mutex.                                                *)
(***************************************************************************)
EXTENDS Integers, FiniteSets

CONSTANTS Requests,  \* the requests, each served by one goroutine
          NoOne,     \* the holder of a free mutex
          Keys,      \* the values key(r), or r.RemoteAddr, can take
          N,         \* the parameter n: requests allowed per window
          Per,       \* the parameter per, in clock units
          Second,    \* clock units per second
          MaxClock   \* bound: the clock stops here

ASSUME LimiterConstants ==
    /\ NoOne \notin Requests
    /\ N \in Nat
    /\ Per \in Nat
    /\ Second \in Nat \ {0}
    /\ MaxClock \in Nat

VARIABLES
    clock,      \* the monotonic clock time.Now reads
    mu,         \* the goroutine that holds the mutex, or NoOne
    hits,       \* the map: hits[k] requests of key k in the current window
    windowEnd,  \* the current window's last instant; -1 is the zero time.Time
    pc,         \* where each goroutine stands
    key,        \* the local k
    now,        \* the local now
    over,       \* the local over
    retry,      \* the local retry, a duration
    window,     \* history: how many windows have been opened
    win         \* history: the window in which a request was counted

shared == <<mu, hits, windowEnd, window>>
locals == <<key, now, over, retry, win>>
vars   == <<clock, mu, hits, windowEnd, pc, key, now, over, retry, window, win>>

-----------------------------------------------------------------------------
(* Go maps: a missing key counts as zero, and hits[k]++ inserts it.        *)
CountOf(h, k) == IF k \in DOMAIN h THEN h[k] ELSE 0
Bump(h, k)    == [x \in DOMAIN h \cup {k} |->
                    IF x = k THEN CountOf(h, k) + 1 ELSE h[x]]

(* What the sweep does when a window is over, and the variants of it that  *)
(* must be told apart: a map never emptied or filled in advance, a window  *)
(* that ends one instant early, a window extended instead of restarted.    *)
KeptMap   == hits
FilledMap == [k \in Keys |-> 0]
EmptyMap  == [k \in {} |-> 0]
SweptMap  == EmptyMap

ExpiredEarly(t) == t >= windowEnd
Expired(t)      == t > windowEnd

Extended(t) == windowEnd + Per
EndAfter(t) == t + Per

(* Whether a count is over the limit; variants are off by one either way.  *)
OverAtLimit(c) == c >= N
OverLate(c)    == c > N + 1
OverLimit(c)   == c > N

(* The unlock, and a variant that leaves the mutex locked on a refusal.    *)
UnlockIfAdmitted(r) == mu' = IF over'[r] THEN r ELSE NoOne
Unlock(r)           == mu' = NoOne

(* Retry-After in whole seconds, rounded down, plus one; the variant may   *)
(* be 0.                                                                   *)
RetryRoundedDown(d) == d \div Second
RetryAfter(d)       == d \div Second + 1

Goto(r, l) == pc' = [pc EXCEPT ![r] = l]

-----------------------------------------------------------------------------
Init == /\ clock = 0
        /\ mu = NoOne
        /\ hits = EmptyMap
        /\ windowEnd = -1
        /\ window = 0
        /\ pc = [r \in Requests |-> "idle"]
        /\ key \in [Requests -> Keys]
        /\ now = [r \in Requests |-> 0]
        /\ over = [r \in Requests |-> FALSE]
        /\ retry = [r \in Requests |-> 0]
        /\ win = [r \in Requests |-> 0]

(* The request reaches the middleware and its key is computed.             *)
Arrive(r) == /\ pc[r] = "idle"
             /\ Goto(r, "lock")
             /\ UNCHANGED <<clock, shared, locals>>

Lock(r) == /\ pc[r] = "lock"
           /\ mu = NoOne
           /\ mu' = r
           /\ Goto(r, "clock")
           /\ UNCHANGED <<clock, hits, windowEnd, window, locals>>

(* now := time.Now(), inside the critical section.                         *)
ReadClock(r) == /\ pc[r] = "clock"
                /\ now' = [now EXCEPT ![r] = clock]
                /\ Goto(r, "sweep")
                /\ UNCHANGED <<clock, shared, key, over, retry, win>>

(* A window that has ended is dropped wholesale and the next one opened.   *)
Sweep(r) == /\ pc[r] = "sweep"
            /\ IF Expired(now[r])
               THEN /\ hits' = SweptMap
                    /\ windowEnd' = EndAfter(now[r])
                    /\ window' = window + 1
               ELSE UNCHANGED <<hits, windowEnd, window>>
            /\ Goto(r, "hit")
            /\ UNCHANGED <<clock, mu, locals>>

(* The request is counted and judged, and the mutex released.              *)
Hit(r) == /\ pc[r] = "hit"
          /\ hits' = Bump(hits, key[r])
          /\ over' = [over EXCEPT ![r] = OverLimit(hits'[key[r]])]
          /\ retry' = [retry EXCEPT ![r] = windowEnd - now[r]]
          /\ win' = [win EXCEPT ![r] = window]
          /\ Unlock(r)
          /\ Goto(r, "judged")
          /\ UNCHANGED <<clock, windowEnd, window, key, now>>

(* 429 with Retry-After, or the next handler.                              *)
Answer(r) == /\ pc[r] = "judged"
             /\ Goto(r, IF over[r] THEN "refused" ELSE "served")
             /\ UNCHANGED <<clock, shared, locals>>

Step(r) == \/ Lock(r) \/ ReadClock(r) \/ Sweep(r) \/ Hit(r) \/ Answer(r)

Tick == /\ clock < MaxClock
        /\ clock' = clock + 1
        /\ UNCHANGED <<shared, pc, locals>>

Next == Tick \/ \E r \in Requests : Arrive(r) \/ Step(r)

(* A goroutine that can run is scheduled, and sync.Mutex hands itself to a *)
(* waiter that has waited long (starvation mode), so no waiter is passed   *)
(* over for ever.  Nothing obliges a request to arrive or the clock to move. *)
Fairness == \A r \in Requests : /\ SF_vars(Lock(r))
                                /\ WF_vars(ReadClock(r) \/ Sweep(r) \/ Hit(r) \/ Answer(r))

Spec     == Init /\ [][Next]_vars
FairSpec == Spec /\ Fairness

-----------------------------------------------------------------------------
(* Requests that have been counted, and those of them let through.         *)
Counted         == {r \in Requests : pc[r] \in {"judged", "served", "refused"}}
CountedIn(k, w)  == {r \in Counted : key[r] = k /\ win[r] = w}
AdmittedIn(k, w) == {r \in CountedIn(k, w) : ~over[r]}

InCritical(r) == pc[r] \in {"clock", "sweep", "hit"}

(* Every variable has its type.                                            *)
TypeOK == /\ clock \in Nat
          /\ mu \in Requests \cup {NoOne}
          /\ DOMAIN hits \subseteq Keys
          /\ \A k \in DOMAIN hits : hits[k] \in Nat \ {0}
          /\ windowEnd \in Nat \cup {-1}
          /\ window \in Nat
          /\ pc \in [Requests -> {"idle", "lock", "clock", "sweep", "hit",
                                  "judged", "served", "refused"}]
          /\ key \in [Requests -> Keys]
          /\ now \in [Requests -> Nat]
          /\ over \in [Requests -> BOOLEAN]
          /\ retry \in [Requests -> Int]
          /\ win \in [Requests -> Nat]

(* A key is admitted at most N times in any one window, however the        *)
(* requests that share it interleave: "n requests allowed per window".     *)
WindowBudget == \A r \in Counted : Cardinality(AdmittedIn(key[r], win[r])) <= N

(* No needless 429: a request is refused only if its key's N were all      *)
(* spent by others in the very same window.                                *)
RefusedOnlyWhenSpent ==
    \A r \in Counted : over[r] => Cardinality(AdmittedIn(key[r], win[r])) = N

(* Together: a key's budget in a window is N, not one more or less.        *)
BudgetExact == WindowBudget /\ RefusedOnlyWhenSpent

(* The doc comment's ceiling: no interval as wide as a window, wherever it *)
(* starts, holds more than 2N admissions of one key.                       *)
TwiceInAnyWidth ==
    \A r \in Counted :
        Cardinality({q \in Counted : /\ key[q] = key[r]
                                     /\ ~over[q]
                                     /\ now[q] \in now[r] .. now[r] + Per}) <= 2 * N

(* The memory bound: the map holds only keys that were counted in the      *)
(* window that is current, never one carried over from an earlier window.  *)
OnlyCurrentKeys == \A k \in DOMAIN hits : CountedIn(k, window) # {}

(* A caller that waits as long as its 429's Retry-After said is counted in *)
(* a later window than the one that refused it; the header is never 0.     *)
RetryLandsLater ==
    \A r \in Counted : over[r] =>
        /\ RetryAfter(retry[r]) > 0
        /\ \A q \in Counted :
              now[q] >= now[r] + RetryAfter(retry[r]) * Second => win[q] > win[r]

(* Every request that reached the limiter is answered.                     *)
Answered == \A r \in Requests : pc[r] = "lock" ~> pc[r] \in {"served", "refused"}

-----------------------------------------------------------------------------
(* The limiter keeps Quota's promise.  The decision is the counting step;  *)
(* the period is opened by the sweep before it.                            *)
Least(a, b) == IF a <= b THEN a ELSE b

Verdict(r) == IF r \notin Counted THEN "none"
              ELSE IF over[r] THEN "refused" ELSE "admitted"

Book == INSTANCE Quota WITH
            closes  <- windowEnd,
            spent   <- [k \in Keys |-> Least(CountOf(hits, k), N)],
            verdict <- [r \in Requests |-> Verdict(r)]

(* Each step of the limiter is a step of the book, or leaves it as it was. *)
KeepsBook == Book!Spec
=============================================================================
