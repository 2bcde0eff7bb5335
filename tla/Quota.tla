------------------------------- MODULE Quota -------------------------------
(***************************************************************************)
(* What a fixed-window limiter promises, with no lock, no map and no       *)
(* request steps: a book that is opened for one period at a time, and in   *)
(* which every key may be admitted at most N times per period.             *)
(*                                                                         *)
(* RateLimit.tla is shown to implement this specification.                 *)
(***************************************************************************)
EXTENDS Integers

CONSTANTS Requests,  \* the requests that reach the limiter
          Keys,      \* what requests are bucketed on
          N,         \* requests admitted per key and period
          Per        \* the length of a period, in clock units

VARIABLES
    closes,   \* the last instant of the current period
    spent,    \* spent[k]: how much of its N key k has used in this period
    verdict   \* verdict[r]: "none", "admitted" or "refused"

vars == <<closes, spent, verdict>>

Init == /\ closes = -1
        /\ spent = [k \in Keys |-> 0]
        /\ verdict = [r \in Requests |-> "none"]

(* A new period, Per long, starts at an instant after the current one's end. *)
OpenPeriod == /\ closes' > closes + Per
              /\ spent' = [k \in Keys |-> 0]
              /\ UNCHANGED verdict

(* A request is admitted exactly when its key has some of its N left.      *)
Admit(r, k) == /\ verdict[r] = "none"
               /\ spent[k] < N
               /\ spent' = [spent EXCEPT ![k] = @ + 1]
               /\ verdict' = [verdict EXCEPT ![r] = "admitted"]
               /\ UNCHANGED closes

Refuse(r, k) == /\ verdict[r] = "none"
                /\ spent[k] = N
                /\ verdict' = [verdict EXCEPT ![r] = "refused"]
                /\ UNCHANGED <<closes, spent>>

Next == \/ OpenPeriod
        \/ \E r \in Requests, k \in Keys : Admit(r, k) \/ Refuse(r, k)

Spec == Init /\ [][Next]_vars
============================================================================
