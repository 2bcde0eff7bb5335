---------------------------- MODULE HealthProbe ----------------------------
(***************************************************************************)
(* The liveness route of src/server/server.go (Mount, lines 535-563).      *)
(*                                                                         *)
(* Each probe is answered by a handler that starts the consumer's check on *)
(* a goroutine of its own and waits for its result or for two seconds,     *)
(* whichever comes first.  Probes overlap, because an orchestrator sends   *)
(* the next one whether or not the last was answered.                      *)
(*                                                                         *)
(* The check is the consumer's.  It may return at any time or never; one   *)
(* that watches its context returns once the context is done.              *)
(***************************************************************************)
EXTENDS Naturals, Sequences

CONSTANTS Probes,   \* the requests to the liveness route
          Watchful  \* the probes whose check watches its context

ASSUME ProbeConstants == Watchful \subseteq Probes

VARIABLES
    hasCheck, \* cfg.HealthCheck is not nil
    handler,  \* handler[p]: "none", "select", or the status it answered
    ctx,      \* ctx[p]: "live", "expired" by the deadline, "cancelled" by the handler
    done,     \* done[p]: the channel the check's goroutine sends on
    check,    \* check[p]: the check's goroutine
    verdict   \* verdict[p]: what the check returned

vars == <<hasCheck, handler, ctx, done, check, verdict>>

Init == /\ hasCheck \in BOOLEAN
        /\ handler = [p \in Probes |-> "none"]
        /\ ctx = [p \in Probes |-> "live"]
        /\ done = [p \in Probes |-> <<>>]
        /\ check = [p \in Probes |-> "none"]
        /\ verdict = [p \in Probes |-> "none"]

-----------------------------------------------------------------------------
(* The route is hit.  With no HealthCheck it is 200 at once; otherwise the *)
(* context, the channel and the goroutine are made.                        *)
ProbeNoCheck(p) == /\ ~hasCheck
                   /\ handler[p] = "none"
                   /\ handler' = [handler EXCEPT ![p] = "200"]
                   /\ UNCHANGED <<hasCheck, ctx, done, check, verdict>>

Probe(p) == /\ hasCheck
            /\ handler[p] = "none"
            /\ handler' = [handler EXCEPT ![p] = "select"]
            /\ check' = [check EXCEPT ![p] = "running"]
            /\ UNCHANGED <<hasCheck, ctx, done, verdict>>

CheckReturns(p, v) == /\ check[p] = "running"
                      /\ check' = [check EXCEPT ![p] = "sending"]
                      /\ verdict' = [verdict EXCEPT ![p] = v]
                      /\ UNCHANGED <<hasCheck, handler, ctx, done>>

(* A check that watches its context gives up when it is done.              *)
GivesUp(p) == p \in Watchful /\ ctx[p] # "live" /\ CheckReturns(p, "error")

(* done is buffered by one.  The variant has no buffer: the send waits for *)
(* a handler that still receives.                                          *)
ReceiverWaits(p) == handler[p] = "select"
RoomIn(p)        == Len(done[p]) < 1

Send(p) == /\ check[p] = "sending" /\ RoomIn(p)
           /\ done' = [done EXCEPT ![p] = Append(@, verdict[p])]
           /\ check' = [check EXCEPT ![p] = "exited"]
           /\ UNCHANGED <<hasCheck, handler, ctx, verdict>>

Deadline(p) == /\ handler[p] = "select" /\ ctx[p] = "live"
               /\ ctx' = [ctx EXCEPT ![p] = "expired"]
               /\ UNCHANGED <<hasCheck, handler, done, check, verdict>>

(* The handler answers, and the deferred cancel releases the context.  The *)
(* variant forgets the defer.                                              *)
KeepContext(p) == UNCHANGED ctx
Release(p)     == ctx' = [ctx EXCEPT ![p] = IF @ = "live" THEN "cancelled" ELSE @]

(* The status of a check's result.  The variant answers that there is one. *)
StatusAlive(v)  == "200"
Status(v)       == IF v = "nil" THEN "200" ELSE "503"

FromCheck(p) == /\ handler[p] = "select" /\ done[p] # <<>>
                /\ handler' = [handler EXCEPT ![p] = Status(Head(done[p]))]
                /\ done' = [done EXCEPT ![p] = Tail(@)]
                /\ Release(p)
                /\ UNCHANGED <<hasCheck, check, verdict>>

(* The other case of the select; the variant is a handler without it.      *)
OnlyCheck(p)    == FALSE
DeadlineCase(p) == ctx[p] # "live"

FromDeadline(p) == /\ handler[p] = "select" /\ DeadlineCase(p)
                   /\ handler' = [handler EXCEPT ![p] = "503"]
                   /\ Release(p)
                   /\ UNCHANGED <<hasCheck, done, check, verdict>>

Handler(p) == FromCheck(p) \/ FromDeadline(p)

Next == \E p \in Probes :
            \/ ProbeNoCheck(p) \/ Probe(p) \/ Handler(p) \/ Deadline(p)
            \/ Send(p) \/ GivesUp(p)
            \/ \E v \in {"nil", "error"} : CheckReturns(p, v)

(* Goroutines are scheduled and the deadline's timer fires.  A check       *)
(* returns only if it watches its context; any other may block for ever.   *)
Fairness == \A p \in Probes : /\ WF_vars(Handler(p)) /\ WF_vars(Deadline(p))
                              /\ WF_vars(Send(p)) /\ WF_vars(GivesUp(p))

Spec     == Init /\ [][Next]_vars
FairSpec == Spec /\ Fairness

-----------------------------------------------------------------------------
(* A probe that started a check is answered 200 only when that check has   *)
(* returned nil, and 503 only when it failed or its two seconds were over. *)
(* No context outlives its probe's answer, so whatever it bounds, a wait   *)
(* for a pooled connection say, ends with the answer.                      *)
AnswerEarned ==
    \A p \in Probes : hasCheck =>
        /\ handler[p] = "200" => verdict[p] = "nil" /\ check[p] = "exited"
        /\ handler[p] = "503" => verdict[p] = "error" \/ ctx[p] = "expired"
        /\ handler[p] \in {"200", "503"} => ctx[p] # "live"

(* Every probe is answered, whatever its check does: "503 rather than a    *)
(* hang".                                                                  *)
ProbesAnswered == \A p \in Probes : handler[p] = "select" ~> handler[p] \in {"200", "503"}

(* A check that returns, however late, takes its goroutine with it; only a *)
(* check that never returns leaks one.                                     *)
NoGoroutineLeft == \A p \in Probes : check[p] = "sending" ~> check[p] = "exited"
=============================================================================
