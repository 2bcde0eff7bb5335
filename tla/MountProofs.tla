---------------------------- MODULE MountProofs ----------------------------
(***************************************************************************)
(* Proofs about what Mount builds and what it answers, for any set of      *)
(* configurations, requests and probes.                                    *)
(*                                                                         *)
(* AnswerEarned first, of the liveness route by itself and of the one that *)
(* Mount registers.  The invariant that carries it says of each probe what *)
(* its channel may hold, and that the verdict is settled before anything   *)
(* is sent.                                                                *)
(*                                                                         *)
(* Then WhatServes and RequestPath.  Their invariant MInv says what each   *)
(* statement of Mount has left behind when the next one runs, and where a  *)
(* request's three contexts stand after each layer it has entered.         *)
(***************************************************************************)
EXTENDS Mount, TLAPS, SequenceTheorems, WellFoundedInduction

Results == {"nil", "error"}

TypeOK == /\ hasCheck \in BOOLEAN
          /\ handler \in [Probes -> {"none", "select", "200", "503"}]
          /\ ctx \in [Probes -> {"live", "expired", "cancelled"}]
          /\ done \in [Probes -> Seq(Results)]
          /\ check \in [Probes -> {"none", "running", "sending", "exited"}]
          /\ verdict \in [Probes -> {"none"} \cup Results]

(* The channel holds nothing but the verdict of a check that has returned; *)
(* before that there is none.                                              *)
Channel(p) == /\ check[p] \in {"none", "running"} => verdict[p] = "none"
              /\ check[p] \in {"sending", "exited"} => verdict[p] \in Results
              /\ check[p] # "exited" => done[p] = <<>>
              /\ done[p] # <<>> => done[p] = <<verdict[p]>>

(* Until the handler answers, only the deadline ends the context.          *)
Waiting(p) == /\ handler[p] = "none" => check[p] = "none" /\ ctx[p] = "live"
              /\ handler[p] = "select" => ctx[p] # "cancelled"

Earned(p) == hasCheck =>
    /\ handler[p] = "200" => verdict[p] = "nil" /\ check[p] = "exited"
    /\ handler[p] = "503" => verdict[p] = "error" \/ ctx[p] = "expired"
    /\ handler[p] \in {"200", "503"} => ctx[p] # "live"

IInv == TypeOK /\ \A p \in Probes : Channel(p) /\ Waiting(p) /\ Earned(p)

-----------------------------------------------------------------------------
LEMMA InitInv == Init => IInv
  BY DEF Init, IInv, TypeOK, Channel, Waiting, Earned, Results

(* What is said of a probe stands while its own fields do.                 *)
LEMMA OthersKept ==
    ASSUME NEW q \in Probes, Channel(q), Waiting(q), Earned(q),
           hasCheck' = hasCheck, handler'[q] = handler[q], ctx'[q] = ctx[q],
           done'[q] = done[q], check'[q] = check[q], verdict'[q] = verdict[q]
    PROVE  Channel(q)' /\ Waiting(q)' /\ Earned(q)'
  BY DEF Channel, Waiting, Earned

LEMMA NextInv == IInv /\ [Next]_vars => IInv'
  <1> SUFFICES ASSUME IInv, [Next]_vars PROVE IInv'
    OBVIOUS
  <1>1. CASE UNCHANGED vars
    BY <1>1 DEF vars, IInv, TypeOK, Channel, Waiting, Earned
  <1>2. ASSUME NEW p \in Probes, ProbeNoCheck(p) PROVE IInv'
    <2>1. TypeOK'
      BY <1>2 DEF ProbeNoCheck, IInv, TypeOK
    <2>2. Channel(p)' /\ Waiting(p)' /\ Earned(p)'
      BY <1>2 DEF ProbeNoCheck, IInv, TypeOK, Channel, Waiting, Earned
    <2>3. \A q \in Probes \ {p} : Channel(q)' /\ Waiting(q)' /\ Earned(q)'
      BY <1>2, OthersKept DEF ProbeNoCheck, IInv, TypeOK
    <2> QED  BY <2>1, <2>2, <2>3 DEF IInv
  <1>3. ASSUME NEW p \in Probes, Probe(p) PROVE IInv'
    <2>1. TypeOK'
      BY <1>3 DEF Probe, IInv, TypeOK
    <2>2. Channel(p)' /\ Waiting(p)' /\ Earned(p)'
      BY <1>3 DEF Probe, IInv, TypeOK, Channel, Waiting, Earned
    <2>3. \A q \in Probes \ {p} : Channel(q)' /\ Waiting(q)' /\ Earned(q)'
      BY <1>3, OthersKept DEF Probe, IInv, TypeOK
    <2> QED  BY <2>1, <2>2, <2>3 DEF IInv
  <1>4. ASSUME NEW p \in Probes, NEW v \in Results, CheckReturns(p, v) PROVE IInv'
    <2>1. TypeOK'
      BY <1>4 DEF CheckReturns, IInv, TypeOK
    <2>2. Channel(p)' /\ Waiting(p)' /\ Earned(p)'
      BY <1>4 DEF CheckReturns, IInv, TypeOK, Channel, Waiting, Earned
    <2>3. \A q \in Probes \ {p} : Channel(q)' /\ Waiting(q)' /\ Earned(q)'
      BY <1>4, OthersKept DEF CheckReturns, IInv, TypeOK
    <2> QED  BY <2>1, <2>2, <2>3 DEF IInv
  <1>5. ASSUME NEW p \in Probes, Send(p) PROVE IInv'
    <2>0. done[p] = <<>> /\ verdict[p] \in Results
      BY <1>5 DEF Send, IInv, Channel
    <2>a. Append(done[p], verdict[p]) = <<verdict[p]>>
      BY <2>0
    <2>1. TypeOK'
      BY <1>5, <2>0, <2>a DEF Send, IInv, TypeOK
    <2>2. Channel(p)' /\ Waiting(p)' /\ Earned(p)'
      BY <1>5, <2>0, <2>a DEF Send, IInv, TypeOK, Channel, Waiting, Earned
    <2>3. \A q \in Probes \ {p} : Channel(q)' /\ Waiting(q)' /\ Earned(q)'
      BY <1>5, OthersKept DEF Send, IInv, TypeOK
    <2> QED  BY <2>1, <2>2, <2>3 DEF IInv
  <1>6. ASSUME NEW p \in Probes, Deadline(p) PROVE IInv'
    <2>1. TypeOK'
      BY <1>6 DEF Deadline, IInv, TypeOK
    <2>2. Channel(p)' /\ Waiting(p)' /\ Earned(p)'
      BY <1>6 DEF Deadline, IInv, TypeOK, Channel, Waiting, Earned
    <2>3. \A q \in Probes \ {p} : Channel(q)' /\ Waiting(q)' /\ Earned(q)'
      BY <1>6, OthersKept DEF Deadline, IInv, TypeOK
    <2> QED  BY <2>1, <2>2, <2>3 DEF IInv
  <1>7. ASSUME NEW p \in Probes, FromCheck(p) PROVE IInv'
    <2>0. done[p] = <<verdict[p]>> /\ check[p] = "exited" /\ verdict[p] \in Results
      BY <1>7 DEF FromCheck, IInv, Channel, TypeOK
    <2>a. Head(done[p]) = verdict[p] /\ Tail(done[p]) = <<>>
      BY <2>0
    <2>1. TypeOK'
      BY <1>7, <2>0, <2>a DEF FromCheck, Release, Status, IInv, TypeOK
    <2>2. Channel(p)' /\ Waiting(p)' /\ Earned(p)'
      BY <1>7, <2>0, <2>a
      DEF FromCheck, Release, Status, IInv, TypeOK, Channel, Waiting, Earned, Results
    <2>3. \A q \in Probes \ {p} : Channel(q)' /\ Waiting(q)' /\ Earned(q)'
      BY <1>7, OthersKept DEF FromCheck, Release, IInv, TypeOK
    <2> QED  BY <2>1, <2>2, <2>3 DEF IInv
  <1>8. ASSUME NEW p \in Probes, FromDeadline(p) PROVE IInv'
    <2>1. TypeOK'
      BY <1>8 DEF FromDeadline, Release, IInv, TypeOK
    <2>2. Channel(p)' /\ Waiting(p)' /\ Earned(p)'
      BY <1>8 DEF FromDeadline, DeadlineCase, Release, IInv, TypeOK, Channel, Waiting, Earned
    <2>3. \A q \in Probes \ {p} : Channel(q)' /\ Waiting(q)' /\ Earned(q)'
      BY <1>8, OthersKept DEF FromDeadline, Release, IInv, TypeOK
    <2> QED  BY <2>1, <2>2, <2>3 DEF IInv
  <1> QED
    BY <1>1, <1>2, <1>3, <1>4, <1>5, <1>6, <1>7, <1>8 DEF Next, Handler, GivesUp, Results

(* Every channel, context and answer of a probe has its type: TypeOK is    *)
(* kept with the inductive invariant, for any number of probes.            *)
THEOREM TypeCorrect == Spec => []TypeOK
  <1>1. IInv => TypeOK
    BY DEF IInv
  <1> QED  BY <1>1, InitInv, NextInv, PTL DEF Spec

(* However probes overlap and however late a check returns: 200 only for a *)
(* check that returned nil, 503 only for one that failed or ran out of its *)
(* two seconds, and no context outlives the answer.                        *)
THEOREM OnlyEarnedAnswers == Spec => []AnswerEarned
  <1>1. IInv => AnswerEarned
    BY DEF IInv, Earned, AnswerEarned
  <1> QED  BY <1>1, InitInv, NextInv, PTL DEF Spec

-----------------------------------------------------------------------------
(* A step of Mount, of a request or of a probe is a probe's step, or none. *)
LEMMA MountStep == [MountNext]_allVars => [Next]_vars
  BY DEF MountNext, Mounts, Way, Live, allVars, probeVars

(* The same of the route as it is mounted, whatever the configuration and  *)
(* the requests beside it.                                                 *)
THEOREM MountedAnswersEarned == MountSpec => []AnswerEarned
  <1>1. MountInit => Init
    BY DEF MountInit
  <1>2. MountSpec => Spec
    BY <1>1, MountStep, PTL DEF MountSpec, Spec
  <1> QED  BY <1>2, OnlyEarnedAnswers, PTL

-----------------------------------------------------------------------------
(* The server between two statements of Mount.                             *)

MutatorType == [name : {"Introspection", "noIntrospection", "complexity", "maxDepth"}, limit : Int]
Carriers    == {"SSE", "Options", "GET", "POST"}
SrvType     == [cache : Int, presenter : {"gqlgen", "PresentError", "own", "configured"},
                mutators : Seq(MutatorType), transports : Seq(Carriers)]
RouteType   == {[method |-> "ALL", path |-> Endpoint, to |-> "graphql"],
                [method |-> "GET", path |-> Path(cfg.playground, "/"), to |-> "playground"],
                [method |-> "GET", path |-> cfg.health, to |-> "health"]}
Elements(s) == {s[i] : i \in DOMAIN s}

(* The mutators as a set: what introspection has for itself, the two       *)
(* limits unless they are off, and the consumer's own.                     *)
Introspector == [name |-> IF cfg.closed THEN "noIntrospection" ELSE "Introspection", limit |-> 0]
Bounds       == {Introspector} \union Elements(Mutator("complexity", cfg.complexity, 1000))
                               \union Elements(Mutator("maxDepth", cfg.depth, 15))
SettersMutators == srv.mutators \o <<Introspector>>
                      \o Mutator("complexity", cfg.complexity, 1000)
                      \o Mutator("maxDepth", cfg.depth, 15)
OwnBound     == IF "mutator" \in cfg.configure THEN {[name |-> "complexity", limit |-> 50]} ELSE {}

DefaultCache     == IF cfg.cache >= 0 THEN Setting(cfg.cache, 1000) ELSE Off
DefaultPresenter == IF cfg.presenter = Unset THEN "PresentError" ELSE cfg.presenter
OwnTransport     == IF "transport" \in cfg.configure THEN <<"SSE">> ELSE <<>>
Transports       == IF "transport" \in cfg.configure THEN <<"SSE", "Options", "GET", "POST">>
                                                     ELSE <<"Options", "GET", "POST">>

New == srv.mutators = <<>> /\ srv.transports = <<>> /\ srv.cache = Off

Defaulted == /\ srv.cache = DefaultCache /\ srv.presenter = DefaultPresenter
             /\ srv.transports = <<>> /\ Elements(srv.mutators) = Bounds

Configured == /\ srv.cache = IF "cache" \in cfg.configure THEN 5 ELSE DefaultCache
              /\ srv.presenter = IF "presenter" \in cfg.configure THEN "configured"
                                                                  ELSE DefaultPresenter
              /\ Elements(srv.mutators) = Bounds \union OwnBound

SrvInv == /\ srv \in SrvType
          /\ step = 1 => New
          /\ step = 2 => Defaulted
          /\ step = 3 => Configured /\ srv.transports = OwnTransport
          /\ step > 3 => Configured /\ srv.transports = Transports

(* The chain: the adaptor and withFiberContext directly around the         *)
(* middleware, the timeout around all of it.                               *)
Timed  == IF Setting(cfg.timeout, 15) = Off THEN 0 ELSE 1
Ahead  == Timed + 2     \* the layers before the middleware
Many   == Len(cfg.middleware)
Inner  == cfg.middleware \o <<"gqlgen">>
Served == <<"adaptor", "fiberContext">> \o Inner

ChainInv == /\ step \in 0..4 => chain = <<"gqlgen">>
            /\ step = 5 => chain = Inner
            /\ step = 6 => chain = Served
            /\ step > 6 => chain = IF Timed = 0 THEN Served ELSE <<"timeout">> \o Served

RoutesInv == routes \in Seq(RouteType)

(* A request on its way: its contexts by the layers it has entered, what   *)
(* was seen of them, and its answer.                                       *)
Resolved == {"SSE", "GET", "POST"}
Deadlined == IF Timed = 1 THEN TRUE ELSE FALSE
UserSeen  == IF req.user # Unset THEN req.user ELSE req.locals

ContextsInv ==
    /\ at >= Timed => ctx0.fiber = [deadline |-> Deadlined, user |-> req.user]
    /\ at < Timed => ctx0.fiber = [deadline |-> FALSE, user |-> req.user]
    /\ at > Timed => ctx0.stash = [deadline |-> Deadlined, user |-> req.user]
    /\ at = Timed + 1 => ctx0.http = [deadline |-> FALSE, user |-> req.locals]
    /\ at >= Ahead => ctx0.http = [deadline |-> Deadlined, user |-> UserSeen]

SeenInv ==
    /\ at <= Ahead => seen = <<>>
    /\ at > Ahead => Len(seen) = IF at <= Ahead + Many THEN at - Ahead
                                 ELSE Many + (IF answer \in Resolved THEN 1 ELSE 0)
    /\ \A i \in DOMAIN seen :
          /\ seen[i].ctx = [deadline |-> Deadlined, user |-> UserSeen]
          /\ i <= Many => seen[i].layer = cfg.middleware[i]

Context  == [deadline : BOOLEAN, user : STRING \union {Unset}]
SeenType == [layer : {"outer", "inner", "resolver"}, ctx : Context]
CtxType  == [fiber : Context, stash : Context, http : Context]

WayInv ==
    /\ at \in 0 .. Ahead + Many + 1
    /\ seen \in Seq(SeenType) /\ ctx0 \in CtxType
    /\ req = NoRequest => at = 0 /\ seen = <<>> /\ answer = "none"
    /\ req # NoRequest => req \in Requests /\ Serving /\ ContextsInv
    /\ answer \in Resolved => at = Ahead + Many + 1
    /\ answer = "none" /\ req # NoRequest => at <= Ahead + Many
    /\ SeenInv

(* What an answer says of the request and the configuration.               *)
AnswerInv ==
    /\ answer \in Resolved =>
        /\ Allowed
        /\ answer = "SSE" <=> "transport" \in cfg.configure /\ req.method = "POST" /\ req.stream
    /\ answer \in {"complexity", "maxDepth", "noIntrospection"} => ~Allowed

MInv == /\ cfg \in Configs /\ step \in 0..8
        /\ readTimeout = resolveTimeout(cfg.fiberRead, cfg.read, 10)
        /\ SrvInv /\ ChainInv /\ RoutesInv /\ WayInv /\ AnswerInv

-----------------------------------------------------------------------------
(* Every set of numbers that is not empty has a least one.                 *)
LEMMA Least ==
    ASSUME NEW S \in SUBSET Nat, S # {}
    PROVE  First(S) \in S /\ \A j \in S : First(S) <= j
  <1> DEFINE R == OpToRel(<, Nat)
  <1>1. IsWellFoundedOn(R, Nat)
    BY NatLessThanWellFounded
  <1>2. PICK i \in S : \A j \in S : ~(<<j, i>> \in R)
    BY <1>1, WFMin
  <1>3. \A j \in S : ~(j < i)
    BY <1>2 DEF OpToRel
  <1>4. \E i1 \in S : \A j \in S : i1 <= j
    BY <1>3
  <1> QED  BY <1>4 DEF First

(* Where the entries of two sequences are, put together.                   *)
Joined(u, s, t) == /\ Len(u) = Len(s) + Len(t)
                   /\ \A i \in 1..Len(s) : u[i] = s[i]
                   /\ \A i \in 1..Len(t) : u[Len(s) + i] = t[i]
LEMMA Concat ==
    ASSUME NEW S, NEW s \in Seq(S), NEW t \in Seq(S)
    PROVE  s \o t \in Seq(S) /\ Joined(s \o t, s, t)
  <1>1. Len(s) \in Nat /\ Len(t) \in Nat
    BY LenProperties
  <1>2. /\ s \o t \in Seq(S) /\ Len(s \o t) = Len(s) + Len(t)
        /\ \A i \in 1 .. Len(s) + Len(t) :
              (s \o t)[i] = IF i <= Len(s) THEN s[i] ELSE t[i - Len(s)]
    BY ConcatProperties
  <1>3. ASSUME NEW i \in 1..Len(s) PROVE (s \o t)[i] = s[i]
    BY <1>1, <1>2
  <1>4. ASSUME NEW i \in 1..Len(t) PROVE (s \o t)[Len(s) + i] = t[i]
    <2>1. Len(s) + i \in 1 .. Len(s) + Len(t) /\ ~(Len(s) + i <= Len(s)) /\ (Len(s) + i) - Len(s) = i
      BY <1>1
    <2> QED  BY <1>2, <2>1
  <1> QED  BY <1>2, <1>3, <1>4 DEF Joined

(* What a sequence holds when another is added to it.                      *)
LEMMA ElementsConcat ==
    ASSUME NEW S, NEW s \in Seq(S), NEW t \in Seq(S)
    PROVE  Elements(s \o t) = Elements(s) \union Elements(t)
  <1>1. /\ Len(s) \in Nat /\ Len(t) \in Nat
        /\ DOMAIN s = 1 .. Len(s) /\ DOMAIN t = 1 .. Len(t)
    BY LenProperties
  <1>2. /\ DOMAIN (s \o t) = 1 .. (Len(s) + Len(t))
        /\ \A i \in 1 .. (Len(s) + Len(t)) :
              (s \o t)[i] = IF i <= Len(s) THEN s[i] ELSE t[i - Len(s)]
    BY ConcatProperties, LenProperties
  <1>3. \A i \in DOMAIN s : (s \o t)[i] = s[i] /\ i \in DOMAIN (s \o t)
    BY <1>1, <1>2
  <1>4. \A i \in DOMAIN t : (s \o t)[i + Len(s)] = t[i] /\ i + Len(s) \in DOMAIN (s \o t)
    BY <1>1, <1>2
  <1>5. \A i \in DOMAIN (s \o t) : (s \o t)[i] \in Elements(s) \union Elements(t)
    BY <1>1, <1>2 DEF Elements
  <1> DEFINE u == s \o t
  <1>6. /\ \A i \in DOMAIN s : u[i] = s[i] /\ i \in DOMAIN u
        /\ \A i \in DOMAIN t : u[i + Len(s)] = t[i] /\ i + Len(s) \in DOMAIN u
        /\ \A i \in DOMAIN u : u[i] \in Elements(s) \union Elements(t)
    BY <1>3, <1>4, <1>5
  <1> HIDE DEF u
  <1>7. Elements(u) \subseteq Elements(s) \union Elements(t)
    BY <1>6 DEF Elements
  <1>8. Elements(s) \subseteq Elements(u) /\ Elements(t) \subseteq Elements(u)
    BY <1>6 DEF Elements
  <1> QED  BY <1>7, <1>8 DEF u

(* One entry ahead of a sequence.                                          *)
LEMMA Prefixed ==
    ASSUME NEW S, NEW s \in Seq(S), NEW t \in Seq(S), NEW u \in Seq(S), Len(s) = 1,
           Len(u) = Len(t) + 1, u[1] = s[1], \A i \in 1..Len(t) : u[i + 1] = t[i]
    PROVE  s \o t = u
  <1>1. s \o t \in Seq(S) /\ Len(s \o t) = Len(u) /\ Len(t) \in Nat
    BY ConcatProperties, LenProperties
  <1>2. \A i \in 1..Len(u) : (s \o t)[i] = u[i]
    <2> TAKE i \in 1..Len(u)
    <2>0. i \in 1 .. Len(s) + Len(t) /\ i \in Int /\ Len(t) \in Nat
      BY <1>1
    <2>1. (s \o t)[i] = IF i <= Len(s) THEN s[i] ELSE t[i - Len(s)]
      BY <2>0, ConcatProperties
    <2>2. CASE i = 1
      BY <2>1, <2>2
    <2>3. CASE i # 1
      <3>1. i - 1 \in 1..Len(t) /\ ~(i <= Len(s)) /\ i - Len(s) = i - 1 /\ (i - 1) + 1 = i
        BY <2>0, <2>3
      <3>2. u[(i - 1) + 1] = t[i - 1]
        BY <3>1
      <3> QED  BY <2>1, <3>1, <3>2
    <2> QED  BY <2>2, <2>3
  <1>3. Len(s \o t) = Len(u) /\ \A i \in 1..Len(s \o t) : (s \o t)[i] = u[i]
    BY <1>1, <1>2
  <1> QED  BY <1>1, <1>3, SeqEqual

(* Which statement is at which place.                                      *)
LEMMA Places ==
    /\ At("setters") => step = 1
    /\ At("configure") => step = 2
    /\ At("transports") => step = 3
    /\ At("wrap") => step = 4
    /\ At("adapt") => step = 5
    /\ At("timeout") => step = 6
    /\ At("register") => step = 7
    /\ Serving <=> step = 8
  BY DEF At, Serving, Statements

LEMMA ConfigTyped == ASSUME cfg \in Configs PROVE cfg \in Config
  BY MountConstants

(* While nothing is served, nothing of a request is there to change.       *)
LEMMA WayKept ==
    ASSUME WayInv, AnswerInv, cfg' = cfg, UNCHANGED wayVars,
           req = NoRequest \/ step' = step
    PROVE  WayInv' /\ AnswerInv'
  <1>1. AnswerInv'
    BY DEF AnswerInv, wayVars, Allowed, Within, Given, Resolved
  <1>2. WayInv'
    BY DEF WayInv, wayVars, ContextsInv, SeenInv, Timed, Ahead, Many, Setting, Deadlined,
           UserSeen, Resolved, Serving
  <1> QED  BY <1>1, <1>2

(* What the setters add, onto a server that has none.                      *)
LEMMA SettersAdd ==
    ASSUME cfg \in Configs, srv.mutators = <<>>
    PROVE  /\ SettersMutators \in Seq(MutatorType)
           /\ Elements(SettersMutators) = Bounds
  <1> DEFINE i == <<Introspector>>
             c == Mutator("complexity", cfg.complexity, 1000)
             d == Mutator("maxDepth", cfg.depth, 15)
  <1>a. cfg.complexity \in Int /\ cfg.depth \in Int
    BY ConfigTyped DEF Config
  <1>1. c \in Seq(MutatorType) /\ d \in Seq(MutatorType)
    <2>1. Setting(cfg.complexity, 1000) \in Int /\ Setting(cfg.depth, 15) \in Int
      BY <1>a DEF Setting, Off
    <2>2. /\ [name |-> "complexity", limit |-> Setting(cfg.complexity, 1000)] \in MutatorType
          /\ [name |-> "maxDepth", limit |-> Setting(cfg.depth, 15)] \in MutatorType
      BY <2>1 DEF MutatorType
    <2>3. <<>> \in Seq(MutatorType)
      BY EmptySeq
    <2> QED  BY <2>2, <2>3 DEF c, d, Mutator
  <1>2. i \in Seq(MutatorType) /\ srv.mutators \in Seq(MutatorType)
    BY DEF Introspector, MutatorType
  <1>4. Elements(i) = {Introspector}
    BY DEF Elements
  <1> HIDE DEF i, c, d
  <1>3. srv.mutators \o i = i
    BY <1>2, ConcatEmptySeq
  <1>5. i \o c \in Seq(MutatorType) /\ Elements(i \o c) = Elements(i) \union Elements(c)
    BY <1>1, <1>2, ElementsConcat, ConcatProperties
  <1>6. /\ (i \o c) \o d \in Seq(MutatorType)
        /\ Elements((i \o c) \o d) = Elements(i \o c) \union Elements(d)
    <2> DEFINE ic == i \o c
    <2>1. ic \in Seq(MutatorType)
      BY <1>5
    <2> HIDE DEF ic
    <2>2. ic \o d \in Seq(MutatorType) /\ Elements(ic \o d) = Elements(ic) \union Elements(d)
      BY <1>1, <2>1, ElementsConcat, ConcatProperties
    <2> QED  BY <2>2 DEF ic
  <1>7. Bounds = {Introspector} \union Elements(c) \union Elements(d)
    BY DEF Bounds, c, d
  <1>8. (srv.mutators \o i) \o c = i \o c
    BY <1>3
  <1> QED  BY <1>4, <1>5, <1>6, <1>7, <1>8 DEF i, c, d, SettersMutators

LEMMA MInvInit == MountInit => MInv
  <1> SUFFICES ASSUME MountInit PROVE MInv
    OBVIOUS
  <1>1. SrvInv
    <2>1. <<>> \in Seq(MutatorType) /\ <<>> \in Seq(Carriers)
      BY EmptySeq
    <2>2. /\ srv = [cache |-> Off, presenter |-> "gqlgen", mutators |-> <<>>, transports |-> <<>>]
          /\ step = 1 /\ Off \in Int
      BY DEF MountInit, Off
    <2>3. srv \in SrvType
      BY <2>1, <2>2 DEF SrvType
    <2>4. New
      BY <2>2 DEF New
    <2> QED  BY <2>2, <2>3, <2>4 DEF SrvInv
  <1>2. ChainInv /\ RoutesInv
    BY EmptySeq DEF MountInit, ChainInv, RoutesInv
  <1>3. cfg \in Config
    BY ConfigTyped DEF MountInit
  <1>4. Timed \in {0, 1} /\ Ahead \in {2, 3} /\ Many \in Nat
    BY <1>3, LenProperties DEF Timed, Ahead, Many, Config
  <1>5. seen \in Seq(SeenType) /\ DOMAIN seen = {}
    BY EmptySeq DEF MountInit
  <1>6. ctx0 \in CtxType
    BY DEF MountInit, CtxType, Context
  <1>7. WayInv /\ AnswerInv
    BY <1>4, <1>5, <1>6 DEF MountInit, WayInv, SeenInv, AnswerInv, Resolved
  <1> QED  BY <1>1, <1>2, <1>7 DEF MInv, MountInit

(* The three statements that change the server, each leaving what the next *)
(* one finds.                                                              *)
LEMMA SettersKeep ==
    ASSUME MInv, Setters
    PROVE  step = 1 /\ step' = 2 /\ srv' \in SrvType /\ Defaulted'
  <1>1. step = 1 /\ step' = 2 /\ cfg' = cfg /\ cfg \in Configs /\ cfg \in Config
    BY Places, ConfigTyped DEF Setters, MInv, Goes
  <1>2. srv \in SrvType /\ srv.mutators = <<>> /\ srv.transports = <<>> /\ srv.cache = Off
    BY <1>1 DEF MInv, SrvInv, New
  <1>3. SettersMutators \in Seq(MutatorType) /\ Elements(SettersMutators) = Bounds
    BY <1>1, <1>2, SettersAdd
  <1>4. srv' = [srv EXCEPT !.cache = IF cfg.cache >= 0 THEN Setting(cfg.cache, 1000) ELSE srv.cache,
                           !.mutators = SettersMutators,
                           !.presenter = DefaultPresenter]
    BY DEF Setters, DefaultPresenter, Introspector, SettersMutators
  <1>5. srv' = [cache |-> DefaultCache, presenter |-> DefaultPresenter,
                mutators |-> SettersMutators, transports |-> <<>>]
    <2>1. (IF cfg.cache >= 0 THEN Setting(cfg.cache, 1000) ELSE srv.cache) = DefaultCache
      BY <1>2 DEF DefaultCache
    <2>2. srv' = [srv EXCEPT !.cache = DefaultCache, !.mutators = SettersMutators,
                             !.presenter = DefaultPresenter]
      BY <1>4, <2>1
    <2>3. srv \in SrvType /\ srv.transports = <<>>
      BY <1>2
    <2> QED  BY <2>2, <2>3 DEF SrvType
  <1>6. DefaultCache \in Int /\ DefaultPresenter \in {"PresentError", "own"}
    BY <1>1 DEF DefaultCache, DefaultPresenter, Config, Setting, Off
  <1>7. srv' \in SrvType
    BY <1>3, <1>5, <1>6, EmptySeq DEF SrvType
  <1>8. Bounds' = Bounds /\ DefaultCache' = DefaultCache /\ DefaultPresenter' = DefaultPresenter
    BY <1>1 DEF Bounds, DefaultCache, DefaultPresenter, Introspector
  <1> QED  BY <1>1, <1>3, <1>5, <1>7, <1>8 DEF Defaulted

LEMMA TransportsTyped == OwnTransport \in Seq(Carriers) /\ Transports \in Seq(Carriers)
  <1>1. CASE "transport" \in cfg.configure
    BY <1>1 DEF OwnTransport, Transports, Carriers
  <1>2. CASE "transport" \notin cfg.configure
    BY <1>2, EmptySeq DEF OwnTransport, Transports, Carriers
  <1> QED  BY <1>1, <1>2

LEMMA ConfigureKeeps ==
    ASSUME MInv, Configure
    PROVE  step = 2 /\ step' = 3 /\ srv' \in SrvType /\ Configured'
           /\ srv'.transports = OwnTransport
  <1>1. step = 2 /\ step' = 3 /\ cfg' = cfg /\ cfg \in Configs /\ cfg \in Config
    BY Places, ConfigTyped DEF Configure, MInv, Goes
  <1>2. srv \in SrvType /\ Defaulted
    BY <1>1 DEF MInv, SrvInv
  <1> DEFINE own == IF "mutator" \in cfg.configure
                    THEN <<[name |-> "complexity", limit |-> 50]>> ELSE <<>>
  <1>3. own \in Seq(MutatorType)
    <2>1. [name |-> "complexity", limit |-> 50] \in MutatorType
      BY DEF MutatorType
    <2>2. CASE "mutator" \in cfg.configure
      BY <2>1, <2>2
    <2>3. CASE "mutator" \notin cfg.configure
      BY <2>3, EmptySeq
    <2> QED  BY <2>2, <2>3
  <1>4. Elements(own) = OwnBound
    BY DEF Elements, OwnBound
  <1>5. srv' = [cache      |-> IF "cache" \in cfg.configure THEN 5 ELSE srv.cache,
                presenter  |-> IF "presenter" \in cfg.configure THEN "configured" ELSE srv.presenter,
                mutators   |-> srv.mutators \o own,
                transports |-> srv.transports \o OwnTransport]
    BY DEF Configure, OwnTransport
  <1> HIDE DEF own
  <1>6. srv.mutators \in Seq(MutatorType) /\ Elements(srv.mutators) = Bounds
    BY <1>2 DEF SrvType, Defaulted
  <1>7. /\ srv.mutators \o own \in Seq(MutatorType)
        /\ Elements(srv.mutators \o own) = Bounds \union OwnBound
    BY <1>3, <1>4, <1>6, ElementsConcat, ConcatProperties
  <1>8. OwnTransport \in Seq(Carriers) /\ srv.transports \o OwnTransport = OwnTransport
    <2>1. OwnTransport \in Seq(Carriers)
      BY TransportsTyped
    <2> QED  BY <1>2, <2>1, ConcatEmptySeq DEF Defaulted
  <1>9. srv' \in SrvType
    BY <1>2, <1>5, <1>7, <1>8 DEF SrvType
  <1>10. Bounds' = Bounds /\ OwnBound' = OwnBound /\ DefaultCache' = DefaultCache
         /\ DefaultPresenter' = DefaultPresenter
    BY <1>1 DEF Bounds, OwnBound, DefaultCache, DefaultPresenter, Introspector
  <1>11. Configured'
    BY <1>1, <1>2, <1>5, <1>7, <1>10 DEF Configured, Defaulted
  <1> QED  BY <1>1, <1>5, <1>8, <1>9, <1>11

LEMMA TransportsKeep ==
    ASSUME MInv, AddTransports
    PROVE  step = 3 /\ step' = 4 /\ srv' \in SrvType /\ Configured'
           /\ srv'.transports = Transports
  <1>1. step = 3 /\ step' = 4 /\ cfg' = cfg
    BY Places DEF AddTransports, MInv, Goes
  <1>2. srv \in SrvType /\ Configured /\ srv.transports = OwnTransport
    BY <1>1 DEF MInv, SrvInv
  <1>3. OwnTransport \o <<"Options", "GET", "POST">> = Transports
    <2> DEFINE three == <<"Options", "GET", "POST">>
               four  == <<"SSE", "Options", "GET", "POST">>
    <2>1. three \in Seq(Carriers) /\ four \in Seq(Carriers) /\ <<"SSE">> \in Seq(Carriers)
      BY DEF Carriers
    <2>2. CASE "transport" \in cfg.configure
      <3>1. /\ Len(<<"SSE">>) = 1 /\ Len(four) = Len(three) + 1 /\ four[1] = <<"SSE">>[1]
            /\ \A i \in 1..Len(three) : four[i + 1] = three[i]
        OBVIOUS
      <3>2. <<"SSE">> \o three = four
        BY <2>1, <3>1, Prefixed
      <3> QED  BY <2>2, <3>2 DEF OwnTransport, Transports
    <2>3. CASE "transport" \notin cfg.configure
      <3>1. <<>> \o three = three
        BY <2>1, ConcatEmptySeq
      <3> QED  BY <2>3, <3>1 DEF OwnTransport, Transports
    <2> QED  BY <2>2, <2>3
  <1>4. Transports \in Seq(Carriers)
    BY TransportsTyped
  <1>5. srv' = [srv EXCEPT !.transports = Transports]
    BY <1>2, <1>3 DEF AddTransports
  <1>6. Bounds' = Bounds /\ OwnBound' = OwnBound /\ DefaultCache' = DefaultCache
         /\ DefaultPresenter' = DefaultPresenter
    BY <1>1 DEF Bounds, OwnBound, DefaultCache, DefaultPresenter, Introspector
  <1>7. Configured'
    BY <1>1, <1>2, <1>5, <1>6 DEF Configured, SrvType
  <1>8. srv' \in SrvType /\ srv'.transports = Transports
    BY <1>2, <1>4, <1>5 DEF SrvType
  <1> QED  BY <1>1, <1>7, <1>8

(* Each statement of Mount leaves what the next one finds.                 *)
LEMMA MountsKeep ==
    ASSUME MInv, Mounts
    PROVE  MInv'
  <1>1. cfg \in Configs /\ cfg \in Config /\ cfg' = cfg /\ step \in 0..8
        /\ readTimeout' = readTimeout /\ UNCHANGED wayVars
    BY ConfigTyped DEF MInv, Mounts, NilSchema, Setters, Configure, AddTransports, Wrap, Adapt,
                       TimeoutNew, Register
  <1>2. /\ srv \in SrvType /\ SrvInv /\ ChainInv /\ RoutesInv /\ WayInv /\ AnswerInv
        /\ readTimeout = resolveTimeout(cfg.fiberRead, cfg.read, 10)
    BY DEF MInv, SrvInv
  <1>3. readTimeout' = resolveTimeout(cfg'.fiberRead, cfg'.read, 10)
    BY <1>1, <1>2
  <1>4. /\ Bounds' = Bounds /\ OwnBound' = OwnBound /\ DefaultCache' = DefaultCache
        /\ DefaultPresenter' = DefaultPresenter /\ OwnTransport' = OwnTransport
        /\ Transports' = Transports /\ Timed' = Timed /\ Inner' = Inner /\ Served' = Served
        /\ RouteType' = RouteType
    BY <1>1 DEF Bounds, OwnBound, DefaultCache, DefaultPresenter, OwnTransport, Transports,
                Timed, Inner, Served, Introspector, RouteType, Endpoint
  <1>5. /\ srv' = srv => (Defaulted' <=> Defaulted) /\ (Configured' <=> Configured)
        /\ routes' = routes => RoutesInv'
    BY <1>1, <1>2, <1>4 DEF Defaulted, Configured, RoutesInv
  (* What is left to show of a statement at its place.                     *)
  <1>6. ASSUME step \in 1..7, step' \in 0..8, SrvInv', ChainInv', RoutesInv'
        PROVE  MInv'
    <2>1. req = NoRequest
      BY <1>2, <1>6, Places DEF WayInv
    <2>2. WayInv' /\ AnswerInv'
      BY <1>1, <1>2, <2>1, WayKept
    <2> QED  BY <1>1, <1>3, <1>6, <2>2 DEF MInv
  <1>7. CASE NilSchema
    <2>1. step = 1 /\ step' = 0 /\ srv' = srv /\ chain' = chain /\ routes' = routes
      BY <1>7 DEF NilSchema
    <2>2. SrvInv' /\ ChainInv' /\ RoutesInv'
      BY <1>2, <1>5, <2>1 DEF SrvInv, ChainInv
    <2> QED  BY <1>6, <2>1, <2>2
  <1>8. CASE Setters
    <2>1. step = 1 /\ step' = 2 /\ srv' \in SrvType /\ Defaulted'
      BY <1>8, SettersKeep
    <2>2. chain' = chain /\ routes' = routes
      BY <1>8 DEF Setters
    <2>3. SrvInv' /\ ChainInv' /\ RoutesInv'
      BY <1>2, <1>5, <2>1, <2>2 DEF SrvInv, ChainInv
    <2> QED  BY <1>6, <2>1, <2>3
  <1>9. CASE Configure
    <2>1. step = 2 /\ step' = 3 /\ srv' \in SrvType /\ Configured' /\ srv'.transports = OwnTransport
      BY <1>9, ConfigureKeeps
    <2>2. chain' = chain /\ routes' = routes
      BY <1>9 DEF Configure
    <2>3. SrvInv' /\ ChainInv' /\ RoutesInv'
      BY <1>2, <1>4, <1>5, <2>1, <2>2 DEF SrvInv, ChainInv
    <2> QED  BY <1>6, <2>1, <2>3
  <1>10. CASE AddTransports
    <2>1. step = 3 /\ step' = 4 /\ srv' \in SrvType /\ Configured' /\ srv'.transports = Transports
      BY <1>10, TransportsKeep
    <2>2. chain' = chain /\ routes' = routes
      BY <1>10 DEF AddTransports
    <2>3. SrvInv' /\ ChainInv' /\ RoutesInv'
      BY <1>2, <1>4, <1>5, <2>1, <2>2 DEF SrvInv, ChainInv
    <2> QED  BY <1>6, <2>1, <2>3
  <1>11. CASE Wrap
    <2>1. step = 4 /\ step' = 5 /\ srv' = srv /\ routes' = routes
      BY <1>11, Places DEF Wrap, Goes
    <2>2. chain' = Inner
      <3>1. chain = <<"gqlgen">>
        BY <1>2, <2>1 DEF ChainInv
      <3>2. chain' = cfg.middleware \o chain
        BY <1>11 DEF Wrap, Wrapped
      <3> QED  BY <3>1, <3>2 DEF Inner
    <2>3. SrvInv' /\ ChainInv' /\ RoutesInv'
      BY <1>2, <1>4, <1>5, <2>1, <2>2 DEF SrvInv, ChainInv
    <2> QED  BY <1>6, <2>1, <2>3
  <1>12. CASE Adapt
    <2>1. step = 5 /\ step' = 6 /\ srv' = srv /\ routes' = routes
      BY <1>12, Places DEF Adapt, Goes
    <2>2. chain' = Served
      BY <1>2, <1>12, <2>1 DEF Adapt, Adaptor, Served, ChainInv
    <2>3. SrvInv' /\ ChainInv' /\ RoutesInv'
      BY <1>2, <1>4, <1>5, <2>1, <2>2 DEF SrvInv, ChainInv
    <2> QED  BY <1>6, <2>1, <2>3
  <1>13. CASE TimeoutNew
    <2>1. step = 6 /\ step' = 7 /\ srv' = srv /\ routes' = routes
      BY <1>13, Places DEF TimeoutNew, Goes
    <2>2. chain' = IF Timed = 0 THEN Served ELSE <<"timeout">> \o Served
      BY <1>2, <1>13, <2>1 DEF TimeoutNew, Timed, ChainInv
    <2>3. SrvInv' /\ ChainInv' /\ RoutesInv'
      BY <1>2, <1>4, <1>5, <2>1, <2>2 DEF SrvInv, ChainInv
    <2> QED  BY <1>6, <2>1, <2>3
  <1>14. CASE Register
    <2>1. step = 7 /\ step' = 8 /\ srv' = srv /\ chain' = chain
      BY <1>14, Places DEF Register, Goes
    <2>2. RoutesInv'
      <3> DEFINE a == <<[method |-> "ALL", path |-> Endpoint, to |-> "graphql"]>>
                 b == IF cfg.playground = "off" THEN <<>>
                      ELSE <<[method |-> "GET", path |-> Path(cfg.playground, "/"), to |-> "playground"]>>
                 c == IF cfg.health = Unset THEN <<>>
                      ELSE <<[method |-> "GET", path |-> cfg.health, to |-> "health"]>>
      <3>1. a \in Seq(RouteType)
        BY DEF RouteType
      <3>2. b \in Seq(RouteType)
        <4>1. CASE cfg.playground = "off"
          BY <4>1, EmptySeq
        <4>2. CASE cfg.playground # "off"
          BY <4>2 DEF RouteType
        <4> QED  BY <4>1, <4>2
      <3>3. c \in Seq(RouteType)
        <4>1. CASE cfg.health = Unset
          BY <4>1, EmptySeq
        <4>2. CASE cfg.health # Unset
          BY <4>2 DEF RouteType
        <4> QED  BY <4>1, <4>2
      <3>4. routes' = (a \o b) \o c
        BY <1>14 DEF Register
      <3> HIDE DEF a, b, c
      <3>5. a \o b \in Seq(RouteType)
        BY <3>1, <3>2, ConcatProperties
      <3> DEFINE ab == a \o b
      <3>6. ab \in Seq(RouteType) /\ routes' = ab \o c
        BY <3>4, <3>5
      <3> HIDE DEF ab
      <3>7. routes' \in Seq(RouteType)
        BY <3>3, <3>6, ConcatProperties
      <3> QED  BY <1>4, <3>7 DEF RoutesInv
    <2>3. SrvInv' /\ ChainInv'
      BY <1>2, <1>4, <1>5, <2>1 DEF SrvInv, ChainInv
    <2> QED  BY <1>6, <2>1, <2>2, <2>3
  <1> QED
    BY <1>7, <1>8, <1>9, <1>10, <1>11, <1>12, <1>13, <1>14 DEF Mounts

-----------------------------------------------------------------------------
(* The finished chain, layer by layer.                                     *)
LEMMA Layers ==
    ASSUME cfg \in Configs, ChainInv, step = 8
    PROVE  /\ Timed \in {0, 1} /\ Many \in Nat
           /\ Len(chain) = Ahead + Many + 1
           /\ Timed = 1 => chain[1] = "timeout"
           /\ chain[Timed + 1] = "adaptor" /\ chain[Timed + 2] = "fiberContext"
           /\ \A i \in 1..Many :
                 chain[Ahead + i] = cfg.middleware[i] /\ cfg.middleware[i] \in {"outer", "inner"}
           /\ chain[Ahead + Many + 1] = "gqlgen"
  <1> DEFINE L  == {"timeout", "adaptor", "fiberContext", "outer", "inner", "gqlgen"}
             m  == cfg.middleware
             g  == <<"gqlgen">>
             af == <<"adaptor", "fiberContext">>
             t  == <<"timeout">>
  <1>1. m \in Seq({"outer", "inner"})
    BY ConfigTyped DEF Config
  <1>2. Timed \in {0, 1}
    BY DEF Timed
  <1>3. m \in Seq(L) /\ Len(m) \in Nat /\ \A i \in 1..Len(m) : m[i] \in {"outer", "inner"}
    BY <1>1, SeqMonotonic, LenProperties, ElementOfSeq
  <1>4. g \in Seq(L) /\ Len(g) = 1 /\ g[1] = "gqlgen"
    OBVIOUS
  <1>5. af \in Seq(L) /\ Len(af) = 2 /\ af[1] = "adaptor" /\ af[2] = "fiberContext"
    OBVIOUS
  <1>6. t \in Seq(L) /\ Len(t) = 1 /\ t[1] = "timeout"
    OBVIOUS
  <1>7. Inner = m \o g /\ Served = af \o Inner
    BY DEF Inner, Served
  <1>8. chain = IF Timed = 0 THEN Served ELSE t \o Served
    BY DEF ChainInv
  <1> HIDE DEF L, m, g, af, t
  <1>9. /\ Inner \in Seq(L) /\ Len(Inner) = Len(m) + 1
        /\ \A i \in 1..Len(m) : Inner[i] = m[i]
        /\ Inner[Len(m) + 1] = "gqlgen"
    <2>1. Inner \in Seq(L) /\ Joined(Inner, m, g)
      BY <1>3, <1>4, <1>7, Concat
    <2> QED  BY <1>3, <1>4, <2>1 DEF Joined
  <1>10. /\ Served \in Seq(L) /\ Len(Served) = Len(m) + 3
         /\ Served[1] = "adaptor" /\ Served[2] = "fiberContext"
         /\ \A i \in 1..(Len(m) + 1) : Served[2 + i] = Inner[i]
    <2>1. Served \in Seq(L) /\ Joined(Served, af, Inner)
      BY <1>5, <1>7, <1>9, Concat
    <2> QED  BY <1>3, <1>5, <1>9, <2>1 DEF Joined
  <1> DEFINE ts == t \o Served
  <1>11. /\ Len(ts) = Len(m) + 4 /\ ts[1] = "timeout"
         /\ \A i \in 1..(Len(m) + 3) : ts[1 + i] = Served[i]
    <2>1. ts \in Seq(L) /\ Joined(ts, t, Served)
      BY <1>6, <1>10, Concat
    <2> HIDE DEF ts
    <2> QED  BY <1>3, <1>6, <1>10, <2>1 DEF Joined
  <1>a. chain = IF Timed = 0 THEN Served ELSE ts
    BY <1>8
  <1> HIDE DEF ts
  <1>12. CASE Timed = 0
    <2>1. chain = Served /\ Ahead = 2 /\ Timed + 1 = 1 /\ Timed + 2 = 2
      BY <1>a, <1>12 DEF Ahead
    <2>2. \A i \in 1..Len(m) : chain[2 + i] = m[i]
      BY <1>3, <1>9, <1>10, <2>1
    <2>3. chain[2 + Len(m) + 1] = "gqlgen"
      BY <1>3, <1>9, <1>10, <2>1
    <2> QED  BY <1>2, <1>3, <1>10, <1>12, <2>1, <2>2, <2>3 DEF m, Many
  <1>13. CASE Timed = 1
    <2>1. chain = ts /\ Ahead = 3 /\ Timed + 1 = 2 /\ Timed + 2 = 3
      BY <1>a, <1>13 DEF Ahead
    <2>2. ASSUME NEW i \in 1..(Len(m) + 1) PROVE chain[3 + i] = Inner[i]
      <3>1. 2 + i \in 1..(Len(m) + 3) /\ 1 + (2 + i) = 3 + i
        BY <1>3
      <3> QED  BY <1>10, <1>11, <2>1, <3>1
    <2>3. \A i \in 1..Len(m) : chain[3 + i] = m[i]
      BY <1>3, <1>9, <2>2
    <2>4. chain[3 + Len(m) + 1] = "gqlgen"
      <3>1. Len(m) + 1 \in 1..(Len(m) + 1) /\ 3 + (Len(m) + 1) = 3 + Len(m) + 1
        BY <1>3
      <3> QED  BY <1>9, <2>2, <3>1
    <2>5. chain[1] = "timeout" /\ chain[2] = "adaptor" /\ chain[3] = "fiberContext"
      <3>1. ts[1 + 1] = Served[1] /\ ts[1 + 2] = Served[2]
        BY <1>3, <1>11
      <3> QED  BY <1>10, <1>11, <2>1, <3>1
    <2>6. Len(chain) = 3 + Len(m) + 1
      BY <1>3, <1>11, <2>1
    <2> QED  BY <1>2, <1>3, <1>13, <2>1, <2>3, <2>4, <2>5, <2>6 DEF m, Many
  <1> QED  BY <1>2, <1>12, <1>13

(* Which layer is entered says where the request is.                       *)
LEMMA WhichLayer ==
    ASSUME cfg \in Configs, ChainInv, step = 8, at \in 0 .. Ahead + Many
    PROVE  /\ Timed \in {0, 1} /\ Many \in Nat
           /\ chain[at + 1] = "timeout" => Timed = 1 /\ at = 0
           /\ chain[at + 1] = "adaptor" => at = Timed
           /\ chain[at + 1] = "fiberContext" => at = Timed + 1
           /\ chain[at + 1] \in {"outer", "inner"} =>
                 /\ at \in Ahead .. Ahead + Many - 1
                 /\ cfg.middleware[at - Ahead + 1] = chain[at + 1]
           /\ chain[at + 1] = "gqlgen" => at = Ahead + Many
  <1>1. /\ Timed \in {0, 1} /\ Many \in Nat
        /\ Timed = 1 => chain[1] = "timeout"
        /\ chain[Timed + 1] = "adaptor" /\ chain[Timed + 2] = "fiberContext"
        /\ \A i \in 1..Many :
              chain[Ahead + i] = cfg.middleware[i] /\ cfg.middleware[i] \in {"outer", "inner"}
        /\ chain[Ahead + Many + 1] = "gqlgen"
    BY Layers
  <1>2. at \in 0 .. Ahead + Many
    OBVIOUS
  <1>3. CASE at < Timed
    <2>1. Timed = 1 /\ at = 0 /\ chain[at + 1] = "timeout"
      BY <1>1, <1>2, <1>3 DEF Ahead
    <2> QED  BY <1>1, <2>1
  <1>4. CASE at = Timed
    <2>1. chain[at + 1] = "adaptor"
      BY <1>1, <1>4
    <2> QED  BY <1>1, <1>4, <2>1
  <1>5. CASE at = Timed + 1
    <2>1. at + 1 = Timed + 2
      BY <1>1, <1>5
    <2>2. chain[at + 1] = "fiberContext"
      BY <1>1, <2>1
    <2> QED  BY <1>1, <1>5, <2>2
  <1>6. CASE at \in Ahead .. Ahead + Many - 1
    <2> DEFINE i == at - Ahead + 1
    <2>1. i \in 1..Many /\ Ahead + i = at + 1
      BY <1>1, <1>2, <1>6 DEF Ahead
    <2>2. chain[at + 1] = cfg.middleware[i] /\ cfg.middleware[i] \in {"outer", "inner"}
      <3> HIDE DEF i
      <3> QED  BY <1>1, <2>1
    <2> QED  BY <1>1, <1>6, <2>2
  <1>7. CASE at = Ahead + Many
    <2>1. at + 1 = Ahead + Many + 1
      BY <1>7
    <2>2. chain[at + 1] = "gqlgen"
      BY <1>1, <2>1
    <2> QED  BY <1>1, <1>7, <2>2
  <1>8. at < Timed \/ at = Timed \/ at = Timed + 1 \/ at \in Ahead .. Ahead + Many - 1 \/ at = Ahead + Many
    BY <1>1, <1>2 DEF Ahead
  <1> QED  BY <1>3, <1>4, <1>5, <1>6, <1>7, <1>8

(* A request's step leaves what Mount has built.                           *)
LEMMA BuiltKept ==
    ASSUME MInv, UNCHANGED mountVars, WayInv', AnswerInv'
    PROVE  MInv'
  <1>1. /\ cfg' = cfg /\ step' = step /\ readTimeout' = readTimeout
        /\ srv' = srv /\ chain' = chain /\ routes' = routes
    BY DEF mountVars
  <1>2. SrvInv'
    BY <1>1 DEF MInv, SrvInv, New, Defaulted, Configured, Bounds, OwnBound, DefaultCache,
                DefaultPresenter, OwnTransport, Transports, Introspector
  <1>3. ChainInv' /\ RoutesInv'
    BY <1>1 DEF MInv, ChainInv, RoutesInv, Timed, Inner, Served, RouteType, Endpoint
  <1> QED  BY <1>1, <1>2, <1>3 DEF MInv

(* Where a request is routed to.                                           *)
LEMMA RouteKnown ==
    ASSUME RoutesInv, NEW method, NEW path
    PROVE  RouteTo(method, path) \in {"404", "graphql", "playground", "health"}
  <1>1. CASE Matching(method, path) = {}
    BY <1>1 DEF RouteTo
  <1>2. CASE Matching(method, path) # {}
    <2>1. DOMAIN routes = 1..Len(routes) /\ Len(routes) \in Nat
      BY LenProperties DEF RoutesInv
    <2>2. Matching(method, path) \in SUBSET Nat
      BY <2>1 DEF Matching
    <2>3. First(Matching(method, path)) \in Matching(method, path)
      BY <1>2, <2>2, Least
    <2>4. First(Matching(method, path)) \in 1..Len(routes)
      BY <2>1, <2>3 DEF Matching
    <2>5. routes[First(Matching(method, path))] \in RouteType
      BY <2>4, ElementOfSeq DEF RoutesInv
    <2>6. RouteTo(method, path) = routes[First(Matching(method, path))].to
      BY <1>2 DEF RouteTo, First
    <2> QED  BY <2>5, <2>6 DEF RouteType
  <1> QED  BY <1>1, <1>2

-----------------------------------------------------------------------------
(* What holds whenever a layer is entered.                                 *)
LEMMA OnTheWay ==
    ASSUME MInv, UNCHANGED mountVars, NEW layer, Underway(layer)
    PROVE  /\ step = 8 /\ req \in Requests /\ req # NoRequest /\ answer = "none"
           /\ at \in 0 .. Ahead + Many /\ at' = at + 1 /\ chain[at + 1] = layer
           /\ ContextsInv /\ SeenInv /\ seen \in Seq(SeenType) /\ ctx0 \in CtxType
           /\ cfg \in Configs /\ ChainInv
           /\ Timed' = Timed /\ Ahead' = Ahead /\ Deadlined' = Deadlined /\ Many' = Many
           /\ cfg' = cfg /\ (Serving' <=> Serving) /\ Serving
           /\ Timed \in {0, 1} /\ Ahead = Timed + 2 /\ Many \in Nat
  <1>1. cfg' = cfg /\ step' = step
    BY DEF mountVars
  <1>2. req # NoRequest /\ answer = "none" /\ chain[at + 1] = layer /\ at' = at + 1
    BY DEF Underway
  <1>3. Serving /\ step = 8 /\ (Serving' <=> Serving)
    BY <1>1, <1>2, Places DEF MInv, WayInv, Serving
  <1>4. /\ at \in 0 .. Ahead + Many + 1
        /\ at <= Ahead + Many
    BY <1>2 DEF MInv, WayInv
  <1>5. Timed \in {0, 1} /\ Ahead = Timed + 2 /\ Many \in Nat
    BY <1>3, Layers DEF MInv, Ahead
  <1>6. at \in 0 .. Ahead + Many
    <2>1. Ahead \in Nat
      BY <1>5
    <2> QED  BY <1>4, <1>5, <2>1
  <1>7. Timed' = Timed /\ Ahead' = Ahead /\ Deadlined' = Deadlined /\ Many' = Many
    BY <1>1 DEF Timed, Ahead, Deadlined, Many
  <1> QED  BY <1>1, <1>2, <1>3, <1>5, <1>6, <1>7 DEF MInv, WayInv

(* Nothing was answered yet, and nothing is.                               *)
LEMMA StillUnanswered ==
    ASSUME answer = "none", answer' = answer
    PROVE  AnswerInv' /\ answer' \notin Resolved
  BY DEF AnswerInv, Resolved

LEMMA ArriveKeeps ==
    ASSUME MInv, UNCHANGED mountVars, NEW r \in Requests, Arrive(r)
    PROVE  MInv'
  <1>1. /\ step = 8 /\ Serving /\ cfg' = cfg /\ step' = step
        /\ req' = r /\ at' = 0 /\ seen' = <<>>
        /\ answer' = IF RouteTo(r.method, r.path) = "graphql" THEN "none"
                     ELSE RouteTo(r.method, r.path)
    BY Places DEF Arrive, mountVars
  <1>2. Serving' /\ Timed' = Timed /\ Ahead' = Ahead /\ Deadlined' = Deadlined /\ Many' = Many
    BY <1>1 DEF Serving, Timed, Ahead, Deadlined, Many
  <1>3. answer' \in {"none", "404", "playground", "health"}
    <2>1. RouteTo(r.method, r.path) \in {"404", "graphql", "playground", "health"}
      BY RouteKnown DEF MInv
    <2> QED  BY <1>1, <2>1
  <1>4. r \in Request /\ r # NoRequest
    <2>1. r \in Request
      BY MountConstants
    <2>2. r.method # "none" /\ NoRequest.method = "none"
      BY <2>1 DEF Request, NoRequest
    <2> QED  BY <2>1, <2>2
  <1>5. Timed \in {0, 1} /\ Ahead = Timed + 2 /\ Many \in Nat
    BY <1>1, Layers DEF MInv, Ahead
  <1>6. /\ ctx0'.fiber = [deadline |-> FALSE, user |-> r.user]
        /\ ctx0' \in CtxType
    BY <1>4 DEF Arrive, CtxType, Context, Request
  <1>7. ContextsInv'
    <2>1. Timed' \in {0, 1} /\ Ahead' = Timed' + 2 /\ at' = 0
      BY <1>1, <1>2, <1>5
    <2>2. ~(at' > Timed') /\ ~(at' = Timed' + 1) /\ ~(at' >= Ahead')
      <3>1. CASE Timed' = 0
        BY <2>1, <3>1
      <3>2. CASE Timed' = 1
        BY <2>1, <3>2
      <3> QED  BY <2>1, <3>1, <3>2
    <2>3. at' >= Timed' => Deadlined' = FALSE
      BY <2>1 DEF Deadlined
    <2> QED  BY <1>1, <1>6, <2>2, <2>3 DEF ContextsInv
  <1>8. seen' \in Seq(SeenType) /\ SeenInv'
    <2>1. Ahead' \in Nat /\ at' = 0 /\ seen' = <<>>
      BY <1>1, <1>2, <1>5
    <2>2. at' <= Ahead' /\ ~(at' > Ahead')
      BY <2>1
    <2>3. DOMAIN seen' = {} /\ seen' \in Seq(SeenType)
      BY <2>1, EmptySeq
    <2> QED  BY <2>1, <2>2, <2>3 DEF SeenInv
  <1>9. AnswerInv' /\ answer' \notin Resolved
    BY <1>3 DEF AnswerInv, Resolved
  <1>10. WayInv'
    BY <1>1, <1>2, <1>4, <1>5, <1>6, <1>7, <1>8, <1>9 DEF WayInv
  <1> QED  BY <1>9, <1>10, BuiltKept

LEMMA EnterTimeoutKeeps ==
    ASSUME MInv, UNCHANGED mountVars, EnterTimeout
    PROVE  MInv'
  <1>1. Underway("timeout") /\ req' = req /\ seen' = seen /\ answer' = answer
        /\ ctx0' = [ctx0 EXCEPT !.fiber = [deadline |-> TRUE, user |-> ctx0.fiber.user]]
    BY DEF EnterTimeout
  <1>2. /\ step = 8 /\ req \in Requests /\ req # NoRequest /\ answer = "none"
        /\ at \in 0 .. Ahead + Many /\ at' = at + 1 /\ chain[at + 1] = "timeout"
        /\ ContextsInv /\ SeenInv /\ seen \in Seq(SeenType) /\ ctx0 \in CtxType
        /\ cfg \in Configs /\ ChainInv
        /\ Timed' = Timed /\ Ahead' = Ahead /\ Deadlined' = Deadlined /\ Many' = Many
        /\ cfg' = cfg /\ (Serving' <=> Serving) /\ Serving
        /\ Timed \in {0, 1} /\ Ahead = Timed + 2 /\ Many \in Nat
    BY <1>1, OnTheWay
  <1>3. Timed = 1 /\ at = 0
    BY <1>2, WhichLayer
  <1>4. ctx0' \in CtxType /\ ctx0'.fiber = [deadline |-> TRUE, user |-> req.user]
    <2>1. ctx0.fiber = [deadline |-> FALSE, user |-> req.user]
      BY <1>2, <1>3 DEF ContextsInv
    <2>2. ctx0' = [ctx0 EXCEPT !.fiber = [deadline |-> TRUE, user |-> req.user]]
      BY <1>1, <2>1
    <2>3. [deadline |-> TRUE, user |-> req.user] \in Context
      BY <1>2, MountConstants DEF Context, Request
    <2> QED  BY <1>2, <2>2, <2>3 DEF CtxType
  <1>5. ContextsInv'
    BY <1>1, <1>2, <1>3, <1>4 DEF ContextsInv, Deadlined
  <1>6. SeenInv'
    BY <1>1, <1>2, <1>3 DEF SeenInv, UserSeen
  <1>7. AnswerInv' /\ answer' \notin Resolved
    BY <1>1, <1>2, StillUnanswered
  <1>8. WayInv'
    BY <1>1, <1>2, <1>3, <1>4, <1>5, <1>6, <1>7 DEF WayInv
  <1> QED  BY <1>7, <1>8, BuiltKept

LEMMA EnterAdaptorKeeps ==
    ASSUME MInv, UNCHANGED mountVars, EnterAdaptor
    PROVE  MInv'
  <1>1. Underway("adaptor") /\ req' = req /\ seen' = seen /\ answer' = answer
        /\ ctx0' = [ctx0 EXCEPT !.stash = ctx0.fiber,
                                !.http = [deadline |-> FALSE, user |-> req.locals]]
    BY DEF EnterAdaptor
  <1>2. /\ step = 8 /\ req \in Requests /\ req # NoRequest /\ answer = "none"
        /\ at \in 0 .. Ahead + Many /\ at' = at + 1 /\ chain[at + 1] = "adaptor"
        /\ ContextsInv /\ SeenInv /\ seen \in Seq(SeenType) /\ ctx0 \in CtxType
        /\ cfg \in Configs /\ ChainInv
        /\ Timed' = Timed /\ Ahead' = Ahead /\ Deadlined' = Deadlined /\ Many' = Many
        /\ cfg' = cfg /\ (Serving' <=> Serving) /\ Serving
        /\ Timed \in {0, 1} /\ Ahead = Timed + 2 /\ Many \in Nat
    BY <1>1, OnTheWay
  <1>3. at = Timed
    BY <1>2, WhichLayer
  <1>4. ctx0.fiber = [deadline |-> Deadlined, user |-> req.user]
    BY <1>2, <1>3 DEF ContextsInv
  <1>5. [deadline |-> FALSE, user |-> req.locals] \in Context
    BY <1>2, MountConstants DEF Context, Request
  <1>6. /\ ctx0'.fiber = [deadline |-> Deadlined, user |-> req.user]
        /\ ctx0'.stash = [deadline |-> Deadlined, user |-> req.user]
        /\ ctx0'.http = [deadline |-> FALSE, user |-> req.locals]
        /\ ctx0' \in CtxType
    BY <1>1, <1>2, <1>4, <1>5 DEF CtxType
  <1>7. at' = Timed + 1 /\ at' > Timed /\ ~(at' < Timed) /\ ~(at' >= Ahead) /\ at' <= Ahead
        /\ at <= Ahead /\ at' \in 0 .. Ahead + Many
    BY <1>2, <1>3
  <1>8. ContextsInv'
    BY <1>1, <1>2, <1>6, <1>7 DEF ContextsInv
  <1>9. SeenInv'
    BY <1>1, <1>2, <1>7 DEF SeenInv, UserSeen
  <1>10. AnswerInv' /\ answer' \notin Resolved
    BY <1>1, <1>2, StillUnanswered
  <1>11. WayInv'
    BY <1>1, <1>2, <1>6, <1>7, <1>8, <1>9, <1>10 DEF WayInv
  <1> QED  BY <1>10, <1>11, BuiltKept

LEMMA EnterFiberContextKeeps ==
    ASSUME MInv, UNCHANGED mountVars, EnterFiberContext
    PROVE  MInv'
  <1>1. Underway("fiberContext") /\ req' = req /\ seen' = seen /\ answer' = answer
        /\ ctx0' = [ctx0 EXCEPT !.http = [deadline |-> ctx0.stash.deadline,
                                          user |-> Value(ctx0.stash.user, ctx0.http.user)]]
    BY DEF EnterFiberContext
  <1>2. /\ step = 8 /\ req \in Requests /\ req # NoRequest /\ answer = "none"
        /\ at \in 0 .. Ahead + Many /\ at' = at + 1 /\ chain[at + 1] = "fiberContext"
        /\ ContextsInv /\ SeenInv /\ seen \in Seq(SeenType) /\ ctx0 \in CtxType
        /\ cfg \in Configs /\ ChainInv
        /\ Timed' = Timed /\ Ahead' = Ahead /\ Deadlined' = Deadlined /\ Many' = Many
        /\ cfg' = cfg /\ (Serving' <=> Serving) /\ Serving
        /\ Timed \in {0, 1} /\ Ahead = Timed + 2 /\ Many \in Nat
    BY <1>1, OnTheWay
  <1>3. at = Timed + 1
    BY <1>2, WhichLayer
  <1>4. /\ ctx0.fiber = [deadline |-> Deadlined, user |-> req.user]
        /\ ctx0.stash = [deadline |-> Deadlined, user |-> req.user]
        /\ ctx0.http = [deadline |-> FALSE, user |-> req.locals]
    <2>1. at >= Timed /\ at > Timed
      BY <1>2, <1>3
    <2> QED  BY <1>2, <1>3, <2>1 DEF ContextsInv
  <1>5. Value(ctx0.stash.user, ctx0.http.user) = UserSeen
    BY <1>4 DEF Value, UserSeen
  <1>6. [deadline |-> Deadlined, user |-> UserSeen] \in Context
    BY <1>2, MountConstants DEF Context, Request, UserSeen, Deadlined
  <1>7. /\ ctx0'.fiber = [deadline |-> Deadlined, user |-> req.user]
        /\ ctx0'.stash = [deadline |-> Deadlined, user |-> req.user]
        /\ ctx0'.http = [deadline |-> Deadlined, user |-> UserSeen]
        /\ ctx0' \in CtxType
    <2>1. ctx0' = [ctx0 EXCEPT !.http = [deadline |-> Deadlined, user |-> UserSeen]]
      BY <1>1, <1>4, <1>5
    <2> QED  BY <1>2, <1>4, <1>6, <2>1 DEF CtxType
  <1>8. at' = Ahead /\ at' > Timed /\ ~(at' < Timed) /\ at' # Timed + 1 /\ at' <= Ahead
        /\ at <= Ahead /\ at' \in 0 .. Ahead + Many
    BY <1>2, <1>3
  <1>9. UserSeen' = UserSeen
    BY <1>1 DEF UserSeen
  <1>10. ContextsInv'
    BY <1>1, <1>2, <1>7, <1>8, <1>9 DEF ContextsInv
  <1>11. SeenInv'
    BY <1>1, <1>2, <1>8, <1>9 DEF SeenInv
  <1>12. AnswerInv' /\ answer' \notin Resolved
    BY <1>1, <1>2, StillUnanswered
  <1>13. WayInv'
    BY <1>1, <1>2, <1>7, <1>8, <1>10, <1>11, <1>12 DEF WayInv
  <1> QED  BY <1>12, <1>13, BuiltKept

(* A middleware adds what it has seen, and it is the next one listed.      *)
LEMMA EnterMiddlewareKeeps ==
    ASSUME MInv, UNCHANGED mountVars, NEW m \in {"outer", "inner"}, EnterMiddleware(m)
    PROVE  MInv'
  <1>1. Underway(m) /\ req' = req /\ ctx0' = ctx0 /\ answer' = answer
        /\ seen' = Append(seen, [layer |-> m, ctx |-> ctx0.http])
    BY DEF EnterMiddleware
  <1>2. /\ step = 8 /\ req \in Requests /\ req # NoRequest /\ answer = "none"
        /\ at \in 0 .. Ahead + Many /\ at' = at + 1 /\ chain[at + 1] = m
        /\ ContextsInv /\ SeenInv /\ seen \in Seq(SeenType) /\ ctx0 \in CtxType
        /\ cfg \in Configs /\ ChainInv
        /\ Timed' = Timed /\ Ahead' = Ahead /\ Deadlined' = Deadlined /\ Many' = Many
        /\ cfg' = cfg /\ (Serving' <=> Serving) /\ Serving
        /\ Timed \in {0, 1} /\ Ahead = Timed + 2 /\ Many \in Nat
    BY <1>1, OnTheWay
  <1>3. at \in Ahead .. Ahead + Many - 1 /\ cfg.middleware[at - Ahead + 1] = m
    BY <1>2, WhichLayer
  <1>4. ctx0.http = [deadline |-> Deadlined, user |-> UserSeen]
    BY <1>2, <1>3 DEF ContextsInv
  <1>5. Len(seen) = at - Ahead
    <2>1. CASE at = Ahead
      BY <1>2, <2>1 DEF SeenInv
    <2>2. CASE at > Ahead
      BY <1>2, <1>3, <2>2 DEF SeenInv
    <2> QED  BY <1>2, <1>3, <2>1, <2>2
  <1> DEFINE entry == [layer |-> m, ctx |-> ctx0.http]
  <1>6. entry \in SeenType
    BY <1>2 DEF SeenType, CtxType
  <1>7. entry.layer = m /\ entry.ctx = [deadline |-> Deadlined, user |-> UserSeen]
    BY <1>4
  <1>8. seen' = Append(seen, entry)
    BY <1>1
  <1> HIDE DEF entry
  <1>9. /\ seen' \in Seq(SeenType) /\ Len(seen') = Len(seen) + 1
        /\ \A i \in 1..Len(seen) : seen'[i] = seen[i]
        /\ seen'[Len(seen) + 1] = entry
    BY <1>2, <1>6, <1>8, AppendProperties
  <1>10. DOMAIN seen = 1..Len(seen) /\ DOMAIN seen' = 1..(Len(seen) + 1) /\ Len(seen) \in Nat
    BY <1>2, <1>9, LenProperties
  <1>11. UserSeen' = UserSeen
    BY <1>1 DEF UserSeen
  <1>12. at' > Ahead /\ ~(at' <= Ahead) /\ at' <= Ahead + Many /\ at' - Ahead = Len(seen) + 1
         /\ ~(at' < Timed) /\ at' # Timed + 1 /\ at' \in 0 .. Ahead + Many /\ at > Timed
         /\ at >= Timed /\ at >= Ahead /\ at - Ahead + 1 = Len(seen) + 1
    BY <1>2, <1>3, <1>5
  <1>13. ASSUME NEW i \in DOMAIN seen'
         PROVE  /\ seen'[i].ctx = [deadline |-> Deadlined, user |-> UserSeen]
                /\ i <= Many => seen'[i].layer = cfg.middleware[i]
    <2>1. CASE i \in 1..Len(seen)
      BY <1>2, <1>9, <1>10, <2>1 DEF SeenInv
    <2>2. CASE i = Len(seen) + 1
      BY <1>3, <1>7, <1>9, <1>12, <2>2
    <2> QED  BY <1>10, <2>1, <2>2
  <1>14. ContextsInv'
    BY <1>1, <1>2, <1>11, <1>12 DEF ContextsInv
  <1>15. SeenInv'
    <2>1. \A i \in DOMAIN seen' :
             /\ seen'[i].ctx = [deadline |-> Deadlined', user |-> UserSeen']
             /\ i <= Many' => seen'[i].layer = cfg'.middleware[i]
      BY <1>2, <1>11, <1>13
    <2>2. Len(seen') = at' - Ahead' /\ ~(at' <= Ahead') /\ at' <= Ahead' + Many'
      BY <1>2, <1>9, <1>12
    <2> QED  BY <2>1, <2>2 DEF SeenInv
  <1>16. AnswerInv' /\ answer' \notin Resolved
    BY <1>1, <1>2, StillUnanswered
  <1>17. WayInv'
    BY <1>1, <1>2, <1>9, <1>12, <1>14, <1>15, <1>16 DEF WayInv
  <1> QED  BY <1>16, <1>17, BuiltKept

LEMMA DoneKeeps ==
    ASSUME MInv, UNCHANGED mountVars, Done
    PROVE  MInv'
  <1>1. req' = NoRequest /\ answer' = "none" /\ at' = 0 /\ seen' = <<>> /\ ctx0' = ctx0
        /\ cfg' = cfg /\ cfg \in Configs
    BY DEF Done, mountVars, MInv
  <1>2. Timed \in {0, 1} /\ Timed' = Timed /\ Ahead = Timed + 2 /\ Ahead' = Ahead /\ Many' = Many
        /\ Many \in Nat
    BY <1>1, ConfigTyped, LenProperties DEF Timed, Ahead, Many, Config
  <1>3. at' \in 0 .. Ahead' + Many' + 1 /\ at' <= Ahead' /\ ~(at' > Ahead')
    BY <1>1, <1>2
  <1>4. seen' \in Seq(SeenType) /\ DOMAIN seen' = {}
    BY <1>1, EmptySeq
  <1>5. SeenInv'
    BY <1>1, <1>3, <1>4 DEF SeenInv
  <1>6. AnswerInv' /\ answer' \notin Resolved
    BY <1>1 DEF AnswerInv, Resolved
  <1>7. WayInv'
    BY <1>1, <1>3, <1>4, <1>5, <1>6 DEF WayInv, MInv
  <1> QED  BY <1>6, <1>7, BuiltKept

-----------------------------------------------------------------------------
(* The transport that takes a request: the consumer's own only where it    *)
(* was added and fits, and then before POST.                               *)
Able == {i \in DOMAIN srv.transports : Supports(srv.transports[i])}

LEMMA TakenBy ==
    ASSUME req \in Requests, srv.transports = Transports, Able # {}
    PROVE  LET by == srv.transports[First(Able)] IN
           /\ by \in Carriers
           /\ by = "SSE" <=> "transport" \in cfg.configure /\ req.method = "POST" /\ req.stream
  <1> DEFINE by == srv.transports[First(Able)]
  <1>1. CASE "transport" \in cfg.configure
    <2>1. /\ DOMAIN srv.transports = 1..4
          /\ srv.transports[1] = "SSE" /\ srv.transports[2] = "Options"
          /\ srv.transports[3] = "GET" /\ srv.transports[4] = "POST"
      BY <1>1 DEF Transports
    <2>2. First(Able) \in Able /\ \A j \in Able : First(Able) <= j
      <3>1. Able \in SUBSET Nat
        BY <2>1 DEF Able
      <3> QED  BY <3>1, Least
    <2>3. First(Able) \in 1..4 /\ Supports(srv.transports[First(Able)])
      BY <2>1, <2>2 DEF Able
    <2>4. 1 \in Able <=> req.method = "POST" /\ req.stream
      <3>1. req.stream \in BOOLEAN
        BY MountConstants DEF Request
      <3>2. Supports("SSE") <=> req.method = "POST" /\ req.stream
        BY <3>1 DEF Supports
      <3>3. 1 \in Able <=> Supports(srv.transports[1])
        BY <2>1 DEF Able
      <3> QED  BY <2>1, <3>2, <3>3
    <2>5. by = "SSE" <=> First(Able) = 1
      BY <2>1, <2>3
    <2>6. First(Able) = 1 <=> 1 \in Able
      BY <2>2, <2>3
    <2>7. by \in Carriers
      BY <2>1, <2>3 DEF Carriers
    <2> QED  BY <1>1, <2>4, <2>5, <2>6, <2>7
  <1>2. CASE "transport" \notin cfg.configure
    <2>1. /\ DOMAIN srv.transports = 1..3
          /\ srv.transports[1] = "Options"
          /\ srv.transports[2] = "GET" /\ srv.transports[3] = "POST"
      BY <1>2 DEF Transports
    <2>2. First(Able) \in Able
      <3>1. Able \in SUBSET Nat
        BY <2>1 DEF Able
      <3> QED  BY <3>1, Least
    <2>3. First(Able) \in 1..3
      BY <2>1, <2>2 DEF Able
    <2> QED  BY <1>2, <2>1, <2>3 DEF Carriers
  <1> QED  BY <1>1, <1>2

(* A limit that is on refuses exactly what is beyond it.                   *)
LEMMA LimitRefuses ==
    ASSUME NEW n \in Int, NEW default \in Nat \ {0}, NEW x \in Nat
    PROVE  /\ Setting(n, default) = Off <=> n < 0
           /\ Within(x, n, default) <=> n < 0 \/ x <= Setting(n, default)
           /\ Setting(n, default) \in Int
  BY DEF Setting, Off, Within, Given

(* The mutators of the finished server refuse exactly what is not allowed. *)
LEMMA RefusedExactly ==
    ASSUME cfg \in Configs, req \in Requests
    PROVE  (\E m \in Bounds \union OwnBound : Refuses(m)) <=> ~Allowed
  <1>1. /\ cfg.complexity \in Int /\ cfg.depth \in Int /\ cfg.closed \in BOOLEAN
        /\ req.cost \in Nat /\ req.depth \in Nat /\ req.introspects \in BOOLEAN
    BY MountConstants DEF Config, Request
  <1> DEFINE c == [name |-> "complexity", limit |-> Setting(cfg.complexity, 1000)]
             d == [name |-> "maxDepth", limit |-> Setting(cfg.depth, 15)]
             o == [name |-> "complexity", limit |-> 50]
  <1>2. Refuses(Introspector) <=> cfg.closed /\ req.introspects
    BY DEF Refuses, Introspector
  <1>3. /\ Refuses(c) <=> req.cost > Setting(cfg.complexity, 1000)
        /\ Refuses(d) <=> req.depth > Setting(cfg.depth, 15)
        /\ Refuses(o) <=> req.cost > 50
    BY DEF Refuses, c, d, o
  <1>4. /\ Setting(cfg.complexity, 1000) = Off <=> cfg.complexity < 0
        /\ Within(req.cost, cfg.complexity, 1000) <=>
              cfg.complexity < 0 \/ req.cost <= Setting(cfg.complexity, 1000)
        /\ Setting(cfg.complexity, 1000) \in Int
    BY <1>1, LimitRefuses
  <1>5. /\ Setting(cfg.depth, 15) = Off <=> cfg.depth < 0
        /\ Within(req.depth, cfg.depth, 15) <=> cfg.depth < 0 \/ req.depth <= Setting(cfg.depth, 15)
        /\ Setting(cfg.depth, 15) \in Int
    BY <1>1, LimitRefuses
  <1>6. /\ Elements(Mutator("complexity", cfg.complexity, 1000)) =
              IF cfg.complexity < 0 THEN {} ELSE {c}
        /\ Elements(Mutator("maxDepth", cfg.depth, 15)) = IF cfg.depth < 0 THEN {} ELSE {d}
    BY <1>4, <1>5 DEF Elements, Mutator, c, d
  <1>7. OwnBound = IF "mutator" \in cfg.configure THEN {o} ELSE {}
    BY DEF OwnBound, o
  <1> HIDE DEF c, d, o
  <1>8. (\E m \in Bounds \union OwnBound : Refuses(m)) <=>
           \/ Refuses(Introspector)
           \/ ~(cfg.complexity < 0) /\ Refuses(c)
           \/ ~(cfg.depth < 0) /\ Refuses(d)
           \/ "mutator" \in cfg.configure /\ Refuses(o)
    BY <1>6, <1>7 DEF Bounds
  <1>9. /\ ~(cfg.complexity < 0) /\ Refuses(c) <=> ~Within(req.cost, cfg.complexity, 1000)
        /\ ~(cfg.depth < 0) /\ Refuses(d) <=> ~Within(req.depth, cfg.depth, 15)
        /\ Refuses(o) <=> ~(req.cost <= 50)
    BY <1>1, <1>3, <1>4, <1>5
  <1> QED  BY <1>1, <1>2, <1>8, <1>9 DEF Allowed


-----------------------------------------------------------------------------
(* gqlgen answers: with no transport, as Options, refused, or resolved.    *)
Refusing == {i \in DOMAIN srv.mutators : Refuses(srv.mutators[i])}

LEMMA RefusedBy ==
    ASSUME cfg \in Configs, req \in Requests, srv \in SrvType,
           Elements(srv.mutators) = Bounds \union OwnBound
    PROVE  /\ Refusing # {} <=> ~Allowed
           /\ Refusing # {} => srv.mutators[First(Refusing)].name \in
                 {"Introspection", "noIntrospection", "complexity", "maxDepth"}
  <1>1. Refusing # {} <=> \E m \in Elements(srv.mutators) : Refuses(m)
    BY DEF Refusing, Elements
  <1>2. Refusing # {} <=> ~Allowed
    BY <1>1, RefusedExactly
  <1>3. ASSUME Refusing # {} PROVE srv.mutators[First(Refusing)] \in MutatorType
    <2>1. srv.mutators \in Seq(MutatorType)
      BY DEF SrvType
    <2>2. DOMAIN srv.mutators = 1..Len(srv.mutators) /\ Len(srv.mutators) \in Nat
      BY <2>1, LenProperties
    <2>3. Refusing \in SUBSET Nat
      BY <2>2 DEF Refusing
    <2>4. First(Refusing) \in Refusing
      BY <1>3, <2>3, Least
    <2>5. First(Refusing) \in 1..Len(srv.mutators)
      BY <2>2, <2>4 DEF Refusing
    <2> QED  BY <2>1, <2>5, ElementOfSeq
  <1> QED  BY <1>2, <1>3 DEF MutatorType

LEMMA ServeKeeps ==
    ASSUME MInv, UNCHANGED mountVars, Serve
    PROVE  MInv'
  <1>1. Underway("gqlgen") /\ req' = req /\ ctx0' = ctx0
    BY DEF Serve
  <1> DEFINE by    == srv.transports[First(Able)]
             entry == [layer |-> "resolver", ctx |-> ctx0.http]
  <1>2. \/ Able = {} /\ answer' = "transport not supported" /\ seen' = seen
        \/ Able # {} /\ by = "Options" /\ answer' = "Options" /\ seen' = seen
        \/ /\ Able # {} /\ by # "Options" /\ Refusing # {}
           /\ answer' = srv.mutators[First(Refusing)].name /\ seen' = seen
        \/ /\ Able # {} /\ by # "Options" /\ Refusing = {}
           /\ answer' = by /\ seen' = Append(seen, entry)
    BY DEF Serve, Able, Refusing
  <1>3. /\ step = 8 /\ req \in Requests /\ req # NoRequest /\ answer = "none"
        /\ at \in 0 .. Ahead + Many /\ at' = at + 1 /\ chain[at + 1] = "gqlgen"
        /\ ContextsInv /\ SeenInv /\ seen \in Seq(SeenType) /\ ctx0 \in CtxType
        /\ cfg \in Configs /\ ChainInv
        /\ Timed' = Timed /\ Ahead' = Ahead /\ Deadlined' = Deadlined /\ Many' = Many
        /\ cfg' = cfg /\ (Serving' <=> Serving) /\ Serving
        /\ Timed \in {0, 1} /\ Ahead = Timed + 2 /\ Many \in Nat
    BY <1>1, OnTheWay
  <1>4. at = Ahead + Many
    BY <1>3, WhichLayer
  <1>5. srv \in SrvType /\ Configured /\ srv.transports = Transports
    BY <1>3 DEF MInv, SrvInv
  <1>6. /\ Refusing # {} <=> ~Allowed
        /\ Refusing # {} => srv.mutators[First(Refusing)].name \in
              {"Introspection", "noIntrospection", "complexity", "maxDepth"}
    BY <1>3, <1>5, RefusedBy DEF Configured
  <1>7. Able # {} =>
          /\ by \in Carriers
          /\ by = "SSE" <=> "transport" \in cfg.configure /\ req.method = "POST" /\ req.stream
    BY <1>3, <1>5, TakenBy
  <1>8. Len(seen) = Many /\ DOMAIN seen = 1..Many
    <2>1. CASE Many = 0
      <3>1. at <= Ahead /\ seen = <<>>
        BY <1>3, <1>4, <2>1 DEF SeenInv
      <3> QED  BY <2>1, <3>1
    <2>2. CASE Many > 0
      <3>1. at > Ahead /\ at <= Ahead + Many /\ at - Ahead = Many
        BY <1>3, <1>4, <2>2
      <3>2. Len(seen) = Many
        BY <1>3, <3>1 DEF SeenInv
      <3> QED  BY <1>3, <3>2, LenProperties
    <2> QED  BY <1>3, <2>1, <2>2
  <1>9. /\ at' = Ahead' + Many' + 1 /\ at' > Ahead' /\ ~(at' <= Ahead' + Many')
        /\ ~(at' <= Ahead')
        /\ at' \in 0 .. Ahead' + Many' + 1 /\ at' >= Timed /\ ~(at' < Timed)
        /\ at' > Timed /\ at' # Timed + 1 /\ at' >= Ahead
        /\ at >= Timed /\ at > Timed /\ at >= Ahead
    BY <1>3, <1>4
  <1>10. UserSeen' = UserSeen
    BY <1>1 DEF UserSeen
  <1>11. ContextsInv'
    BY <1>1, <1>3, <1>9, <1>10 DEF ContextsInv
  <1>12. ctx0.http = [deadline |-> Deadlined, user |-> UserSeen]
    BY <1>3, <1>9 DEF ContextsInv
  <1>13. Allowed' <=> Allowed
    BY <1>1, <1>3 DEF Allowed, Within, Given
  <1>14. answer' # "none"
    BY <1>2, <1>6, <1>7 DEF Carriers
  <1>15. AnswerInv'
    <2>1. CASE Able = {}
      BY <1>2, <2>1 DEF AnswerInv, Resolved
    <2>2. CASE Able # {} /\ by = "Options"
      BY <1>2, <2>2 DEF AnswerInv, Resolved
    <2>3. CASE Able # {} /\ by # "Options" /\ Refusing # {}
      BY <1>2, <1>6, <1>13, <2>3 DEF AnswerInv, Resolved
    <2>4. CASE Able # {} /\ by # "Options" /\ Refusing = {}
      BY <1>1, <1>2, <1>3, <1>6, <1>7, <1>13, <2>4 DEF AnswerInv, Carriers
    <2> QED  BY <2>1, <2>2, <2>3, <2>4
  <1>16. entry \in SeenType /\ entry.ctx = [deadline |-> Deadlined, user |-> UserSeen]
    BY <1>3, <1>12 DEF SeenType, CtxType
  (* Resolved and seen by the resolver, or neither.                        *)
  <1>17. \/ answer' \notin Resolved /\ seen' = seen
         \/ answer' \in Resolved /\ seen' = Append(seen, entry)
    BY <1>2, <1>6, <1>7 DEF Resolved, Carriers
  <1> HIDE DEF entry
  <1>18. seen' \in Seq(SeenType) /\ SeenInv'
    <2>1. \A i \in 1..Many : /\ seen[i].ctx = [deadline |-> Deadlined, user |-> UserSeen]
                            /\ seen[i].layer = cfg.middleware[i]
      BY <1>3, <1>8 DEF SeenInv
    <2>2. CASE answer' \notin Resolved /\ seen' = seen
      <3>1. Len(seen') = Many' + 0 /\ DOMAIN seen' = 1..Many' /\ seen' \in Seq(SeenType)
        BY <1>3, <1>8, <2>2
      <3>2. \A i \in DOMAIN seen' :
               /\ seen'[i].ctx = [deadline |-> Deadlined', user |-> UserSeen']
               /\ i <= Many' => seen'[i].layer = cfg'.middleware[i]
        BY <1>3, <1>10, <2>1, <2>2, <3>1
      <3> QED  BY <1>9, <2>2, <3>1, <3>2 DEF SeenInv
    <2>3. CASE answer' \in Resolved /\ seen' = Append(seen, entry)
      <3>1. /\ seen' \in Seq(SeenType) /\ Len(seen') = Many + 1
            /\ \A i \in 1..Many : seen'[i] = seen[i]
            /\ seen'[Many + 1] = entry
        BY <1>3, <1>8, <1>16, <2>3, AppendProperties
      <3>2. DOMAIN seen' = 1..(Many + 1)
        BY <3>1, LenProperties
      <3>3. ASSUME NEW i \in DOMAIN seen'
            PROVE  /\ seen'[i].ctx = [deadline |-> Deadlined, user |-> UserSeen]
                   /\ i <= Many => seen'[i].layer = cfg.middleware[i]
        <4>1. CASE i \in 1..Many
          BY <2>1, <3>1, <4>1
        <4>2. CASE i = Many + 1
          BY <1>3, <1>16, <3>1, <4>2
        <4> QED  BY <1>3, <3>2, <4>1, <4>2
      <3>4. \A i \in DOMAIN seen' :
               /\ seen'[i].ctx = [deadline |-> Deadlined', user |-> UserSeen']
               /\ i <= Many' => seen'[i].layer = cfg'.middleware[i]
        BY <1>3, <1>10, <3>3
      <3>5. Len(seen') = Many' + 1
        BY <1>3, <3>1
      <3> QED  BY <1>9, <2>3, <3>1, <3>4, <3>5 DEF SeenInv
    <2> QED  BY <1>17, <2>2, <2>3
  <1>19. WayInv'
    BY <1>1, <1>3, <1>9, <1>11, <1>14, <1>18 DEF WayInv
  <1> QED  BY <1>15, <1>19, BuiltKept

LEMMA MInvNext == MInv /\ [MountNext]_allVars => MInv'
  <1> SUFFICES ASSUME MInv, [MountNext]_allVars PROVE MInv'
    OBVIOUS
  <1>1. CASE Mounts
    BY <1>1, MountsKeep
  <1>2. CASE Way
    <2>1. UNCHANGED mountVars
      BY <1>2 DEF Way
    <2>2. CASE \E r \in Requests : Arrive(r)
      BY <2>1, <2>2, ArriveKeeps
    <2>3. CASE EnterTimeout
      BY <2>1, <2>3, EnterTimeoutKeeps
    <2>4. CASE EnterAdaptor
      BY <2>1, <2>4, EnterAdaptorKeeps
    <2>5. CASE EnterFiberContext
      BY <2>1, <2>5, EnterFiberContextKeeps
    <2>6. CASE EnterMiddleware("outer") \/ EnterMiddleware("inner")
      BY <2>1, <2>6, EnterMiddlewareKeeps
    <2>7. CASE Serve
      BY <2>1, <2>7, ServeKeeps
    <2>8. CASE Done
      BY <2>1, <2>8, DoneKeeps
    <2> QED  BY <1>2, <2>2, <2>3, <2>4, <2>5, <2>6, <2>7, <2>8 DEF Way
  <1>3. CASE Live \/ UNCHANGED allVars
    <2>1. UNCHANGED mountVars /\ UNCHANGED wayVars
      BY <1>3 DEF Live, allVars
    <2>2. WayInv' /\ AnswerInv'
      <3>1. cfg' = cfg /\ step' = step
        BY <2>1 DEF mountVars
      <3> QED  BY <2>1, <3>1, WayKept DEF MInv
    <2> QED  BY <2>1, <2>2, BuiltKept
  <1> QED  BY <1>1, <1>2, <1>3 DEF MountNext

(* Whatever is configured and whatever is asked, the finished server has   *)
(* the consumer's last word or the configuration's, with a bound where it  *)
(* says nothing; an operation is resolved, or refused, exactly by those    *)
(* limits; and a transport of Configure takes what it supports.            *)
THEOREM ServesAsConfigured == MountSpec => []WhatServes
  <1>1. MInv => WhatServes
    <2> SUFFICES ASSUME MInv PROVE WhatServes
      OBVIOUS
    <2>1. cfg \in Config
      BY ConfigTyped DEF MInv
    <2>2. Serving => Configured
      BY Places DEF MInv, SrvInv
    <2>3. DefaultCache = IF cfg.cache < 0 THEN Off ELSE Given(cfg.cache, 1000)
      BY <2>1 DEF DefaultCache, Setting, Given, Config
    <2>4. DefaultPresenter = IF cfg.presenter = "own" THEN "own" ELSE "PresentError"
      BY <2>1 DEF DefaultPresenter, Config, Unset
    <2>5. readTimeout = IF cfg.fiberRead # 0 THEN cfg.fiberRead
                        ELSE IF cfg.read < 0 THEN 0 ELSE Given(cfg.read, 10)
      BY <2>1 DEF MInv, resolveTimeout, Given, Config
    <2> QED  BY <2>2, <2>3, <2>4, <2>5 DEF WhatServes, Configured, MInv, AnswerInv, Resolved
  <1> QED  BY <1>1, MInvInit, MInvNext, PTL DEF MountSpec

(* However many middleware there are, a request that is resolved has been  *)
(* through all of them in the order listed, and each of them and the       *)
(* resolver saw the same deadline and the same user.                       *)
THEOREM PassesEveryLayer == MountSpec => []RequestPath
  <1>1. MInv => RequestPath
    <2> SUFFICES ASSUME MInv PROVE RequestPath
      OBVIOUS
    <2>1. cfg \in Config /\ cfg.timeout \in Int /\ Many \in Nat
      BY ConfigTyped, LenProperties DEF MInv, Config, Many
    <2>2. Timed \in {0, 1} /\ (Timed = 1 <=> cfg.timeout >= 0)
      BY <2>1 DEF Timed, Setting, Off
    <2>3. Deadlined <=> cfg.timeout >= 0
      BY <2>2 DEF Deadlined
    <2>4. \A i \in DOMAIN seen :
             /\ seen[i].ctx = [deadline |-> Deadlined, user |-> UserSeen]
             /\ i <= Many => seen[i].layer = cfg.middleware[i]
      BY DEF MInv, WayInv, SeenInv
    <2>5. answer \in Resolved => Len(seen) = Many + 1
      <3>1. answer \in Resolved => at = Ahead + Many + 1
        BY DEF MInv, WayInv
      <3>2. Ahead \in Nat /\ Ahead + Many + 1 > Ahead /\ ~(Ahead + Many + 1 <= Ahead + Many)
        BY <2>1, <2>2 DEF Ahead
      <3> QED  BY <2>1, <3>1, <3>2 DEF MInv, WayInv, SeenInv
    <2> QED  BY <2>3, <2>4, <2>5 DEF RequestPath, UserSeen, Many, Resolved
  <1> QED  BY <1>1, MInvInit, MInvNext, PTL DEF MountSpec
=============================================================================
