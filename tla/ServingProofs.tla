---------------------------- MODULE ServingProofs ----------------------------
(***************************************************************************)
(* Proofs about Run, and about requests inside a server under it, for      *)
(* every set of clients, number of slots and setting of the timeouts.      *)
(*                                                                         *)
(* What Run returns says something about goroutines and connections it     *)
(* never looks at, through two intermediaries: the value in errc and the   *)
(* return of Shutdown.  The strengthening IInv says what each of the two   *)
(* stands for while Run is on its way from one to the other.               *)
(*                                                                         *)
(* The server of Serving implements ServerRun, so what is proved of Run    *)
(* there holds here, and the invariant of the requests may rest on it.     *)
(* That invariant, SInv, ties the four places a request is known at: its   *)
(* connection, its handler, its backend and what the client was told.      *)
(***************************************************************************)
EXTENDS Serving, TLAPS

(* Where Run stands decides what exists.                                   *)
Stages == /\ run \in {"entry", "listen"} => ln = "none"
          /\ run = "spawn" => ln = "open"
          /\ run \in {"entry", "listen", "spawn"} => serve = "none" /\ result = "none"
          /\ run \in {"select", "shutdown", "drain", "close", "collect"} =>
                 serve # "none" /\ ln # "none"
          /\ ln = "none" => serve = "none" /\ \A c \in Clients : conn[c] = "away"
          /\ run \in {"drain", "collect"} => ln = "closed"
          /\ run \in {"select", "shutdown"} => ln = "open" /\ shutErr = "nil" /\ ~sawServer
          /\ run \in {"drain"} => sawServer /\ shutErr = "nil"
          /\ run = "collect" => shutErr = "nil"
          /\ result \in {"nil", "drain"} /\ ln # "none" => ln = "closed"
          /\ (sawServer /\ run \in {"close", "returned"}) => ln = "closed"
          /\ run \in {"entry", "listen", "spawn"} => ~sawServer /\ shutErr = "nil"

(* errc carries what the listener goroutine returned, once.                *)
Channel == /\ serve \in {"returning", "done"} <=> serveVal # "none"
           /\ serveVal = "nil" => ln = "closed"
           /\ errc # <<>> => serve = "done" /\ errc = <<serveVal>>
           /\ result = "nil" /\ ln # "none" => serve = "done" /\ serveVal = "nil"

(* What ShutdownWithContext returned says how the drain ended.             *)
Drain == /\ shutErr = "drain" => windowOver /\ sawServer /\ run \in {"close", "returned"}
         /\ (sawServer /\ run \in {"close", "collect"} /\ shutErr = "nil") => NothingOpen
         /\ (sawServer /\ result = "nil") => NothingOpen
         /\ result = "drain" => windowOver

IInv == TypeOK /\ Stages /\ Channel /\ Drain

-----------------------------------------------------------------------------
(* The one value errc can hold.                                            *)
LEMMA OneValue ==
    ASSUME NEW v
    PROVE  /\ Head(<<v>>) = v /\ Tail(<<v>>) = <<>>
           /\ Len(<<v>>) = 1 /\ Len(<<>>) = 0
           /\ Append(<<>>, v) = <<v>>
  OBVIOUS

LEMMA InitInv == Init => IInv
  BY DEF Init, IInv, TypeOK, Stages, Channel, Drain, NothingOpen, Open

(* One step per action; the parts of IInv follow from each other's.        *)
LEMMA NextInv == IInv /\ [Next]_vars => IInv'
  <1> SUFFICES ASSUME IInv, [Next]_vars PROVE IInv'
    OBVIOUS
  <1> USE DEF IInv, TypeOK, Stages, Channel, Drain, NothingOpen, Open, Return, runVars, serveVars
  <1>1. CASE Entry
    BY <1>1 DEF Entry
  <1>2. CASE Listen
    BY <1>2 DEF Listen
  <1>3. CASE Spawn
    BY <1>3 DEF Spawn
  <1>4. CASE ListenerDied
    <2>1. errc = <<serveVal>> /\ serve = "done" /\ serveVal \in {"nil", "listener"}
      BY <1>4 DEF ListenerDied
    <2>2. Head(errc) = serveVal /\ Tail(errc) = <<>>
      BY <2>1, OneValue
    <2>3. run' = "returned" /\ result' = serveVal /\ errc' = <<>>
      BY <1>4, <2>2 DEF ListenerDied
    <2> QED  BY <1>4, <2>1, <2>3 DEF ListenerDied
  <1>5. CASE ContextDone
    BY <1>5 DEF ContextDone
  <1>6. CASE Shutdown
    BY <1>6 DEF Shutdown, CloseSocket
  <1>7. CASE Drained
    BY <1>7 DEF Drained
  <1>8. CASE CloseListener
    BY <1>8 DEF CloseListener, AfterClose, CloseSocket
  <1>9. CASE Collect
    <2>1. errc = <<serveVal>> /\ serve = "done" /\ serveVal \in {"nil", "listener"}
      BY <1>9 DEF Collect
    <2>2. Head(errc) = serveVal /\ Tail(errc) = <<>>
      BY <2>1, OneValue
    <2>3. run' = "returned" /\ result' = serveVal /\ errc' = <<>>
      BY <1>9, <2>2 DEF Collect
    <2> QED  BY <1>9, <2>1, <2>3 DEF Collect
  <1>10. CASE ServeStart
    BY <1>10 DEF ServeStart
  <1>11. CASE AcceptEOF
    BY <1>11 DEF AcceptEOF, ServeReturns
  <1>12. CASE AcceptFail
    BY <1>12 DEF AcceptFail, ServeReturns
  <1>13. CASE Send
    <2>1. errc = <<>>
      BY <1>13, OneValue DEF Send, SendReady
    <2>2. errc' = <<serveVal>> /\ serveVal \in {"nil", "listener"}
      BY <1>13, <2>1, OneValue DEF Send
    <2> QED  BY <1>13, <2>2 DEF Send
  <1>14. CASE Cancel
    BY <1>14 DEF Cancel
  <1>15. CASE WindowEnds
    BY <1>15 DEF WindowEnds
  <1>16. ASSUME NEW c \in Clients, Accept(c) PROVE IInv'
    BY <1>16 DEF Accept
  <1>17. ASSUME NEW c \in Clients, Connect(c) PROVE IInv'
    BY <1>17 DEF Connect, Become
  <1>18. ASSUME NEW c \in Clients, Request(c) PROVE IInv'
    BY <1>18 DEF Request, Become
  <1>19. ASSUME NEW c \in Clients, Respond(c) PROVE IInv'
    BY <1>19 DEF Respond, Become
  <1>20. ASSUME NEW c \in Clients, HangUp(c) PROVE IInv'
    BY <1>20 DEF HangUp, Become
  <1>21. ASSUME NEW c \in Clients, CloseIdle(c) PROVE IInv'
    BY <1>21 DEF CloseIdle, Become
  <1>22. CASE UNCHANGED vars
    BY <1>22 DEF vars
  <1> QED
    BY <1>1, <1>2, <1>3, <1>4, <1>5, <1>6, <1>7, <1>8, <1>9, <1>10, <1>11,
       <1>12, <1>13, <1>14, <1>15, <1>16, <1>17, <1>18, <1>19, <1>20, <1>21,
       <1>22
    DEF Next, Run, Listener

-----------------------------------------------------------------------------
(* The strengthening holds in every reachable state.                       *)
THEOREM Inductive == Spec => []IInv
  BY InitInv, NextInv, PTL DEF Spec

(* Every variable has its type.                                            *)
THEOREM TypeCorrect == Spec => []TypeOK
  <1>1. IInv => TypeOK
    BY DEF IInv
  <1> QED  BY <1>1, Inductive, PTL

(* Run never answers nil for a server it shut down with a connection open, *)
(* leaves one open only past the drain window, leaves no goroutine and no  *)
(* socket behind a nil, and answers none for a listener that failed.       *)
THEOREM ExitIsHonest == Spec => []ExitHonest
  <1>1. IInv => CleanExitDrained
    BY DEF IInv, Drain, NothingOpen, CleanExitDrained
  <1>2. IInv => CleanExitStopped
    BY DEF IInv, Stages, Channel, CleanExitStopped
  <1>3. IInv => ListenerErrorReported
    BY DEF IInv, TypeOK, Stages, Channel, ListenerErrorReported
  <1>4. IInv => ExitHonest
    BY <1>1, <1>2, <1>3 DEF ExitHonest
  <1> QED  BY <1>4, Inductive, PTL

-----------------------------------------------------------------------------

Answers == {"none", "stored", "57014", "no connection", "timed out"}

ServingTypeOK ==
    /\ limit \in Settings
    /\ handler \in [Clients -> {"none", "queued", "over"} \cup Waits]
    /\ waited \in [Clients -> Nat]
    /\ outcome \in [Clients -> Answers]
    /\ told \in [Clients -> Answers \cup {"408"}]
    /\ stmt \in [Clients -> {"none", "running", "stored", "stopped"}]
    /\ bounded \in [Clients -> BOOLEAN]
    /\ age \in [Clients -> Nat] /\ stmtAge \in [Clients -> Nat]

(* The connection waits for as long as the handler's client was told       *)
(* nothing, and no handler outlives the process.                           *)
Asks(c) == /\ Alive => /\ conn[c] = "active" <=> handler[c] # "none" /\ told[c] = "none"
                       /\ handler[c] = "none" => told[c] = "none"
           /\ ~Alive => handler[c] = "over"

(* What a handler knows of its statement.                                  *)
Unsent        == {"none", "queued", "dialing", "starting", "setting", "writing"}
Knows(c, o) == /\ o = "stored" => stmt[c] = "stored"
               /\ o = "57014" => stmt[c] = "stopped"
               /\ o = "no connection" => stmt[c] = "none"
Statement(c) ==
    /\ handler[c] \in Unsent => stmt[c] = "none"
    /\ stmt[c] # "running" => stmtAge[c] = 0
    /\ handler[c] \notin {"draining", "over"} => outcome[c] = "none"
    /\ handler[c] # "over" => told[c] \in {"none", "408"}
    /\ handler[c] = "none" => age[c] = 0
    /\ Alive /\ handler[c] \in {"draining", "over"} /\ told[c] = "none" => outcome[c] # "none"
    /\ Knows(c, outcome[c]) /\ Knows(c, told[c])

(* What SETs its connection has had, and with it its backend.              *)
Session(c) == /\ handler[c] \in {"dialing", "starting"} => ~bounded[c]
              /\ handler[c] = "setting" => limit.statement # Off
              /\ handler[c] = "writing" \/ stmt[c] # "none" => (bounded[c] <=> limit.statement # Off)

(* A handler that a 408 left without its statement sent finds its context  *)
(* over.                                                                   *)
TooLate(c) == told[c] = "408" /\ handler[c] \in Unsent => ContextOver(c)

Bounded(c) ==
    /\ conn[c] = "active" /\ limit.request # Off => age[c] <= limit.request
    /\ handler[c] \in Waits => waited[c] <= Allowance(c)
    /\ handler[c] \in WithContext /\ limit.request # Off => age[c] <= limit.request
    /\ stmt[c] = "running" /\ limit.statement # Off => stmtAge[c] <= limit.statement

Requests(c) == Asks(c) /\ Statement(c) /\ Session(c) /\ TooLate(c) /\ Bounded(c)

SInv == ServingTypeOK /\ \A c \in Clients : Requests(c)

-----------------------------------------------------------------------------
(* Every step of a request is a step of the server, or none.               *)
LEMMA DriverHidden == ASSUME NEW c \in Clients, Driver(c) PROVE UNCHANGED vars
  <1>1. CASE Connects(c) \/ Refused(c) \/ Written(c) \/ OpenFails(c)
    BY <1>1 DEF Connects, Refused, Written, OpenFails
  <1>2. CASE Read(c) \/ Row(c) \/ LastRow(c) \/ CutShort(c)
    BY <1>2 DEF Read, Row, LastRow, CutShort
  <1>3. CASE Emptied(c) \/ WaitFails(c)
    BY <1>3 DEF Emptied, WaitFails
  <1> QED  BY <1>1, <1>2, <1>3 DEF Driver

LEMMA StepImplements == [ServingNext]_servingVars => [Next]_vars
  <1> SUFFICES ASSUME [ServingNext]_servingVars PROVE [Next]_vars
    OBVIOUS
  <1>1. CASE Lifecycle
    BY <1>1 DEF Lifecycle, Next
  <1>2. CASE CloseDB \/ Exit \/ Tick \/ \E s \in Slots : Opens(s)
    BY <1>2 DEF CloseDB, Exit, Tick, Opens
  <1>3. ASSUME NEW c \in Clients, Begin(c) PROVE Next
    BY <1>3 DEF Begin, Next
  <1>4. ASSUME NEW c \in Clients, Answer(c) \/ Timeout(c) PROVE Next
    BY <1>4 DEF Answer, Timeout, Tell, Next
  <1>5. ASSUME NEW c \in Clients, LeaveQueue(c) \/ \E s \in Slots : Acquire(c, s)
        PROVE  UNCHANGED vars
    BY <1>5 DEF LeaveQueue, Acquire
  <1>6. ASSUME NEW c \in Clients, Finishes(c) \/ Stopped(c) PROVE UNCHANGED vars
    BY <1>6 DEF Finishes, Stopped, Backend
  <1>7. CASE UNCHANGED servingVars
    BY <1>7 DEF servingVars
  <1> QED
    BY <1>1, <1>2, <1>3, <1>4, <1>5, <1>6, <1>7, DriverHidden DEF ServingNext, Process, Resolver

(* The server with requests in it implements the server of ServerRun.      *)
THEOREM Implements == ServingSpec => Spec
  <1>1. ServingInit => Init
    BY DEF ServingInit
  <1> QED  BY <1>1, StepImplements, PTL DEF ServingSpec, Spec

-----------------------------------------------------------------------------
LEMMA SInvInit == ServingInit => SInv
  BY ServingConstants
  DEF ServingInit, Init, SInv, ServingTypeOK, Requests, Asks, Statement, Knows, Session, TooLate,
      Bounded, Answers, Unsent, Waits, WithContext, Alive

LEMMA LimitType == ASSUME limit \in Settings
                   PROVE  /\ limit.dial \in Nat /\ limit.write \in Nat /\ limit.read \in Nat
                          /\ limit.statement \in Nat /\ limit.request \in Nat
                          /\ limit.dial # Off /\ limit.write # Off /\ limit.read # Off
  BY ServingConstants

(* A tick adds one, or nothing.                                            *)
LEMMA OlderStep == ASSUME NEW n \in Nat PROVE Older(n) \in Nat /\ Older(n) <= n + 1
  <1>1. CASE n < Horizon
    BY <1>1 DEF Older
  <1>2. CASE ~(n < Horizon)
    BY <1>2 DEF Older
  <1> QED  BY <1>1, <1>2

LEMMA AllowanceType == ASSUME limit \in Settings, NEW c \in Clients PROVE Allowance(c) \in Nat /\ Allowance(c) >= 0
  BY LimitType DEF Allowance

(* What is said of a request stands while its own fields do.               *)
LEMMA RequestKept ==
    ASSUME NEW c \in Clients, Requests(c), limit' = limit, Alive' = Alive,
           (conn'[c] = "active") <=> (conn[c] = "active"),
           handler'[c] = handler[c], waited'[c] = waited[c], outcome'[c] = outcome[c],
           told'[c] = told[c], stmt'[c] = stmt[c], bounded'[c] = bounded[c], age'[c] = age[c],
           stmtAge'[c] = stmtAge[c]
    PROVE  Requests(c)'
  <1>1. Asks(c)' /\ Statement(c)' /\ Session(c)'
    BY DEF Requests, Asks, Statement, Knows, Session
  <1>2. TooLate(c)' /\ Bounded(c)'
    BY DEF Requests, TooLate, Bounded, ContextOver, Expired, Allowance
  <1> QED  BY <1>1, <1>2 DEF Requests

(* The server's own steps neither begin nor end a request.                 *)
LEMMA ActiveKept ==
    ASSUME TypeOK, Lifecycle, NEW c \in Clients
    PROVE  (conn'[c] = "active") <=> (conn[c] = "active")
  <1> USE DEF TypeOK
  <1>1. CASE Run
    BY <1>1 DEF Run, Entry, Listen, Spawn, ListenerDied, ContextDone, Shutdown, Drained,
                CloseListener, AfterClose, Collect, CloseSocket
  <1>2. CASE Listener \/ AcceptFail \/ Cancel \/ WindowEnds
    BY <1>2 DEF Listener, ServeStart, AcceptEOF, ServeReturns, Send, AcceptFail, Cancel, WindowEnds
  <1>3. ASSUME NEW d \in Clients, Accept(d) \/ Connect(d) \/ HangUp(d) \/ CloseIdle(d)
        PROVE  (conn'[c] = "active") <=> (conn[c] = "active")
    BY <1>3 DEF Accept, Connect, HangUp, CloseIdle, Become
  <1> QED  BY <1>1, <1>2, <1>3 DEF Lifecycle

-----------------------------------------------------------------------------
(* What most steps of a handler leave as it is.                            *)
Rest == <<vars, limit, told, age, main>>

LEMMA SlotsOnly ==
    ASSUME SInv, UNCHANGED <<vars, limit, handler, waited, outcome, told, stmt, bounded, age, stmtAge>>,
           Alive' = Alive
    PROVE  SInv'
  <1>1. \A c \in Clients : Requests(c)'
    BY RequestKept DEF SInv, vars
  <1> QED  BY <1>1 DEF SInv, ServingTypeOK

(* A handler's call returns, with what it knows.                           *)
LEMMA Returns ==
    ASSUME SInv, NEW c \in Clients, NEW o \in Answers \ {"none"}, Knows(c, o),
           handler[c] \notin {"none", "draining", "over"}, Enters(c, "over"), Learns(c, o),
           UNCHANGED <<Rest, stmt, bounded, stmtAge>>
    PROVE  SInv'
  <1> USE DEF Rest
  <1>0. /\ handler' = [handler EXCEPT ![c] = "over"] /\ waited' = [waited EXCEPT ![c] = 0]
        /\ outcome' = IF told[c] = "none" THEN [outcome EXCEPT ![c] = o] ELSE outcome
        /\ Alive' = Alive /\ conn' = conn
    BY DEF Enters, Learns, Alive, vars
  <1>1. ServingTypeOK'
    BY <1>0 DEF SInv, ServingTypeOK, Answers
  <1>2. /\ handler'[c] = "over" /\ waited'[c] = 0 /\ outcome'[c] = IF told[c] = "none" THEN o ELSE outcome[c]
    BY <1>0 DEF SInv, ServingTypeOK
  <1>3. Requests(c)
    BY DEF SInv
  <1>4. Asks(c)' /\ Session(c)' /\ TooLate(c)'
    BY <1>0, <1>2, <1>3 DEF Requests, Asks, Statement, Session, TooLate, Unsent, Waits, WithContext
  <1>5. Statement(c)'
    BY <1>0, <1>2, <1>3 DEF Requests, Statement, Knows, Unsent
  <1>6. Bounded(c)'
    BY <1>0, <1>2, <1>3 DEF Requests, Bounded, Waits, WithContext
  <1>7. \A d \in Clients \ {c} : Requests(d)'
    BY <1>0, RequestKept DEF SInv, ServingTypeOK
  <1> QED  BY <1>1, <1>3, <1>4, <1>5, <1>6, <1>7 DEF SInv, Requests

(* Or it goes on to another wait.                                          *)
LEMMA Proceeds ==
    ASSUME SInv, NEW c \in Clients, NEW to \in Waits, Enters(c, to),
           handler[c] \notin {"none", "over"}, to = "draining" => outcome'[c] \in Answers /\ Knows(c, outcome'[c]),
           to = "draining" /\ told[c] = "none" => outcome'[c] # "none",
           to # "draining" => handler[c] # "draining" /\ outcome' = outcome,
           \E o \in Answers : outcome' \in {outcome, [outcome EXCEPT ![c] = o]},
           to \in WithContext /\ limit.request # Off => age[c] <= limit.request,
           to \in Unsent => handler[c] \in Unsent,
           to \in {"dialing", "starting"} => ~bounded'[c],
           to = "setting" => limit.statement # Off,
           to = "writing" => (bounded'[c] <=> limit.statement # Off),
           bounded' \in [Clients -> BOOLEAN],
           \A d \in Clients : d # c \/ stmt[c] # "none" => bounded'[d] = bounded[d],
           UNCHANGED <<Rest, stmt, stmtAge>>
    PROVE  SInv'
  <1> USE DEF Rest
  <1>0. /\ handler' = [handler EXCEPT ![c] = to] /\ waited' = [waited EXCEPT ![c] = 0]
        /\ Alive' = Alive /\ conn' = conn
    BY DEF Enters, Alive, vars
  <1>1. ServingTypeOK'
    BY <1>0 DEF SInv, ServingTypeOK
  <1>2. handler'[c] = to /\ waited'[c] = 0
    BY <1>0 DEF SInv, ServingTypeOK
  <1>3. Requests(c)
    BY DEF SInv
  <1>a. Allowance(c)' \in Nat
    <2>1. limit' \in Settings
      BY DEF SInv, ServingTypeOK
    <2> QED  BY <2>1, LimitType DEF Allowance
  <1>4. Asks(c)' /\ Session(c)' /\ TooLate(c)'
    <2>1. to \notin {"none", "queued", "over"}
      BY DEF Waits, WithContext
    <2>2. Asks(c)'
      BY <1>0, <1>2, <1>3, <2>1 DEF Requests, Asks
    <2>3. Session(c)'
      BY <1>0, <1>2, <1>3 DEF Requests, Session
    <2>4. TooLate(c)'
      BY <1>0, <1>2, <1>3 DEF Requests, TooLate, ContextOver, Expired
    <2> QED  BY <2>2, <2>3, <2>4
  <1>5. Statement(c)'
    <2>1. to \notin {"none", "queued", "over"}
      BY DEF Waits, WithContext
    <2>2. told[c] \in {"none", "408"}
      BY <1>3 DEF Requests, Statement
    <2>3. CASE to = "draining"
      BY <1>0, <1>2, <1>3, <2>1, <2>2, <2>3 DEF Requests, Statement, Knows, Unsent
    <2>4. CASE to # "draining"
      BY <1>0, <1>2, <1>3, <2>1, <2>2, <2>4 DEF Requests, Statement, Knows
    <2> QED  BY <2>3, <2>4
  <1>6. Bounded(c)'
    BY <1>0, <1>2, <1>3, <1>a DEF Requests, Bounded
  <1>7. \A d \in Clients \ {c} : Requests(d)'
    BY <1>0, RequestKept DEF SInv, ServingTypeOK
  <1> QED  BY <1>1, <1>3, <1>4, <1>5, <1>6, <1>7 DEF SInv, Requests

(* One step per action.                                                    *)
LEMMA TickKeeps == ASSUME TypeOK, SInv, Tick PROVE SInv'
  <1> USE DEF ServingTypeOK, Answers
  <1>0. /\ limit.statement \in Nat /\ limit.request \in Nat /\ limit \in Settings
        /\ Alive' = Alive /\ conn' = conn /\ handler' = handler /\ stmt' = stmt
        /\ limit' = limit /\ told' = told /\ outcome' = outcome /\ bounded' = bounded
    BY LimitType DEF SInv, Tick, Alive, vars
  <1>1. ASSUME NEW c \in Clients
        PROVE  /\ age'[c] \in Nat /\ age[c] <= age'[c] /\ age'[c] <= age[c] + 1
               /\ age'[c] # age[c] => Alive /\ Ages(c)
               /\ waited'[c] \in Nat /\ waited'[c] <= waited[c] + 1
               /\ waited'[c] # waited[c] => Alive /\ handler[c] \in Waits
               /\ stmtAge'[c] \in Nat /\ stmtAge'[c] <= stmtAge[c] + 1
               /\ stmtAge'[c] # stmtAge[c] => stmt[c] = "running"
    <2>1. /\ age'[c] = IF Alive /\ Ages(c) THEN Older(age[c]) ELSE age[c]
          /\ waited'[c] = IF Alive /\ handler[c] \in Waits THEN Older(waited[c]) ELSE waited[c]
          /\ stmtAge'[c] = IF stmt[c] = "running" THEN Older(stmtAge[c]) ELSE stmtAge[c]
      BY DEF Tick
    <2>2. age[c] \in Nat /\ waited[c] \in Nat /\ stmtAge[c] \in Nat
      BY DEF SInv
    <2>3. /\ Older(age[c]) \in Nat /\ Older(age[c]) <= age[c] + 1 /\ age[c] <= Older(age[c])
      BY <2>2, OlderStep DEF Older
    <2>4. Older(waited[c]) \in Nat /\ Older(waited[c]) <= waited[c] + 1
      BY <2>2, OlderStep
    <2>5. Older(stmtAge[c]) \in Nat /\ Older(stmtAge[c]) <= stmtAge[c] + 1
      BY <2>2, OlderStep
    <2>6. /\ age'[c] \in Nat /\ age[c] <= age'[c] /\ age'[c] <= age[c] + 1
          /\ age'[c] # age[c] => Alive /\ Ages(c)
      <3>1. CASE Alive /\ Ages(c)
        BY <2>1, <2>3, <3>1
      <3>2. CASE ~(Alive /\ Ages(c))
        BY <2>1, <2>2, <3>2
      <3> QED  BY <3>1, <3>2
    <2>7. /\ waited'[c] \in Nat /\ waited'[c] <= waited[c] + 1
          /\ waited'[c] # waited[c] => Alive /\ handler[c] \in Waits
      <3>1. CASE Alive /\ handler[c] \in Waits
        BY <2>1, <2>4, <3>1
      <3>2. CASE ~(Alive /\ handler[c] \in Waits)
        BY <2>1, <2>2, <3>2
      <3> QED  BY <3>1, <3>2
    <2>8. /\ stmtAge'[c] \in Nat /\ stmtAge'[c] <= stmtAge[c] + 1
          /\ stmtAge'[c] # stmtAge[c] => stmt[c] = "running"
      BY <2>1, <2>2, <2>5
    <2> QED  BY <2>6, <2>7, <2>8
  <1>2. ServingTypeOK'
    <2>1. /\ age' = [c \in Clients |-> age'[c]] /\ waited' = [c \in Clients |-> waited'[c]]
          /\ stmtAge' = [c \in Clients |-> stmtAge'[c]]
      BY DEF Tick
    <2>2. age' \in [Clients -> Nat] /\ waited' \in [Clients -> Nat] /\ stmtAge' \in [Clients -> Nat]
      BY <1>1, <2>1
    <2> QED  BY <1>0, <2>2 DEF SInv
  <1>3. ASSUME NEW c \in Clients PROVE Requests(c)'
    <2>1. Requests(c) /\ ~Due(c)
      BY DEF Tick, SInv
    <2>2. Asks(c)' /\ Session(c)'
      BY <1>0, <2>1 DEF Requests, Asks, Session
    <2>3. Statement(c)'
      BY <1>0, <1>1, <2>1 DEF Requests, Statement, Knows, Ages
    <2>4. TooLate(c)'
      <3>1. age[c] \in Nat /\ age'[c] \in Nat /\ age[c] <= age'[c]
        BY <1>1 DEF SInv
      <3> QED  BY <1>0, <2>1, <3>1 DEF Requests, TooLate, ContextOver, Expired
    <2>5. Bounded(c)'
      <3>1. /\ age[c] \in Nat /\ waited[c] \in Nat /\ stmtAge[c] \in Nat
            /\ Asks(c) /\ Statement(c) /\ Session(c) /\ Bounded(c)
        BY <2>1 DEF SInv, Requests
      <3>2. ASSUME conn[c] = "active", limit.request # Off PROVE age'[c] <= limit.request
        <4>1. CASE age'[c] = age[c]
          BY <3>1, <3>2, <4>1 DEF Bounded
        <4>2. CASE age'[c] # age[c]
          <5>1. Alive /\ told[c] = "none"
            BY <1>1, <3>1, <3>2, <4>2 DEF Asks
          <5>2. ~(age[c] >= limit.request)
            BY <2>1, <3>2, <5>1 DEF Due, TimedOut, Expired
          <5> QED  BY <1>0, <1>1, <3>1, <5>2
        <4> QED  BY <4>1, <4>2
      <3>3. ASSUME handler[c] \in Waits PROVE waited'[c] <= Allowance(c)
        <4>0. Allowance(c) \in Nat
          BY <1>0, AllowanceType
        <4>1. CASE waited'[c] = waited[c]
          BY <3>1, <3>3, <4>1 DEF Bounded
        <4>2. CASE waited'[c] # waited[c]
          <5>1. ~(waited[c] >= Allowance(c))
            BY <1>1, <2>1, <3>3, <4>2 DEF Due, WaitOver
          <5> QED  BY <1>1, <3>1, <4>0, <5>1
        <4> QED  BY <4>1, <4>2
      <3>4. ASSUME handler[c] \in WithContext, limit.request # Off PROVE age'[c] <= limit.request
        <4>1. CASE age'[c] = age[c]
          BY <3>1, <3>4, <4>1 DEF Bounded
        <4>2. CASE age'[c] # age[c]
          <5>1. ~(age[c] >= limit.request)
            BY <1>1, <2>1, <3>4, <4>2 DEF Due, WaitOver, ContextOver, Expired, Waits
          <5> QED  BY <1>0, <1>1, <3>1, <5>1
        <4> QED  BY <4>1, <4>2
      <3>5. ASSUME stmt[c] = "running", limit.statement # Off PROVE stmtAge'[c] <= limit.statement
        <4>1. bounded[c]
          BY <3>1, <3>5 DEF Session
        <4>2. ~(stmtAge[c] >= limit.statement)
          BY <2>1, <3>5, <4>1 DEF Due, TooLong
        <4> QED  BY <1>0, <1>1, <3>1, <4>2
      <3>6. Allowance(c)' = Allowance(c)
        BY <1>0 DEF Allowance
      <3> QED  BY <1>0, <3>2, <3>3, <3>4, <3>5, <3>6 DEF Bounded
    <2> QED  BY <2>2, <2>3, <2>4, <2>5 DEF Requests
  <1> QED  BY <1>2, <1>3 DEF SInv

LEMMA ExitKeeps == ASSUME SInv, Exit PROVE SInv'
  <1>1. ~Alive' /\ limit' = limit /\ stmt' = stmt /\ told' = told /\ bounded' = bounded
        /\ stmtAge' = stmtAge
    BY DEF Exit, Alive
  <1>2. ServingTypeOK'
    BY DEF Exit, SInv, ServingTypeOK, Answers
  <1>3. ASSUME NEW c \in Clients PROVE Requests(c)'
    <2>1. /\ handler'[c] = "over" /\ outcome'[c] = "none" /\ age'[c] = 0 /\ Requests(c)
          /\ limit.request \in Nat
      BY LimitType DEF Exit, SInv, ServingTypeOK
    <2>2. Asks(c)' /\ Session(c)' /\ TooLate(c)'
      BY <1>1, <2>1 DEF Asks, Requests, Session, TooLate, Unsent
    <2>3. Statement(c)'
      BY <1>1, <2>1 DEF Requests, Statement, Knows, Unsent
    <2>4. Bounded(c)'
      BY <1>1, <2>1 DEF Requests, Bounded, Waits, WithContext
    <2> QED  BY <2>2, <2>3, <2>4 DEF Requests
  <1> QED  BY <1>2, <1>3 DEF SInv

LEMMA BeginKeeps == ASSUME TypeOK, SInv, Alive, NEW c \in Clients, Begin(c) PROVE SInv'
  <1> USE DEF ServingTypeOK, Answers, TypeOK
  <1>0. Alive' = Alive
    BY DEF Begin, Alive
  <1>1. ServingTypeOK'
    BY DEF Begin, SInv
  <1>2. Requests(c)'
    <2>1. Requests(c) /\ handler'[c] = "queued" /\ handler[c] = "none" /\ conn'[c] = "active"
          /\ limit' = limit /\ limit.request \in Nat
      BY LimitType DEF SInv, Begin, Request, Become
    <2>2. told[c] = "none" /\ stmt[c] = "none" /\ age[c] = 0
      BY <2>1 DEF Requests, Asks, Statement, Unsent
    <2>3. UNCHANGED <<waited, outcome, told, stmt, bounded, age, stmtAge>>
      BY DEF Begin
    <2>4. Asks(c)' /\ Session(c)' /\ TooLate(c)'
      BY <1>0, <2>1, <2>2, <2>3 DEF Asks, Session, TooLate
    <2>5. Statement(c)'
      BY <2>1, <2>2, <2>3 DEF Requests, Statement, Knows
    <2>6. Bounded(c)'
      BY <2>1, <2>2, <2>3 DEF Bounded, Waits, WithContext
    <2> QED  BY <2>4, <2>5, <2>6 DEF Requests
  <1>3. \A d \in Clients \ {c} : Requests(d)'
    BY <1>0, RequestKept DEF Begin, Request, Become, SInv
  <1> QED  BY <1>1, <1>2, <1>3 DEF SInv

(* The driver's steps, each as one of Returns and Proceeds.                *)
LEMMA QueueKeeps == ASSUME SInv, NEW c \in Clients, LeaveQueue(c) \/ OpenFails(c) PROVE SInv'
  <1>1. /\ handler[c] = "queued" /\ Enters(c, "over") /\ UNCHANGED <<Rest, stmt, bounded, stmtAge>>
    BY DEF LeaveQueue, OpenFails, Rest
  <1>2. PICK o \in {"timed out", "no connection"} : Learns(c, o)
    BY DEF LeaveQueue, OpenFails
  <1>3. stmt[c] = "none"
    BY <1>1 DEF SInv, Requests, Statement, Unsent
  <1>4. o \in Answers \ {"none"} /\ Knows(c, o)
    BY <1>3 DEF Answers, Knows
  <1> QED  BY <1>1, <1>2, <1>4, Returns

LEMMA AcquireKeeps == ASSUME SInv, NEW c \in Clients, NEW s \in Slots, Acquire(c, s) PROVE SInv'
  <1> DEFINE to == IF slot[s] = "idle" THEN "writing" ELSE "dialing"
  <1>1. /\ handler[c] = "queued" /\ Enters(c, to) /\ ~ContextOver(c) /\ outcome' = outcome
        /\ bounded' = [bounded EXCEPT ![c] = slot[s] = "idle" /\ limit.statement # Off]
        /\ UNCHANGED <<Rest, stmt, stmtAge>>
    BY DEF Acquire, Rest
  <1>2. limit.request # Off => age[c] <= limit.request
    <2>1. age[c] \in Nat /\ limit.request \in Nat
      BY LimitType DEF SInv, ServingTypeOK
    <2> QED  BY <1>1, <2>1 DEF ContextOver, Expired
  <1>3. stmt[c] = "none"
    BY <1>1 DEF SInv, Requests, Statement, Unsent
  <1>4. /\ bounded' \in [Clients -> BOOLEAN]
        /\ bounded'[c] = (slot[s] = "idle" /\ limit.statement # Off)
        /\ \A d \in Clients : d # c \/ stmt[c] # "none" => bounded'[d] = bounded[d]
    BY <1>1, <1>3 DEF SInv, ServingTypeOK
  <1>5. to \in {"writing", "dialing"} /\ to \in Waits
    BY DEF Waits, WithContext
  <1>6. to = "writing" => slot[s] = "idle"
    OBVIOUS
  <1>7. to = "dialing" => slot[s] # "idle"
    OBVIOUS
  <1> HIDE DEF to
  <1>8. handler[c] \in Unsent
    BY <1>1 DEF Unsent
  <1>9. outcome' \in {outcome, [outcome EXCEPT ![c] = "none"]} /\ "none" \in Answers
    BY <1>1 DEF Answers
  <1> QED  BY <1>1, <1>2, <1>4, <1>5, <1>6, <1>7, <1>8, <1>9, Proceeds

LEMMA ConnectsKeeps == ASSUME SInv, NEW c \in Clients, Connects(c) PROVE SInv'
  <1>1. outcome' = outcome /\ UNCHANGED <<Rest, stmt, stmtAge>>
    BY DEF Connects, Rest
  <1>2. Requests(c) /\ bounded \in [Clients -> BOOLEAN]
    BY DEF SInv, ServingTypeOK
  <1>3. PICK to \in {"starting", "setting", "writing"} :
            /\ handler[c] \in {"dialing", "starting", "setting"} /\ Enters(c, to)
            /\ to = "starting" => handler[c] = "dialing" /\ bounded' = bounded
            /\ to = "setting" => handler[c] = "starting" /\ limit.statement # Off /\ bounded' = bounded
            /\ to = "writing" => \/ handler[c] = "starting" /\ limit.statement = Off /\ bounded' = bounded
                                 \/ handler[c] = "setting" /\ bounded' = [bounded EXCEPT ![c] = TRUE]
    BY DEF Connects, Dialled, Started, SetDone, Goes, Sets
  <1>4. stmt[c] = "none"
    BY <1>2, <1>3 DEF Requests, Statement, Unsent
  <1>5. /\ bounded' \in [Clients -> BOOLEAN]
        /\ \A d \in Clients : d # c \/ stmt[c] # "none" => bounded'[d] = bounded[d]
    BY <1>2, <1>3, <1>4
  <1>6. /\ to = "starting" => ~bounded'[c]
        /\ to = "writing" => (bounded'[c] <=> limit.statement # Off)
    BY <1>2, <1>3 DEF Requests, Session
  <1>7. limit.request # Off => age[c] <= limit.request
    BY <1>2, <1>3 DEF Requests, Bounded, WithContext
  <1>8. outcome' \in {outcome, [outcome EXCEPT ![c] = "none"]} /\ "none" \in Answers
    BY <1>1 DEF Answers
  <1>9. to \in Waits /\ handler[c] \in Unsent
    BY <1>3 DEF Waits, WithContext, Unsent
  <1> QED  BY <1>1, <1>3, <1>5, <1>6, <1>7, <1>8, <1>9, Proceeds

LEMMA RefusedKeeps == ASSUME SInv, NEW c \in Clients, Refused(c) PROVE SInv'
  <1>1. /\ handler[c] \in {"dialing", "starting", "setting"} /\ Enters(c, "over")
        /\ Learns(c, "no connection") /\ UNCHANGED <<Rest, stmt, bounded, stmtAge>>
    BY DEF Refused, Rest
  <1>2. stmt[c] = "none"
    BY <1>1 DEF SInv, Requests, Statement, Unsent
  <1>3. "no connection" \in Answers \ {"none"} /\ Knows(c, "no connection")
    BY <1>2 DEF Answers, Knows
  <1> QED  BY <1>1, <1>3, Returns

LEMMA WrittenKeeps == ASSUME SInv, NEW c \in Clients, Written(c) PROVE SInv'
  <1> USE DEF ServingTypeOK, Answers
  <1>1. /\ handler[c] = "writing" /\ handler' = [handler EXCEPT ![c] = "reading"]
        /\ waited' = [waited EXCEPT ![c] = 0] /\ stmt' = [stmt EXCEPT ![c] = "running"]
        /\ UNCHANGED <<vars, limit, outcome, told, bounded, slot, age, stmtAge, main>>
        /\ ~ContextOver(c) /\ Alive' = Alive /\ conn' = conn
    BY DEF Written, Goes, Enters, Alive, vars
  <1>2. ServingTypeOK'
    BY <1>1 DEF SInv, Waits, WithContext
  <1>3. /\ handler'[c] = "reading" /\ waited'[c] = 0 /\ stmt'[c] = "running" /\ Requests(c)
        /\ limit.statement \in Nat /\ limit.read \in Nat
    BY <1>1, LimitType DEF SInv
  <1>4. told[c] = "none" /\ outcome[c] = "none" /\ stmt[c] = "none"
    BY <1>1, <1>3 DEF Requests, TooLate, Statement, Unsent
  <1>5. Asks(c)' /\ Session(c)' /\ TooLate(c)'
    BY <1>1, <1>3, <1>4 DEF Requests, Asks, Session, TooLate
  <1>6. Statement(c)'
    BY <1>1, <1>3, <1>4 DEF Requests, Statement, Knows, Unsent
  <1>7. Bounded(c)'
    <2>1. Allowance(c)' = limit.read
      BY <1>1, <1>3 DEF Allowance
    <2>2. stmtAge[c] = 0
      BY <1>3, <1>4 DEF Requests, Statement
    <2>3. limit.request # Off => age[c] <= limit.request
      BY <1>1, <1>3 DEF Requests, Bounded, WithContext
    <2> QED  BY <1>1, <1>3, <2>1, <2>2, <2>3 DEF Requests, Bounded
  <1>8. \A d \in Clients \ {c} : Requests(d)'
    BY <1>1, RequestKept DEF SInv
  <1> QED  BY <1>2, <1>5, <1>6, <1>7, <1>8 DEF SInv, Requests

LEMMA ReadKeeps == ASSUME SInv, NEW c \in Clients, Read(c) \/ LastRow(c) PROVE SInv'
  <1>1. /\ handler[c] \in {"reading", "rows"} /\ Enters(c, "over") /\ stmt[c] \in {"stored", "stopped"}
        /\ UNCHANGED <<Rest, stmt, bounded, stmtAge>>
    BY DEF Read, LastRow, Rest
  <1>2. PICK o \in {Result(c), "timed out"} : Learns(c, o)
    BY DEF Read, LastRow
  <1>3. o \in Answers \ {"none"} /\ Knows(c, o)
    BY <1>1, <1>2 DEF Answers, Knows, Result
  <1> QED  BY <1>1, <1>2, <1>3, Returns

LEMMA RowKeeps == ASSUME SInv, NEW c \in Clients, Row(c) PROVE SInv'
  <1>1. /\ handler[c] = "reading" /\ Enters(c, "rows") /\ outcome' = outcome /\ bounded' = bounded
        /\ UNCHANGED <<Rest, stmt, stmtAge>>
    BY DEF Row, Goes, Rest
  <1>2. "rows" \in Waits /\ "rows" \notin WithContext /\ "rows" \notin Unsent
    BY DEF Waits, WithContext, Unsent
  <1>3. outcome' \in {outcome, [outcome EXCEPT ![c] = "none"]} /\ "none" \in Answers
        /\ bounded \in [Clients -> BOOLEAN]
    BY <1>1 DEF Answers, SInv, ServingTypeOK
  <1> QED  BY <1>1, <1>2, <1>3, Proceeds

(* Rows that are cut short or time out are drained.                        *)
LEMMA DrainsKeep ==
    ASSUME SInv, NEW c \in Clients, handler[c] = "rows", Enters(c, "draining"),
           Learns(c, "timed out"), UNCHANGED <<Rest, stmt, bounded, stmtAge>>
    PROVE  SInv'
  <1>1. /\ "draining" \in Waits /\ "draining" \notin WithContext /\ "draining" \notin Unsent
        /\ "timed out" \in Answers
    BY DEF Waits, WithContext, Unsent, Answers
  <1>2. outcome[c] = "none" /\ outcome \in [Clients -> Answers] /\ bounded \in [Clients -> BOOLEAN]
    BY DEF SInv, ServingTypeOK, Requests, Statement
  <1>3. /\ outcome'[c] = IF told[c] = "none" THEN "timed out" ELSE "none"
        /\ outcome' \in {outcome, [outcome EXCEPT ![c] = "timed out"]}
    BY <1>2 DEF Learns
  <1>4. outcome'[c] \in Answers /\ Knows(c, outcome'[c])
    BY <1>3 DEF Answers, Knows
  <1> QED  BY <1>1, <1>2, <1>3, <1>4, Proceeds

(* What a handler returns once it has drained was settled before.          *)
LEMMA DrainedKeeps ==
    ASSUME SInv, NEW c \in Clients, handler[c] = "draining", Enters(c, "over"),
           UNCHANGED <<Rest, outcome, stmt, bounded, stmtAge>>
    PROVE  SInv'
  <1> USE DEF Rest
  <1>0. /\ handler' = [handler EXCEPT ![c] = "over"] /\ waited' = [waited EXCEPT ![c] = 0]
        /\ Alive' = Alive /\ conn' = conn
    BY DEF Enters, Alive, vars
  <1>1. ServingTypeOK'
    BY <1>0 DEF SInv, ServingTypeOK
  <1>2. handler'[c] = "over" /\ Requests(c)
    BY <1>0 DEF SInv, ServingTypeOK
  <1>3. Asks(c)' /\ Session(c)' /\ TooLate(c)'
    BY <1>0, <1>2 DEF Requests, Asks, Session, TooLate, Unsent
  <1>4. Statement(c)'
    BY <1>0, <1>2 DEF Requests, Statement, Knows, Unsent
  <1>5. Bounded(c)'
    BY <1>0, <1>2 DEF Requests, Bounded, Waits, WithContext
  <1>6. \A d \in Clients \ {c} : Requests(d)'
    BY <1>0, RequestKept DEF SInv, ServingTypeOK
  <1> QED  BY <1>1, <1>3, <1>4, <1>5, <1>6 DEF SInv, Requests

LEMMA WaitFailsKeeps == ASSUME SInv, NEW c \in Clients, WaitFails(c) PROVE SInv'
  <1>1. UNCHANGED <<Rest, stmt, bounded, stmtAge>> /\ handler[c] \in Waits
    BY DEF WaitFails, Rest
  <1>2. CASE handler[c] = "rows"
    BY <1>1, <1>2, DrainsKeep DEF WaitFails, Late
  <1>3. CASE handler[c] = "draining"
    BY <1>1, <1>3, DrainedKeeps DEF WaitFails
  <1>4. CASE handler[c] \in WithContext
    <2>1. Enters(c, "over") /\ handler[c] \notin {"none", "draining", "over"}
      BY <1>4 DEF WaitFails, WithContext
    <2>2. PICK o \in {"no connection", "timed out"} :
              Learns(c, o) /\ (o = "no connection" => handler[c] = "dialing")
      BY <1>4 DEF WaitFails, WithContext, Late
    <2>3. o \in Answers \ {"none"} /\ Knows(c, o)
      BY <2>2 DEF Answers, Knows, SInv, Requests, Statement, Unsent
    <2> QED  BY <1>1, <2>1, <2>2, <2>3, Returns
  <1> QED  BY <1>1, <1>2, <1>3, <1>4 DEF Waits

LEMMA DriverKeeps == ASSUME SInv, NEW c \in Clients, Driver(c) PROVE SInv'
  <1>1. CASE CutShort(c)
    BY <1>1, DrainsKeep DEF CutShort, Rest
  <1>2. CASE Emptied(c)
    BY <1>2, DrainedKeeps DEF Emptied, Goes, Rest
  <1> QED
    BY <1>1, <1>2, ConnectsKeeps, RefusedKeeps, WrittenKeeps, ReadKeeps, RowKeeps, WaitFailsKeeps,
       QueueKeeps
    DEF Driver

LEMMA BackendKeeps ==
    ASSUME SInv, NEW c \in Clients, NEW s \in {"stored", "stopped"}, Backend(c, s) PROVE SInv'
  <1> USE DEF ServingTypeOK
  <1>0. /\ stmt[c] = "running" /\ stmt' = [stmt EXCEPT ![c] = s] /\ stmtAge' = [stmtAge EXCEPT ![c] = 0]
        /\ UNCHANGED <<limit, handler, waited, outcome, told, bounded, slot, age, main>>
        /\ Alive' = Alive /\ conn' = conn
    BY DEF Backend, Alive, vars
  <1>1. ServingTypeOK'
    BY <1>0 DEF SInv
  <1>2. stmt'[c] = s /\ stmtAge'[c] = 0 /\ Requests(c)
    BY <1>0 DEF SInv
  <1>3. Asks(c)' /\ Session(c)' /\ TooLate(c)'
    BY <1>0, <1>2 DEF Requests, Asks, Session, TooLate, ContextOver, Expired
  <1>4. Statement(c)'
    BY <1>0, <1>2 DEF Requests, Statement, Knows
  <1>5. Bounded(c)'
    BY <1>0, <1>2 DEF Requests, Bounded, Allowance
  <1>6. \A d \in Clients \ {c} : Requests(d)'
    BY <1>0, RequestKept DEF SInv
  <1> QED  BY <1>1, <1>3, <1>4, <1>5, <1>6 DEF SInv, Requests

(* An answer, of the handler or of the middleware.                         *)
LEMMA AnswerKeeps ==
    ASSUME TypeOK, SInv, Alive, NEW c \in Clients, Answer(c) \/ Timeout(c) PROVE SInv'
  <1> USE DEF ServingTypeOK, TypeOK
  <1>1. PICK t \in (Answers \ {"none"}) \cup {"408"} :
            /\ Tell(c, t) /\ Knows(c, t)
            /\ t # "408" => handler[c] = "over"
            /\ t = "408" => Expired(c)
    <2>1. CASE Answer(c)
      <3>1. outcome[c] \in Answers \ {"none"} /\ Knows(c, outcome[c])
        BY <2>1 DEF Answer, Tell, SInv, Requests, Statement
      <3>2. outcome[c] # "408"
        BY <3>1 DEF Answers
      <3> QED  BY <2>1, <3>1, <3>2 DEF Answer
    <2>2. CASE Timeout(c)
      BY <2>2 DEF Timeout, TimedOut, Knows
    <2> QED  BY <2>1, <2>2
  <1>2. /\ told[c] = "none" /\ told' = [told EXCEPT ![c] = t] /\ outcome' = [outcome EXCEPT ![c] = "none"]
        /\ age' = [age EXCEPT ![c] = IF handler[c] = "over" THEN 0 ELSE age[c]]
        /\ UNCHANGED <<limit, handler, waited, stmt, bounded, slot, stmtAge, main>> /\ Alive' = Alive
        /\ conn[c] = "active" /\ conn'[c] # "active" /\ \A d \in Clients \ {c} : conn'[d] = conn[d]
    BY <1>1 DEF Tell, Respond, Become, Alive
  <1>3. ServingTypeOK'
    BY <1>2 DEF SInv, Answers
  <1>4. Requests(c)'
    <2>1. Requests(c) /\ told'[c] = t /\ outcome'[c] = "none" /\ t # "none" /\ handler[c] # "none"
      BY <1>2 DEF SInv, Requests, Asks
    <2>2. age'[c] = IF handler[c] = "over" THEN 0 ELSE age[c]
      BY <1>2 DEF SInv
    <2>3. Asks(c)' /\ Session(c)'
      BY <1>2, <2>1 DEF Requests, Asks, Session
    <2>4. TooLate(c)'
      BY <1>1, <1>2, <2>1, <2>2 DEF TooLate, ContextOver, Expired, Unsent
    <2>5. Statement(c)'
      BY <1>1, <1>2, <2>1, <2>2 DEF Requests, Statement, Knows, Unsent
    <2>6. Bounded(c)'
      BY <1>2, <2>1, <2>2 DEF Requests, Bounded, Waits, WithContext, Allowance
    <2> QED  BY <2>3, <2>4, <2>5, <2>6 DEF Requests
  <1>5. \A d \in Clients \ {c} : Requests(d)'
    BY <1>2, RequestKept DEF SInv
  <1> QED  BY <1>3, <1>4, <1>5 DEF SInv

LEMMA SInvNext == TypeOK /\ SInv /\ [ServingNext]_servingVars => SInv'
  <1> SUFFICES ASSUME TypeOK, SInv, [ServingNext]_servingVars PROVE SInv'
    OBVIOUS
  <1>1. CASE UNCHANGED servingVars
    BY <1>1, SlotsOnly DEF servingVars, requestVars, Alive
  <1>2. CASE Lifecycle
    <2>1. ServingTypeOK'
      BY <1>2 DEF Lifecycle, requestVars, SInv, ServingTypeOK
    <2>2. ASSUME NEW c \in Clients PROVE Requests(c)'
      BY <1>2, <2>2, RequestKept, ActiveKept DEF Lifecycle, requestVars, SInv, Alive
    <2> QED  BY <2>1, <2>2 DEF SInv
  <1>3. CASE CloseDB \/ \E s \in Slots : Opens(s)
    BY <1>3, SlotsOnly DEF CloseDB, Opens, Alive
  <1>4. ASSUME Alive, NEW c \in Clients, Begin(c) \/ Resolver(c) \/ Driver(c) \/ Timeout(c)
        PROVE  SInv'
    BY <1>4, BeginKeeps, QueueKeeps, AnswerKeeps, AcquireKeeps, DriverKeeps DEF Resolver
  <1>5. ASSUME NEW c \in Clients, Finishes(c) \/ Stopped(c) PROVE SInv'
    BY <1>5, BackendKeeps DEF Finishes, Stopped
  <1> QED
    BY <1>1, <1>2, <1>3, <1>4, <1>5, ExitKeeps, TickKeeps DEF ServingNext, Process

-----------------------------------------------------------------------------
(* Both invariants hold of every reachable state.                          *)
THEOREM ServingInductive == ServingSpec => [](IInv /\ SInv)
  <1>1. ServingSpec => []IInv
    BY Implements, Inductive, PTL
  <1>2. IInv => TypeOK
    BY DEF IInv
  <1>3. ServingSpec => []SInv
    BY <1>1, <1>2, SInvInit, SInvNext, PTL DEF ServingSpec
  <1> QED  BY <1>1, <1>3, PTL

(* Requests and their timeouts change nothing of what Run answers.         *)
THEOREM ServingExitHonest == ServingSpec => []ExitHonest
  BY Implements, ExitIsHonest, PTL

(* A client is told of its statement only what is so, whichever of the     *)
(* handler, the middleware, the driver and the backend was late.           *)
THEOREM WhatIsToldIsSo == ServingSpec => []ToldTruth
  <1>1. SInv => ToldTruth
    BY DEF SInv, Requests, Statement, Knows, ToldTruth
  <1> QED  BY <1>1, ServingInductive, PTL

(* The timeouts hold side by side, for any values of them: none needs      *)
(* another to be shorter.  Each bounds one wait, and not their sum.        *)
THEOREM BoundsHold == ServingSpec => []WithinBounds
  <1>1. SInv => WithinBounds
    BY DEF SInv, Requests, Bounded, WithinBounds
  <1> QED  BY <1>1, ServingInductive, PTL

(* A nil from Run leaves nobody waiting: the handlers that still run are   *)
(* of requests that were answered 408.                                     *)
THEOREM NobodyWaits == ServingSpec => []OnlyAbandonedLeft
  <1>1. IInv /\ SInv => OnlyAbandonedLeft
    BY DEF IInv, Drain, NothingOpen, Open, SInv, Requests, Asks, Statement, OnlyAbandonedLeft
  <1> QED  BY <1>1, ServingInductive, PTL

(* Nothing is sent to the database for a request that was answered.        *)
THEOREM NoLateStatement == ServingSpec => NothingBegunLate
  <1>1. SInv /\ [ServingNext]_servingVars =>
            [\A c \in Clients : stmt[c] = "none" /\ stmt'[c] # "none" => told[c] = "none"]_servingVars
    <2> SUFFICES ASSUME SInv, [ServingNext]_servingVars, NEW c \in Clients,
                        stmt[c] = "none", stmt'[c] # "none"
                 PROVE  told[c] = "none"
      OBVIOUS
    <2> USE DEF SInv, ServingTypeOK
    <2>1. stmt'[c] # stmt[c]
      OBVIOUS
    <2>2. ~(Lifecycle \/ CloseDB \/ Exit \/ Tick \/ UNCHANGED servingVars \/ \E s \in Slots : Opens(s))
      BY <2>1 DEF Lifecycle, requestVars, CloseDB, Exit, Tick, Opens, servingVars
    <2>3. ASSUME NEW d \in Clients
          PROVE  ~(\/ Begin(d) \/ LeaveQueue(d) \/ Answer(d) \/ Timeout(d) \/ Finishes(d) \/ Stopped(d)
                   \/ \E s \in Slots : Acquire(d, s))
      BY <2>1 DEF Begin, LeaveQueue, Answer, Timeout, Tell, Acquire, Finishes, Stopped, Backend
    <2>4. ASSUME NEW d \in Clients
          PROVE  ~(\/ Connects(d) \/ Refused(d) \/ Read(d) \/ Row(d) \/ LastRow(d) \/ CutShort(d)
                   \/ Emptied(d) \/ WaitFails(d) \/ OpenFails(d))
      BY <2>1 DEF Connects, Refused, Read, Row, LastRow, CutShort, Emptied, WaitFails, OpenFails
    <2>5. PICK d \in Clients : Written(d)
      BY <2>2, <2>3, <2>4 DEF ServingNext, Process, Resolver, Driver
    <2>6. Written(c)
      BY <2>1, <2>5 DEF Written
    <2> QED  BY <2>6 DEF Written, Goes, Requests, Statement, TooLate, Unsent
  <1> QED  BY <1>1, ServingInductive, PTL DEF ServingSpec, NothingBegunLate
=============================================================================
