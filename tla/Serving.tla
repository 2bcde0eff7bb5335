------------------------------ MODULE Serving ------------------------------
(***************************************************************************)
(* Requests inside a server under Run: what RequestTimeout, the pool that  *)
(* Connect makes and PostgreSQL do with them, composed with ServerRun.     *)
(*                                                                         *)
(* A request is served by a handler that queues for a slot of the pool     *)
(* (sql.DB's conn), dials if the slot has no connection, sends one         *)
(* statement and reads its answer: an Exec's at once, a query's up to the  *)
(* row description and then row by row (db.go:66-90, server.go:83-104).    *)
(* Fiber's timeout middleware (Mount, server.go:506-515) answers 408 at    *)
(* the deadline and leaves the handler running, with the deadline on its   *)
(* context.  A context stops the waiting and never the statement: pgdriver *)
(* turns it into a socket deadline, up to the row description, and gives   *)
(* the connection up, while the backend runs on, until it is done or       *)
(* statement_timeout stops it.                                             *)
(*                                                                         *)
(* Time is counted in the largest unit the settings share, per request.    *)
(***************************************************************************)
EXTENDS ServerRun, FiniteSets

CONSTANTS Slots,    \* the connections SetMaxOpenConns allows
          Watchful, \* the clients whose resolver watches its context
          Settings  \* the timeouts to try; Off for no statement or request timeout

Off == 0

ASSUME ServingConstants ==
    /\ Settings \subseteq [dial : Nat, write : Nat, read : Nat, statement : Nat, request : Nat]
    /\ \A t \in Settings : t.dial # Off /\ t.write # Off /\ t.read # Off
    /\ Watchful \subseteq Clients

VARIABLES
    limit,     \* the timeouts of this process
    handler,   \* handler[c]: "none", "queued", a wait on its connection, or "over"
    waited,    \* waited[c]: the time of that wait
    outcome,   \* outcome[c]: what the handler returned
    told,      \* told[c]: what the client was answered
    stmt,      \* stmt[c]: the statement, as its backend has it
    bounded,   \* bounded[c]: that backend was SET a statement_timeout
    slot,      \* slot[s]: "closed", "idle", or the client whose handler holds it
    age,       \* age[c]: time since the request began
    stmtAge,   \* stmtAge[c]: time since its statement was sent
    main       \* "serving", "closed" once db.Close has run, then "exited"

requestVars == <<limit, handler, waited, outcome, told, stmt, bounded, slot, age, stmtAge, main>>
servingVars == <<vars, requestVars>>

ServingInit ==
    /\ Init
    /\ limit \in Settings
    /\ handler = [c \in Clients |-> "none"] /\ waited = [c \in Clients |-> 0]
    /\ outcome = [c \in Clients |-> "none"]
    /\ told = [c \in Clients |-> "none"]    /\ stmt = [c \in Clients |-> "none"]
    /\ bounded = [c \in Clients |-> FALSE]
    /\ slot \in {[s \in Slots |-> IF s = boot THEN "idle" ELSE "closed"] : boot \in Slots}
    /\ age = [c \in Clients |-> 0] /\ stmtAge = [c \in Clients |-> 0]
    /\ main = "serving"

-----------------------------------------------------------------------------
(* The deadline, which Mount sets on the context before the adaptor reads  *)
(* it.  The variant nests the timeout inside the adaptor, where no         *)
(* resolver sees it.                                                       *)
Expired(c)     == limit.request # Off /\ age[c] >= limit.request
Invisible(c)   == FALSE
ContextOver(c) == Expired(c)

(* The waits of a handler on its connection.  Each has a timeout of its    *)
(* own; those up to the row description end with the context too, and the  *)
(* rows, and the drain in rows.Close, do not.  The variant is a driver     *)
(* that knows its own timeouts alone.  Bounds: the startup is one wait, as *)
(* are the SETs, the rows and the drain.                                   *)
WithContext    == {"dialing", "starting", "setting", "writing", "reading"}
Waits          == WithContext \cup {"rows", "draining"}
Allowance(c)   == CASE handler[c] = "dialing" -> limit.dial
                    [] handler[c] = "writing" -> limit.write
                    [] OTHER -> limit.read
WaitAlone(c)   == waited[c] >= Allowance(c)
WaitOver(c)    == waited[c] >= Allowance(c) \/ (handler[c] \in WithContext /\ ContextOver(c))

(* A request on an accepted connection starts a handler.                   *)
Begin(c) == /\ Request(c) /\ handler[c] = "none"
            /\ handler' = [handler EXCEPT ![c] = "queued"]
            /\ UNCHANGED <<limit, waited, outcome, told, stmt, bounded, slot, age, stmtAge, main>>

Enters(c, wait) == /\ handler' = [handler EXCEPT ![c] = wait]
                   /\ waited' = [waited EXCEPT ![c] = 0]

(* What the handler's call returns; after a 408 it goes nowhere.           *)
Learns(c, o) == outcome' = IF told[c] = "none" THEN [outcome EXCEPT ![c] = o] ELSE outcome

(* A slot is had: an idle connection first, or a new one to be dialled.    *)
Acquire(c, s) ==
    /\ handler[c] = "queued" /\ ~ContextOver(c) /\ main = "serving"
    /\ slot[s] = "idle" \/ (slot[s] = "closed" /\ \A x \in Slots : slot[x] # "idle")
    /\ Enters(c, IF slot[s] = "idle" THEN "writing" ELSE "dialing")
    /\ slot' = [slot EXCEPT ![s] = c]
    /\ bounded' = [bounded EXCEPT ![c] = slot[s] = "idle" /\ limit.statement # Off]
    /\ UNCHANGED <<vars, limit, outcome, told, stmt, age, stmtAge, main>>

(* The wait for a slot ends with the context, or with the pool.            *)
LeaveQueue(c) == /\ handler[c] = "queued" /\ Enters(c, "over")
                 /\ \/ ContextOver(c) /\ Learns(c, "timed out")
                    \/ main # "serving" /\ Learns(c, "no connection")
                 /\ UNCHANGED <<vars, limit, told, stmt, bounded, slot, age, stmtAge, main>>

(* For those who queue the pool also dials in the background, on a context *)
(* of its own, and hands a failure to one of them.  How long that takes is *)
(* nobody's wait but the queue's.                                          *)
Opens(s) == /\ slot[s] = "closed" /\ main = "serving" /\ \E c \in Clients : handler[c] = "queued"
            /\ slot' = [slot EXCEPT ![s] = "idle"]
            /\ UNCHANGED <<vars, limit, handler, waited, outcome, told, stmt, bounded, age, stmtAge, main>>

OpenFails(c) == /\ handler[c] = "queued" /\ \E s \in Slots : slot[s] = "closed"
                /\ Enters(c, "over") /\ Learns(c, "no connection")
                /\ UNCHANGED <<vars, limit, told, stmt, bounded, slot, age, stmtAge, main>>

-----------------------------------------------------------------------------
(* A new connection: the dial, the startup, the SETs, each of which the    *)
(* server may refuse.  The variant counts on the SETs of the boot.         *)
SetAtBoot == FALSE
Sets      == limit.statement # Off

Goes(c, from, to) == handler[c] = from /\ Enters(c, to)
Dialled(c) == Goes(c, "dialing", "starting") /\ UNCHANGED bounded
Started(c) == Goes(c, "starting", IF Sets THEN "setting" ELSE "writing") /\ UNCHANGED bounded
SetDone(c) == Goes(c, "setting", "writing") /\ bounded' = [bounded EXCEPT ![c] = TRUE]
Connects(c) == /\ Dialled(c) \/ Started(c) \/ SetDone(c)
               /\ UNCHANGED <<vars, limit, outcome, told, stmt, slot, age, stmtAge, main>>

(* The slot of a handler that is done with it: kept with its connection,   *)
(* or free without.                                                        *)
Frees(c, s) == slot' = [x \in Slots |-> IF slot[x] = c THEN (IF main = "serving" THEN s ELSE "closed")
                                                       ELSE slot[x]]

Refused(c) == /\ handler[c] \in {"dialing", "starting", "setting"}
              /\ Enters(c, "over") /\ Learns(c, "no connection") /\ Frees(c, "closed")
              /\ UNCHANGED <<vars, limit, told, stmt, bounded, age, stmtAge, main>>

(* The statement is sent when all of it is written.                        *)
Written(c) == /\ Goes(c, "writing", "reading") /\ ~ContextOver(c)
              /\ stmt' = [stmt EXCEPT ![c] = "running"]
              /\ UNCHANGED <<vars, limit, outcome, told, bounded, slot, age, stmtAge, main>>

(* The reply, of which a 57014 costs the connection (checkBadConn), or the *)
(* row description, and the rows.  What ends them keeps the connection.    *)
Result(c) == IF stmt[c] = "stored" THEN "stored" ELSE "57014"
Read(c) == /\ handler[c] = "reading" /\ stmt[c] \in {"stored", "stopped"}
           /\ Enters(c, "over") /\ Learns(c, Result(c))
           /\ Frees(c, IF stmt[c] = "stored" THEN "idle" ELSE "closed")
           /\ UNCHANGED <<vars, limit, told, stmt, bounded, age, stmtAge, main>>

Row(c) == /\ Goes(c, "reading", "rows")
          /\ UNCHANGED <<vars, limit, outcome, told, stmt, bounded, slot, age, stmtAge, main>>

LastRow(c) == /\ handler[c] = "rows" /\ stmt[c] \in {"stored", "stopped"}
              /\ Enters(c, "over") /\ Frees(c, "idle")
              /\ Learns(c, Result(c)) \/ (ContextOver(c) /\ Learns(c, "timed out"))
              /\ UNCHANGED <<vars, limit, told, stmt, bounded, age, stmtAge, main>>

(* Between two rows database/sql looks at the context (awaitDone), and     *)
(* rows.Close reads what is left.                                          *)
CutShort(c) == /\ handler[c] = "rows" /\ ContextOver(c)
               /\ Enters(c, "draining") /\ Learns(c, "timed out")
               /\ UNCHANGED <<vars, limit, told, stmt, bounded, slot, age, stmtAge, main>>

Emptied(c) == /\ Goes(c, "draining", "over") /\ stmt[c] \in {"stored", "stopped"}
              /\ Frees(c, IF stmt[c] = "stored" THEN "idle" ELSE "closed")
              /\ UNCHANGED <<vars, limit, outcome, told, stmt, bounded, age, stmtAge, main>>

(* A wait gives up: the connection is closed, but after a row only by the  *)
(* drain.  The variant takes every timeout for a connection never made.    *)
LateIsNever == "no connection"
Late        == "timed out"

WaitFails(c) ==
    /\ handler[c] \in Waits /\ WaitOver(c)
    /\ IF handler[c] = "rows"
       THEN Enters(c, "draining") /\ UNCHANGED slot /\ Learns(c, Late)
       ELSE /\ Enters(c, "over") /\ Frees(c, "closed")
            /\ IF handler[c] = "draining" THEN UNCHANGED outcome
               ELSE Learns(c, IF handler[c] = "dialing" THEN "no connection" ELSE Late)
    /\ UNCHANGED <<vars, limit, told, stmt, bounded, age, stmtAge, main>>

(* The backend, which knows nothing of any of this.                        *)
Backend(c, s) == /\ stmt[c] = "running" /\ stmt' = [stmt EXCEPT ![c] = s]
                 /\ stmtAge' = [stmtAge EXCEPT ![c] = 0]
                 /\ UNCHANGED <<vars, limit, handler, waited, outcome, told, bounded, slot, age, main>>
Finishes(c) == Backend(c, "stored")
TooLong(c)  == bounded[c] /\ stmtAge[c] >= limit.statement
Stopped(c)  == TooLong(c) /\ Backend(c, "stopped")

-----------------------------------------------------------------------------
(* The response: the handler's, or the middleware's at the deadline, the   *)
(* handler left to run on.  The variant waits for the handler to unwind.   *)
Tell(c, t) == /\ told[c] = "none" /\ Respond(c)
              /\ told' = [told EXCEPT ![c] = t] /\ outcome' = [outcome EXCEPT ![c] = "none"]
              /\ age' = [age EXCEPT ![c] = IF handler[c] = "over" THEN 0 ELSE @]
              /\ UNCHANGED <<limit, handler, waited, stmt, bounded, slot, stmtAge, main>>
Answer(c)  == handler[c] = "over" /\ Tell(c, outcome[c])

TimedOutUnwound(c) == Expired(c) /\ handler[c] = "over"
TimedOut(c)        == Expired(c)
Timeout(c)         == TimedOut(c) /\ Tell(c, "408")

(* main: Run has returned, the deferred db.Close runs, and the process     *)
(* ends, with every goroutine and connection in it.                        *)
CloseDB == /\ run = "returned" /\ main = "serving" /\ main' = "closed"
           /\ slot' = [s \in Slots |-> IF slot[s] = "idle" THEN "closed" ELSE slot[s]]
           /\ UNCHANGED <<vars, limit, handler, waited, outcome, told, stmt, bounded, age, stmtAge>>
Exit    == /\ main = "closed" /\ main' = "exited"
           /\ handler' = [c \in Clients |-> "over"] /\ outcome' = [c \in Clients |-> "none"]
           /\ waited' = [c \in Clients |-> 0] /\ age' = [c \in Clients |-> 0]
           /\ slot' = [s \in Slots |-> "closed"]
           /\ UNCHANGED <<vars, limit, told, stmt, bounded, stmtAge>>

(* A timer that is due fires before time goes on.  A request ages while    *)
(* its deadline matters, a statement while it runs; the counts stop just   *)
(* past the longest of the timeouts.                                       *)
Alive   == main # "exited"
Horizon == LET longest(a, b) == IF a > b THEN a ELSE b
           IN  longest(longest(limit.dial, limit.write),
                       longest(limit.statement, longest(limit.read, limit.request))) + 1
Older(n) == IF n < Horizon THEN n + 1 ELSE n
Ages(c)  == /\ limit.request # Off /\ handler[c] # "none"
            /\ told[c] = "none" \/ handler[c] \in WithContext

Due(c) == \/ Alive /\ \/ told[c] = "none" /\ conn[c] = "active" /\ TimedOut(c)
                      \/ handler[c] = "queued" /\ ContextOver(c) /\ c \in Watchful
                      \/ handler[c] \in Waits /\ WaitOver(c)
          \/ stmt[c] = "running" /\ TooLong(c)

Tick == /\ \A c \in Clients : ~Due(c)
        /\ age' = [c \in Clients |-> IF Alive /\ Ages(c) THEN Older(age[c]) ELSE age[c]]
        /\ waited' = [c \in Clients |-> IF Alive /\ handler[c] \in Waits THEN Older(waited[c])
                                                                        ELSE waited[c]]
        /\ stmtAge' = [c \in Clients |-> IF stmt[c] = "running" THEN Older(stmtAge[c])
                                                               ELSE stmtAge[c]]
        /\ <<age, waited, stmtAge>>' # <<age, waited, stmtAge>>
        /\ UNCHANGED <<vars, limit, handler, outcome, told, stmt, bounded, slot, main>>

-----------------------------------------------------------------------------
(* The server's own steps, which leave the requests alone.                 *)
Lifecycle == /\ \/ Run \/ Listener \/ AcceptFail \/ Cancel \/ WindowEnds
                \/ \E c \in Clients : Accept(c) \/ Connect(c) \/ HangUp(c) \/ CloseIdle(c)
             /\ UNCHANGED requestVars

Resolver(c) == LeaveQueue(c) \/ Answer(c) \/ \E s \in Slots : Acquire(c, s)
Driver(c)   == \/ Connects(c) \/ Refused(c) \/ Written(c) \/ Read(c) \/ Row(c) \/ LastRow(c)
               \/ CutShort(c) \/ Emptied(c) \/ WaitFails(c) \/ OpenFails(c)

(* All but the clock and the backends ends with the process.               *)
Process == /\ Alive
           /\ \/ Lifecycle \/ CloseDB \/ Exit \/ \E s \in Slots : Opens(s)
              \/ \E c \in Clients : Begin(c) \/ Resolver(c) \/ Driver(c) \/ Timeout(c)

(* The timers: of a socket, of the middleware, of PostgreSQL.              *)
Fires(c) == (Alive /\ (WaitFails(c) \/ Timeout(c))) \/ Stopped(c)

ServingNext == Process \/ Tick \/ \E c \in Clients : Finishes(c) \/ Stopped(c)

(* Run, its listener and its window as in ServerRun.  Timers fire, socket  *)
(* deadlines with them, the watchful resolvers are scheduled and time goes *)
(* on.  Any other resolver may dawdle for ever, no statement need finish,  *)
(* no message come, and main may exit as soon as Run has returned.         *)
ServingFairness ==
    /\ WF_servingVars(Alive /\ Run /\ UNCHANGED requestVars)
    /\ WF_servingVars(Alive /\ Listener /\ UNCHANGED requestVars)
    /\ WF_servingVars(Alive /\ WindowEnds /\ UNCHANGED requestVars)
    /\ WF_servingVars(Tick) /\ WF_servingVars(\E c \in Clients : Fires(c))
    /\ \A c \in Watchful : WF_servingVars(Alive /\ Resolver(c))

ServingSpec     == ServingInit /\ [][ServingNext]_servingVars
FairServingSpec == ServingSpec /\ ServingFairness

-----------------------------------------------------------------------------
(* What a client is told of its statement is so: a stored row is stored, a *)
(* 57014 stored nothing, and without a connection none was sent.  A 408,   *)
(* the context's error and an i/o timeout say nothing of it, and it may be *)
(* stored after any of them.                                               *)
ToldTruth == \A c \in Clients :
    /\ told[c] = "stored" => stmt[c] = "stored"
    /\ told[c] = "57014" => stmt[c] = "stopped"
    /\ told[c] = "no connection" => stmt[c] = "none"

(* No statement is begun for a request that was answered already: what may *)
(* still be stored after a 408 was sent before it.                         *)
NothingBegunLate ==
    [][\A c \in Clients : stmt[c] = "none" /\ stmt'[c] # "none" => told[c] = "none"]_servingVars

(* Each bound holds whatever the others are: a request is answered by its  *)
(* deadline, if the process lives; no wait on a connection outlasts its    *)
(* own timeout, nor, up to the row description, the deadline; and a        *)
(* statement occupies its backend no longer than statement_timeout, on     *)
(* whichever connection and waited for or not.  A slot is held for several *)
(* such waits, longer than ReadTimeout and, in the rows, past the deadline.*)
WithinBounds == \A c \in Clients :
    /\ conn[c] = "active" /\ limit.request # Off => age[c] <= limit.request
    /\ handler[c] \in Waits => waited[c] <= Allowance(c)
    /\ handler[c] \in WithContext /\ limit.request # Off => age[c] <= limit.request
    /\ stmt[c] = "running" /\ limit.statement # Off => stmtAge[c] <= limit.statement

(* When Run answers nil for a server that served, the only handlers that   *)
(* still run are of requests that were answered 408: neither db.Close,     *)
(* which main defers, nor the end of the process fails anybody who is      *)
(* still waiting.                                                          *)
OnlyAbandonedLeft ==
    result = "nil" /\ sawServer =>
        \A c \in Clients : handler[c] \notin {"none", "over"} => told[c] = "408"

(* While the process lives, every request is answered if there is a        *)
(* RequestTimeout, also one whose handler never looks at its context; and  *)
(* in any case a slot that is held comes back, although no statement need  *)
(* finish and no message come.                                             *)
AnsweredAndFreed ==
    []<>(Alive => \A c \in Clients : handler[c] # "none" =>
                      /\ limit.request # Off => told[c] # "none"
                      /\ handler[c] \notin Waits)

(* Once the context is cancelled Run returns, although no handler need     *)
(* ever answer and however early the cancellation comes; and the listener  *)
(* goroutine ends with its socket, also when Run has returned the error of *)
(* the shutdown and receives no more, or else with the process.            *)
RunEnds == []<>(/\ cancelled => run = "returned"
                /\ ln = "closed" => serve = "done" \/ ~Alive)
=============================================================================
