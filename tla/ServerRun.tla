----------------------------- MODULE ServerRun -----------------------------
(***************************************************************************)
(* The life of a server under Run (src/server/server.go): the caller of    *)
(* Run, the goroutine that runs app.Listener, the context the caller       *)
(* cancels, the drain window, and the clients' connections.                *)
(*                                                                         *)
(* fasthttp's Serve and Shutdown are not part of the repository.  They are *)
(* modelled from what Run relies on and says of them (lines 339-346):      *)
(* Serve registers the listener and accepts until Accept fails, which is a *)
(* nil return when the listener was closed; it does not wait for the       *)
(* connections it has accepted.  Shutdown returns nil at once when no      *)
(* listener is registered; otherwise it closes it, closes idle connections *)
(* and waits until nothing is open or its context ends.                    *)
(***************************************************************************)
EXTENDS Naturals, Sequences

CONSTANT Clients   \* each opens at most one connection

VARIABLES
    run,         \* where Run stands
    result,      \* what Run returned: "none" until it has
    cancelled,   \* ctx is done
    ln,          \* the listening socket: "none", "open", "closed"
    errc,        \* the channel that carries Listener's return value
    shutErr,     \* what ShutdownWithContext returned
    windowOver,  \* the drain window, sctx, has ended
    serve,       \* where the listener goroutine stands
    serveVal,    \* what app.Listener returned
    registered,  \* fasthttp's s.ln is not nil
    stopping,    \* fasthttp's s.stop
    conn,        \* conn[c]: the state of client c's connection
    sawServer    \* history: Shutdown found a listener registered

runVars   == <<run, result, shutErr, sawServer>>
serveVars == <<serve, serveVal>>
vars == <<run, result, cancelled, ln, errc, shutErr, windowOver, serve,
          serveVal, registered, stopping, conn, sawServer>>

Init == /\ run = "entry" /\ result = "none" /\ shutErr = "nil" /\ sawServer = FALSE
        /\ cancelled \in BOOLEAN /\ windowOver = FALSE
        /\ ln = "none" /\ errc = <<>>
        /\ serve = "none" /\ serveVal = "none"
        /\ registered = FALSE /\ stopping = FALSE
        /\ conn = [c \in Clients |-> "away"]

Return(v) == run' = "returned" /\ result' = v

(* Connections the kernel accepted but Serve did not are reset when the    *)
(* socket is closed.                                                       *)
CloseSocket == /\ ln' = "closed"
               /\ conn' = [c \in Clients |-> IF conn[c] = "backlog" THEN "reset" ELSE conn[c]]

-----------------------------------------------------------------------------
(* Run itself, one action per step.                                        *)
Entry == /\ run = "entry"
         /\ IF cancelled THEN Return("nil") ELSE run' = "listen" /\ UNCHANGED result
         /\ UNCHANGED <<cancelled, ln, errc, shutErr, windowOver, serveVars,
                        registered, stopping, conn, sawServer>>

Listen == /\ run = "listen"
          /\ \/ Return("bind") /\ UNCHANGED ln
             \/ run' = "spawn" /\ ln' = "open" /\ UNCHANGED result
          /\ UNCHANGED <<cancelled, errc, shutErr, windowOver, serveVars,
                         registered, stopping, conn, sawServer>>

(* New(cfg), the channel, and the goroutine.                               *)
Spawn == /\ run = "spawn"
         /\ run' = "select" /\ serve' = "starting"
         /\ UNCHANGED <<result, cancelled, ln, errc, shutErr, windowOver, serveVal,
                        registered, stopping, conn, sawServer>>

(* The select takes either ready case.                                     *)
ListenerDied == /\ run = "select" /\ errc # <<>>
                /\ Return(Head(errc)) /\ errc' = Tail(errc)
                /\ UNCHANGED <<cancelled, ln, shutErr, windowOver, serveVars,
                               registered, stopping, conn, sawServer>>

ContextDone == /\ run = "select" /\ cancelled
               /\ run' = "shutdown"
               /\ UNCHANGED <<result, cancelled, ln, errc, shutErr, windowOver,
                              serveVars, registered, stopping, conn, sawServer>>

(* ShutdownWithContext begins.                                             *)
Shutdown == /\ run = "shutdown"
            /\ sawServer' = registered
            /\ IF registered
               THEN run' = "drain" /\ stopping' = TRUE /\ CloseSocket
               ELSE run' = "close" /\ UNCHANGED <<stopping, ln, conn>>
            /\ UNCHANGED <<result, cancelled, errc, shutErr, windowOver, serveVars, registered>>

(* ... and ends, with nothing open, or with the window.                    *)
Open(c)     == conn[c] \in {"idle", "active"}
NothingOpen == serve \in {"returning", "done"} /\ \A c \in Clients : ~Open(c)

Drained == /\ run = "drain"
           /\ \/ NothingOpen /\ UNCHANGED shutErr
              \/ windowOver /\ shutErr' = "drain"
           /\ run' = "close" /\ registered' = FALSE /\ stopping' = FALSE
           /\ UNCHANGED <<result, cancelled, ln, errc, windowOver, serveVars, conn, sawServer>>

(* ln.Close, then the error of the shutdown if it has one.  Variants: the  *)
(* listener is left to Shutdown; the error of the shutdown is dropped.     *)
AfterClose == /\ IF shutErr = "nil" THEN run' = "collect" /\ UNCHANGED result
                                    ELSE Return(shutErr)
              /\ UNCHANGED <<cancelled, errc, shutErr, windowOver, serveVars,
                             registered, stopping, sawServer>>
LeaveListener == run = "close" /\ UNCHANGED <<ln, conn>> /\ AfterClose
DropShutErr   == /\ run = "close" /\ CloseSocket
                 /\ run' = "collect" /\ UNCHANGED result
                 /\ UNCHANGED <<cancelled, errc, shutErr, windowOver, serveVars,
                                registered, stopping, sawServer>>
CloseListener == run = "close" /\ CloseSocket /\ AfterClose

(* return <-errc.  Variants: return nil without waiting, or waiting but    *)
(* discarding the value.                                                   *)
CollectNothing == /\ run = "collect" /\ Return("nil")
                  /\ UNCHANGED <<cancelled, ln, errc, shutErr, windowOver, serveVars,
                                 registered, stopping, conn, sawServer>>
CollectNil == /\ run = "collect" /\ errc # <<>>
              /\ Return("nil") /\ errc' = Tail(errc)
              /\ UNCHANGED <<cancelled, ln, shutErr, windowOver, serveVars,
                             registered, stopping, conn, sawServer>>
Collect == /\ run = "collect" /\ errc # <<>>
           /\ Return(Head(errc)) /\ errc' = Tail(errc)
           /\ UNCHANGED <<cancelled, ln, shutErr, windowOver, serveVars,
                          registered, stopping, conn, sawServer>>

Run == \/ Entry \/ Listen \/ Spawn \/ ListenerDied \/ ContextDone
       \/ Shutdown \/ Drained \/ CloseListener \/ Collect

-----------------------------------------------------------------------------
(* The listener goroutine: app.Listener, which is fasthttp's Serve, and    *)
(* the send of its return value.                                           *)
ServeStart == /\ serve = "starting"
              /\ serve' = "accepting" /\ registered' = TRUE
              /\ UNCHANGED <<runVars, cancelled, ln, errc, windowOver, serveVal, stopping, conn>>

Accept(c) == /\ serve = "accepting" /\ ln = "open" /\ conn[c] = "backlog"
             /\ conn' = [conn EXCEPT ![c] = "idle"]
             /\ UNCHANGED <<runVars, cancelled, ln, errc, windowOver, serveVars,
                            registered, stopping>>

ServeReturns(v) == /\ serve' = "returning" /\ serveVal' = v
                   /\ UNCHANGED <<runVars, cancelled, ln, errc, windowOver,
                                  registered, stopping, conn>>
AcceptEOF  == serve = "accepting" /\ ln = "closed" /\ ServeReturns("nil")
AcceptFail == serve \in {"starting", "accepting"} /\ ln = "open" /\ ServeReturns("listener")

(* errc holds one value, so the send never waits.  The variant is a        *)
(* channel without a buffer, where it waits for Run to receive.            *)
SendMeetsReceiver == run \in {"select", "collect"}
SendReady         == Len(errc) < 1

Send == /\ serve = "returning" /\ SendReady
        /\ errc' = Append(errc, serveVal)
        /\ serve' = "done"
        /\ UNCHANGED <<runVars, cancelled, ln, windowOver, serveVal, registered, stopping, conn>>

Listener == ServeStart \/ AcceptEOF \/ Send

-----------------------------------------------------------------------------
(* The caller's context, the drain window and the clients.                 *)
Cancel == /\ ~cancelled /\ cancelled' = TRUE
          /\ UNCHANGED <<runVars, ln, errc, windowOver, serveVars, registered, stopping, conn>>

WindowEnds == /\ run = "drain" /\ ~windowOver /\ windowOver' = TRUE
              /\ UNCHANGED <<runVars, cancelled, ln, errc, serveVars, registered, stopping, conn>>

Become(c, s) == /\ conn' = [conn EXCEPT ![c] = s]
                /\ UNCHANGED <<runVars, cancelled, ln, errc, windowOver, serveVars,
                               registered, stopping>>
Connect(c)   == conn[c] = "away" /\ ln = "open" /\ Become(c, "backlog")
Request(c)   == conn[c] = "idle" /\ Become(c, "active")
Respond(c)   == conn[c] = "active" /\ Become(c, IF stopping THEN "closed" ELSE "idle")
HangUp(c)    == conn[c] = "idle" /\ Become(c, "closed")
CloseIdle(c) == run = "drain" /\ conn[c] = "idle" /\ Become(c, "closed")

Next == \/ Run \/ Listener \/ AcceptFail \/ Cancel \/ WindowEnds
        \/ \E c \in Clients : \/ Accept(c) \/ Connect(c) \/ Request(c)
                              \/ Respond(c) \/ HangUp(c) \/ CloseIdle(c)

Spec == Init /\ [][Next]_vars

-----------------------------------------------------------------------------
(* Every variable has its type, and Run has a result exactly when it has   *)
(* returned.                                                               *)
TypeOK == /\ run \in {"entry", "listen", "spawn", "select", "shutdown", "drain",
                      "close", "collect", "returned"}
          /\ result \in {"none", "nil", "bind", "listener", "drain"}
          /\ (run = "returned") <=> (result # "none")
          /\ cancelled \in BOOLEAN /\ windowOver \in BOOLEAN
          /\ registered \in BOOLEAN /\ stopping \in BOOLEAN /\ sawServer \in BOOLEAN
          /\ ln \in {"none", "open", "closed"}
          /\ errc \in {<<>>, <<"nil">>, <<"listener">>}
          /\ shutErr \in {"nil", "drain"}
          /\ serve \in {"none", "starting", "accepting", "returning", "done"}
          /\ serveVal \in {"none", "nil", "listener"}
          /\ conn \in [Clients -> {"away", "backlog", "idle", "active", "closed", "reset"}]

(* What Run returns is so.  Of a server that it found serving, nil says    *)
(* that every connection was finished, and the error that the drain window *)
(* ended: a forced close is never a clean exit.                            *)
CleanExitDrained ==
    (run = "returned" /\ sawServer) =>
        /\ result = "nil" => \A c \in Clients : ~Open(c)
        /\ result = "drain" => windowOver

(* Nil also means that nothing of the server is left behind: the listener  *)
(* goroutine has ended and the socket is closed, also when the context was *)
(* cancelled before Serve had registered its listener.                     *)
CleanExitStopped ==
    (result = "nil" /\ ln # "none") => ln = "closed" /\ serve = "done"

(* A listener that failed by itself is never reported as a clean exit,     *)
(* whichever case the select took.                                         *)
ListenerErrorReported == result = "nil" => serveVal # "listener"

(* What Run returns says how the server ended: all three of the above.     *)
ExitHonest == CleanExitDrained /\ CleanExitStopped /\ ListenerErrorReported
=============================================================================
