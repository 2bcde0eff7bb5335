-------------------------------- MODULE Cors ---------------------------------
(***************************************************************************)
(* The CORS middleware of src/server/middleware.go with a shared cache     *)
(* between the browsers and the server: its own comment names the cache as *)
(* the reason for the line that sets Vary.                                 *)
(*                                                                         *)
(* The cache is external.  It holds responses to one URL and serves a      *)
(* stored one to any request, or, where the response varies by Origin, to  *)
(* one with the Origin of the request it was stored for; it may also drop  *)
(* a response, or not store it at all.  The 408 of RequestTimeout, which   *)
(* is made outside of the middleware, is not among the responses.          *)
(***************************************************************************)
EXTENDS Naturals, FiniteSets

CONSTANTS Requests,    \* the requests for the URL
          Origins,     \* what a browser may send
          NoOrigin,    \* the header is absent
          Lists,       \* the values of CORSConfig.Origins
          Star,        \* "*"
          InFlight     \* bound: requests the middleware serves at once

NoGrant == "none"

ASSUME CorsConstants == /\ NoOrigin \notin Origins /\ Star \notin Origins
                        /\ NoGrant \notin Origins \cup {Star}
                        /\ Lists \subseteq SUBSET (Origins \cup {Star}) /\ InFlight \in Nat

Empty   == [vary |-> FALSE, allow |-> NoGrant]

VARIABLES
    listed,  \* CORSConfig.Origins
    origin,  \* origin[r]: the request's Origin
    pc,      \* pc[r]: "sent", "vary", "allow", "serve", "answered" or "done"
    header,  \* header[r]: the response headers set so far
    sealed,  \* sealed[r]: the inner handler has written the header
    got,     \* got[r]: the headers the browser received
    cache    \* the stored responses, each with the Origin it was stored for

vars == <<listed, origin, pc, header, sealed, got, cache>>

Wildcard == Star \in listed

Init == /\ listed \in Lists
        /\ origin \in [Requests -> Origins \cup {NoOrigin}]
        /\ pc = [r \in Requests |-> "sent"]
        /\ header = [r \in Requests |-> Empty]
        /\ sealed = [r \in Requests |-> FALSE]
        /\ got = [r \in Requests |-> Empty]
        /\ cache = {}

-----------------------------------------------------------------------------
(* The cache answers with a response that its key allows, or asks the      *)
(* server.                                                                 *)
Usable(r) == {c \in cache : c.header.vary => c.for = origin[r]}

Hit(r) == /\ pc[r] = "sent"
          /\ \E c \in Usable(r) : got' = [got EXCEPT ![r] = c.header]
          /\ pc' = [pc EXCEPT ![r] = "done"]
          /\ UNCHANGED <<origin, header, sealed, cache>>

Forward(r) == /\ pc[r] = "sent"
              /\ Cardinality({q \in Requests : pc[q] \in {"vary", "allow", "serve", "answered"}}) < InFlight
              /\ pc' = [pc EXCEPT ![r] = "vary"]
              /\ UNCHANGED <<origin, header, sealed, got, cache>>

Evict(c) == /\ cache' = cache \ {c}
            /\ UNCHANGED <<origin, pc, header, sealed, got>>

-----------------------------------------------------------------------------
(* The grant to an origin: nothing for a request without one or from one   *)
(* that is not listed, the wildcard, or the origin itself.                 *)
Grant(o) == IF o = NoOrigin THEN NoGrant
            ELSE IF Wildcard THEN Star
            ELSE IF o \in listed THEN o ELSE NoGrant

(* "Before the origin check, not after".  The variant lets only a response *)
(* that grants something vary.                                             *)
VaryIfGranted(o) == Grant(o) # NoGrant
Varies(o)        == TRUE

Set(r, h) == header' = [header EXCEPT ![r] = IF sealed[r] THEN @ ELSE h]

AddVary(r) == /\ pc[r] = "vary"
              /\ Set(r, [header[r] EXCEPT !.vary = Varies(origin[r])])
              /\ pc' = [pc EXCEPT ![r] = "allow"]
              /\ UNCHANGED <<origin, sealed, got, cache>>

AllowOrigin(r) == /\ pc[r] = "allow"
                  /\ Set(r, [header[r] EXCEPT !.allow = Grant(origin[r])])
                  /\ pc' = [pc EXCEPT ![r] = "serve"]
                  /\ UNCHANGED <<origin, sealed, got, cache>>

(* next.ServeHTTP: the inner handler writes the header, after which none   *)
(* can be set.                                                             *)
Serve(r) == /\ pc[r] = "serve"
            /\ sealed' = [sealed EXCEPT ![r] = TRUE]
            /\ pc' = [pc EXCEPT ![r] = "answered"]
            /\ UNCHANGED <<origin, header, got, cache>>

(* The response comes back through the cache.                              *)
Deliver(r) == /\ pc[r] = "answered"
              /\ got' = [got EXCEPT ![r] = header[r]]
              /\ cache' \in {cache, cache \cup {[for |-> origin[r], header |-> header[r]]}}
              /\ pc' = [pc EXCEPT ![r] = "done"]
              /\ UNCHANGED <<origin, header, sealed>>

Next == /\ \/ \E r \in Requests : \/ Hit(r) \/ Forward(r)
                                   \/ AddVary(r) \/ AllowOrigin(r) \/ Serve(r) \/ Deliver(r)
           \/ \E c \in cache : Evict(c)
        /\ UNCHANGED listed

Spec == Init /\ [][Next]_vars

-----------------------------------------------------------------------------
(* A browser may read a response exactly if its origin was listed, however *)
(* the response reached it: no cached refusal is served to an allowed      *)
(* caller, and no cached grant of one origin to another.                   *)
MayRead(o, h) == h.allow \in {o, Star}
OwnGrant == \A r \in Requests : pc[r] = "done" /\ origin[r] # NoOrigin =>
               (MayRead(origin[r], got[r]) <=> (Wildcard \/ origin[r] \in listed))
=============================================================================
