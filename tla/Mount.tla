------------------------------- MODULE Mount -------------------------------
(***************************************************************************)
(* New and Mount (src/server/server.go): the gqlgen server, the chain of   *)
(* handlers and the routes that a Config becomes, and the way of a request *)
(* through them, with the liveness route of HealthProbe beside them.       *)
(*                                                                         *)
(* Mount is sequential, and the order of its statements is what it has to  *)
(* get right: the consumer's Configure runs in the middle of it, gqlgen    *)
(* takes the first transport that supports a request, Fiber the first      *)
(* route that matches, and a context is read when a layer is entered.      *)
(*                                                                         *)
(* gqlgen, Fiber and its adaptor are external, modelled from what Mount    *)
(* relies on: setters overwrite, Use and AddTransport append, timeout.New  *)
(* calls c.SetContext before its handler, and the adaptor stashes          *)
(* c.Context() as it is when it is entered.                                *)
(***************************************************************************)
EXTENDS HealthProbe, Integers

CONSTANTS Configs,   \* the configurations to mount
          Requests   \* the requests to serve

Unset == ""      \* the zero value of a string

(* A Config, and what of it matters here.  configure is the set of things  *)
(* the consumer's Configure touches; an empty one stands for nil.          *)
Config == [schema : BOOLEAN, endpoint : STRING, playground : STRING, health : STRING,
           fiberRead : Int, read : Int, cache : Int, complexity : Int, depth : Int,
           timeout : Int, closed : BOOLEAN, presenter : {Unset, "own"},
           configure : SUBSET {"cache", "presenter", "transport", "mutator"},
           middleware : Seq({"outer", "inner"})]

(* A request: where it goes, what it asks, and what Fiber's own middleware *)
(* and c.Locals say of its user (Unset for nothing).                       *)
Request == [method : {"GET", "POST", "OPTIONS", "PUT"}, path : STRING, stream : BOOLEAN,
            cost : Nat, depth : Nat, introspects : BOOLEAN, user : STRING, locals : STRING]

ASSUME MountConstants == Configs \subseteq Config /\ Requests \subseteq Request

VARIABLES
    cfg,     \* the Config given
    step,    \* which statement of Mount is next; 0 for a nil Schema's panic
    readTimeout, \* fiber.Config's ReadTimeout as New resolves it
    srv,     \* the *handler.Server
    chain,   \* the layers around it, outermost first
    routes,  \* the routes on the router, in the order registered
    req,     \* the request that is served, NoRequest between two
    at,      \* how many layers it has entered
    ctx0,    \* its contexts: Fiber's, the adaptor's stash, the *http.Request's
    seen,    \* history: the layers that read the request's context, with it
    answer   \* what it was answered, by whom

probeVars == vars
mountVars == <<cfg, step, readTimeout, srv, chain, routes>>
wayVars   == <<req, at, ctx0, seen, answer>>
allVars   == <<probeVars, mountVars, wayVars>>

NoRequest == [method |-> "none"]
Off == -1        \* a negative setting disables

-----------------------------------------------------------------------------
(* Zero means the default, and negative none.  The variant reads a zero as *)
(* it stands.                                                              *)
AsGiven(n, default) == n
Setting(n, default) == IF n < 0 THEN Off ELSE IF n = 0 THEN default ELSE n

(* resolveTimeout: Fiber's own answer first; no deadline is fasthttp's 0.  *)
resolveTimeout(fromFiber, fromLuima, default) ==
    IF fromFiber # 0 THEN fromFiber
    ELSE IF fromLuima < 0 THEN 0 ELSE IF fromLuima > 0 THEN fromLuima ELSE default

Path(given, default) == IF given = Unset THEN default ELSE given

MountInit ==
    /\ Init
    /\ cfg \in Configs /\ step = 1
    /\ readTimeout = resolveTimeout(cfg.fiberRead, cfg.read, 10)
    /\ srv = [cache |-> Off, presenter |-> "gqlgen", mutators |-> <<>>, transports |-> <<>>]
    /\ chain = <<"gqlgen">> /\ routes = <<>>
    /\ req = NoRequest /\ at = 0 /\ seen = <<>> /\ answer = "none"
    /\ ctx0 = [fiber |-> [deadline |-> FALSE, user |-> Unset],
               stash |-> [deadline |-> FALSE, user |-> Unset],
               http  |-> [deadline |-> FALSE, user |-> Unset]]

(* The order of Mount's statements.  Variants: Configure before the        *)
(* setters; the transports before Configure; the adaptor around the        *)
(* timeout.                                                                *)
ConfigureEarly  == <<"configure", "setters", "transports", "wrap", "adapt", "timeout", "register">>
TransportsEarly == <<"setters", "transports", "configure", "wrap", "adapt", "timeout", "register">>
TimeoutInside   == <<"setters", "configure", "transports", "wrap", "timeout", "adapt", "register">>
Statements      == <<"setters", "configure", "transports", "wrap", "adapt", "timeout", "register">>

Serving == step = Len(Statements) + 1
At(s)   == step \in 1..Len(Statements) /\ Statements[step] = s
Goes    == step' = step + 1

NilSchema == /\ step = 1 /\ ~cfg.schema /\ step' = 0
             /\ UNCHANGED <<cfg, readTimeout, srv, chain, routes>>

(* The defaults: the cache, the mutators, the presenter.                   *)
Mutator(name, n, default) ==
    IF Setting(n, default) = Off THEN <<>> ELSE <<[name |-> name, limit |-> Setting(n, default)]>>

Setters == /\ At("setters") /\ cfg.schema /\ Goes
           /\ srv' = [srv EXCEPT
                !.cache     = IF cfg.cache >= 0 THEN Setting(cfg.cache, 1000) ELSE @,
                !.mutators  = @ \o <<[name |-> IF cfg.closed THEN "noIntrospection"
                                                             ELSE "Introspection", limit |-> 0]>>
                                \o Mutator("complexity", cfg.complexity, 1000)
                                \o Mutator("maxDepth", cfg.depth, 15),
                !.presenter = IF cfg.presenter = Unset THEN "PresentError" ELSE cfg.presenter]
           /\ UNCHANGED <<cfg, readTimeout, chain, routes>>

Configure == /\ At("configure") /\ Goes
             /\ srv' = [cache      |-> IF "cache" \in cfg.configure THEN 5 ELSE srv.cache,
                        presenter  |-> IF "presenter" \in cfg.configure THEN "configured"
                                                                        ELSE srv.presenter,
                        mutators   |-> srv.mutators \o (IF "mutator" \in cfg.configure
                                          THEN <<[name |-> "complexity", limit |-> 50]>> ELSE <<>>),
                        transports |-> srv.transports \o (IF "transport" \in cfg.configure
                                                          THEN <<"SSE">> ELSE <<>>)]
             /\ UNCHANGED <<cfg, readTimeout, chain, routes>>

AddTransports == /\ At("transports") /\ Goes
                 /\ srv' = [srv EXCEPT !.transports = @ \o <<"Options", "GET", "POST">>]
                 /\ UNCHANGED <<cfg, readTimeout, chain, routes>>

(* HTTPMiddleware around gqlgen.  The last of the slice is wrapped first.  *)
(* The variant wraps the slice front to back.                              *)
WrapForwards(mws) == [i \in DOMAIN mws |-> mws[Len(mws) + 1 - i]]
Wrapped(mws)      == mws

Wrap == /\ At("wrap") /\ Goes /\ chain' = Wrapped(cfg.middleware) \o chain
        /\ UNCHANGED <<cfg, readTimeout, srv, routes>>

(* withFiberContext and the adaptor around it.  The variant is the         *)
(* adaptor's other function, without the stash.                            *)
PlainAdaptor == <<"adaptor">>
Adaptor      == <<"adaptor", "fiberContext">>

Adapt == /\ At("adapt") /\ Goes /\ chain' = Adaptor \o chain
         /\ UNCHANGED <<cfg, readTimeout, srv, routes>>

TimeoutNew == /\ At("timeout") /\ Goes
              /\ chain' = IF Setting(cfg.timeout, 15) = Off THEN chain ELSE <<"timeout">> \o chain
              /\ UNCHANGED <<cfg, readTimeout, srv, routes>>

(* The routes.  "off" stands for DisablePlayground.                        *)
Endpoint   == Path(cfg.endpoint, "/graphql")
Register == /\ At("register") /\ Goes
            /\ routes' = <<[method |-> "ALL", path |-> Endpoint, to |-> "graphql"]>>
                 \o (IF cfg.playground = "off" THEN <<>>
                     ELSE <<[method |-> "GET", path |-> Path(cfg.playground, "/"), to |-> "playground"]>>)
                 \o (IF cfg.health = Unset THEN <<>>
                     ELSE <<[method |-> "GET", path |-> cfg.health, to |-> "health"]>>)
            /\ UNCHANGED <<cfg, readTimeout, srv, chain>>

Mounts == /\ \/ NilSchema \/ Setters \/ Configure \/ AddTransports \/ Wrap \/ Adapt
             \/ TimeoutNew \/ Register
          /\ UNCHANGED <<probeVars, wayVars>>

-----------------------------------------------------------------------------
(* Fiber takes the first route that matches.                               *)
Matching(method, path) ==
    {i \in DOMAIN routes : routes[i].path = path /\ routes[i].method \in {"ALL", method}}
RouteTo(method, path) ==
    IF Matching(method, path) = {} THEN "404"
    ELSE routes[CHOOSE i \in Matching(method, path) : \A j \in Matching(method, path) : i <= j].to

(* A request arrives, carrying what Fiber's own middleware put on          *)
(* c.Context() and in c.Locals.  Bound: requests are served before the     *)
(* first probe, because the two share nothing that either changes.         *)
NoProbeYet == \A p \in Probes : handler[p] = "none"
Arrive(r) == /\ Serving /\ req = NoRequest /\ NoProbeYet
             /\ req' = r /\ at' = 0 /\ seen' = <<>>
             /\ ctx0' = [fiber |-> [deadline |-> FALSE, user |-> r.user],
                         stash |-> [deadline |-> FALSE, user |-> Unset],
                         http  |-> [deadline |-> FALSE, user |-> Unset]]
             /\ answer' = IF RouteTo(r.method, r.path) = "graphql" THEN "none"
                          ELSE RouteTo(r.method, r.path)

Underway(layer) == /\ req # NoRequest /\ answer = "none"
                   /\ at < Len(chain) /\ chain[at + 1] = layer /\ at' = at + 1

EnterTimeout == /\ Underway("timeout")
                /\ ctx0' = [ctx0 EXCEPT !.fiber = [deadline |-> TRUE, user |-> ctx0.fiber.user]]
                /\ UNCHANGED <<req, seen, answer>>

EnterAdaptor == /\ Underway("adaptor")
                /\ ctx0' = [ctx0 EXCEPT !.stash = ctx0.fiber,
                                        !.http = [deadline |-> FALSE, user |-> req.locals]]
                /\ UNCHANGED <<req, seen, answer>>

(* fiberContext.Value: Fiber's context first, then the locals.  The        *)
(* variant drops the fallback.                                             *)
FiberOnly(fiber, locals) == fiber
Value(fiber, locals)     == IF fiber # Unset THEN fiber ELSE locals

EnterFiberContext ==
    /\ Underway("fiberContext")
    /\ ctx0' = [ctx0 EXCEPT !.http = [deadline |-> ctx0.stash.deadline,
                                      user |-> Value(ctx0.stash.user, ctx0.http.user)]]
    /\ UNCHANGED <<req, seen, answer>>

(* A middleware reads the context and hands it on.                         *)
EnterMiddleware(m) == /\ Underway(m)
                      /\ seen' = Append(seen, [layer |-> m, ctx |-> ctx0.http])
                      /\ UNCHANGED <<req, ctx0, answer>>

(* gqlgen: the first transport that supports the request, the mutators in  *)
(* order, the resolvers.                                                   *)
Supports(t) == CASE t = "SSE"     -> req.method = "POST" /\ req.stream
                 [] t = "Options" -> req.method = "OPTIONS"
                 [] t = "GET"     -> req.method = "GET"
                 [] t = "POST"    -> req.method = "POST"
Refuses(m) == CASE m.name = "noIntrospection" -> req.introspects
                [] m.name = "Introspection"   -> FALSE
                [] m.name = "complexity"      -> req.cost > m.limit
                [] m.name = "maxDepth"        -> req.depth > m.limit

First(S) == CHOOSE i \in S : \A j \in S : i <= j
Serve ==
    /\ Underway("gqlgen")
    /\ LET able     == {i \in DOMAIN srv.transports : Supports(srv.transports[i])}
           by       == srv.transports[First(able)]
           refusing == {i \in DOMAIN srv.mutators : Refuses(srv.mutators[i])}
       IN  IF able = {} THEN answer' = "transport not supported" /\ UNCHANGED seen
           ELSE IF by = "Options" THEN answer' = "Options" /\ UNCHANGED seen
           ELSE IF refusing # {} THEN answer' = srv.mutators[First(refusing)].name /\ UNCHANGED seen
           ELSE /\ answer' = by
                /\ seen' = Append(seen, [layer |-> "resolver", ctx |-> ctx0.http])
    /\ UNCHANGED <<req, ctx0>>

Done == /\ answer # "none" /\ req' = NoRequest /\ answer' = "none" /\ at' = 0 /\ seen' = <<>>
        /\ UNCHANGED ctx0

Way == /\ \/ \E r \in Requests : Arrive(r)
          \/ EnterTimeout \/ EnterAdaptor \/ EnterFiberContext
          \/ EnterMiddleware("outer") \/ EnterMiddleware("inner")
          \/ Serve \/ Done
       /\ UNCHANGED <<probeVars, mountVars>>

(* The liveness route, where it is mounted and no earlier route is.        *)
Live == /\ Serving /\ req = NoRequest /\ RouteTo("GET", cfg.health) = "health"
        /\ Next /\ UNCHANGED <<mountVars, wayVars>>

MountNext == Mounts \/ Way \/ Live

MountSpec     == MountInit /\ [][MountNext]_allVars
FairMountSpec == MountSpec /\ Fairness

-----------------------------------------------------------------------------
Given(n, default)     == IF n = 0 THEN default ELSE n
Within(x, n, default) == n < 0 \/ x <= Given(n, default)
Allowed == /\ Within(req.cost, cfg.complexity, 1000) /\ Within(req.depth, cfg.depth, 15)
           /\ "mutator" \in cfg.configure => req.cost <= 50
           /\ cfg.closed => ~req.introspects

(* What serves is what the consumer's Configure said where it spoke, and   *)
(* otherwise the configuration, with a bound for whatever it left at zero  *)
(* (a request is read within Fiber's own timeout, else the Config's, none  *)
(* if that is negative, else ten seconds):                                 *)
(* no default that runs later takes a setter back, a transport added in    *)
(* Configure is reached although POST supports its requests too, and no    *)
(* operation gets to a resolver, or is refused, but by the limits that     *)
(* were given, or the default ones.                                        *)
WhatServes ==
    /\ Serving =>
        /\ srv.cache = IF "cache" \in cfg.configure THEN 5
                       ELSE IF cfg.cache < 0 THEN Off ELSE Given(cfg.cache, 1000)
        /\ srv.presenter = IF "presenter" \in cfg.configure THEN "configured"
                           ELSE IF cfg.presenter = "own" THEN "own" ELSE "PresentError"
        /\ readTimeout = IF cfg.fiberRead # 0 THEN cfg.fiberRead
                         ELSE IF cfg.read < 0 THEN 0 ELSE Given(cfg.read, 10)
    /\ answer \in {"SSE", "GET", "POST"} =>
        /\ Allowed
        /\ answer = "SSE" <=> "transport" \in cfg.configure /\ req.method = "POST" /\ req.stream
    /\ answer \in {"complexity", "maxDepth", "noIntrospection"} => ~Allowed

(* A request to the endpoint passes every middleware in the order listed,  *)
(* outermost first, and each of them, and the resolver, sees the request's *)
(* deadline, the value Fiber's middleware set, and c.Locals behind it.     *)
RequestPath ==
    /\ \A i \in DOMAIN seen :
        /\ seen[i].ctx.deadline <=> cfg.timeout >= 0
        /\ seen[i].ctx.user = IF req.user # Unset THEN req.user ELSE req.locals
        /\ i <= Len(cfg.middleware) => seen[i].layer = cfg.middleware[i]
    /\ answer \in {"SSE", "GET", "POST"} => Len(seen) = Len(cfg.middleware) + 1
=============================================================================
