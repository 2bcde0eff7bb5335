------------------------------ MODULE MCMount ------------------------------
(* One configuration with nothing set, and those that differ from it in    *)
(* one field or in the two that meet; requests on either side of a limit.  *)
EXTENDS Mount

Zero == [schema |-> TRUE, endpoint |-> Unset, playground |-> Unset, health |-> "/healthz",
         fiberRead |-> 0, read |-> 0, cache |-> 0, complexity |-> 0, depth |-> 0,
         timeout |-> 0, closed |-> FALSE, presenter |-> Unset, configure |-> {},
         middleware |-> <<"outer", "inner">>]

MCConfigs ==
    {Zero, [Zero EXCEPT !.schema = FALSE], [Zero EXCEPT !.closed = TRUE],
     [Zero EXCEPT !.playground = "off"], [Zero EXCEPT !.health = "/"],
     [Zero EXCEPT !.endpoint = "/", !.middleware = <<>>]}
    \union {[Zero EXCEPT !.cache = n, !.complexity = m] : n, m \in {Off, 0, 20}}
    \union {[Zero EXCEPT !.depth = n, !.timeout = m] : n, m \in {Off, 0, 20}}
    \union {[Zero EXCEPT !.fiberRead = n, !.read = m] : n \in {0, 20}, m \in {Off, 0, 20}}
    \union {[Zero EXCEPT !.configure = S, !.presenter = p, !.cache = 20] :
                S \in SUBSET {"cache", "presenter", "transport", "mutator"}, p \in {Unset, "own"}}

Plain == [method |-> "POST", path |-> "/graphql", stream |-> FALSE, cost |-> 10, depth |-> 3,
          introspects |-> FALSE, user |-> Unset, locals |-> "local"]

MCRequests ==
    {Plain, [Plain EXCEPT !.stream = TRUE], [Plain EXCEPT !.introspects = TRUE],
     [Plain EXCEPT !.cost = 1001], [Plain EXCEPT !.cost = 40], [Plain EXCEPT !.depth = 16],
     [Plain EXCEPT !.user = "fiber"], [Plain EXCEPT !.user = "fiber", !.locals = Unset]}
    \union {[Plain EXCEPT !.method = m] : m \in {"GET", "OPTIONS", "PUT"}}
    \union {[Plain EXCEPT !.method = "GET", !.path = p] : p \in {"/", "/other"}}
=============================================================================
