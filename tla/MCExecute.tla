----------------------------- MODULE MCExecute -----------------------------
(* Queries of any one selection beside one of the two root fields that run *)
(* concurrently, and mutations of up to three root fields.                 *)
EXTENDS Execute

CONSTANT Deepest  \* the length of the longest path

(* The paths down from a type, by their length.                            *)
Below(type) == IF type = Scalar THEN {} ELSE DOMAIN Fields[type]
Longer(op, P) == UNION {{Append(p, f) : f \in Below(Last(TypesOf(op, p)))} : p \in P}
PathsTo[d \in Nat] == [op \in {"Query", "Mutation"} |->
    IF d = 1 THEN {<<f>> : f \in DOMAIN Fields[op]}
    ELSE PathsTo[d - 1][op] \union Longer(op, PathsTo[d - 1][op])]

(* Everything that can go wrong at the end of a path, the arguments at a   *)
(* root field that has some.                                               *)
Ends(op, p) == {"nothing", "fails"}
    \union (IF FieldAt(op, p, Len(p)).nilable THEN {"nil"} ELSE {})
    \union (IF Len(p) = 1 /\ p[1] \notin {"users", "__schema"} THEN {"args"} ELSE {})
Selected(op, d) == UNION {{[path |-> p, breaks |-> b] : b \in Ends(op, p)} : p \in PathsTo[d][op]}

Beside == {s \in Selected("Query", 2) : s.path[1] \in {"users", "user"}
                                        /\ s.path \in {<<"users">>, <<"user">>, <<"user", "name">>}}
MCDocuments ==
    {[op |-> "Query", selections |-> <<s, t>>] : s \in Selected("Query", Deepest), t \in Beside}
    \union {[op |-> "Mutation", selections |-> <<s, t, u>>] :
                s, t \in Selected("Mutation", 1),
                u \in {v \in Selected("Mutation", 2) : v.path[1] = "createUser"}}
=============================================================================
