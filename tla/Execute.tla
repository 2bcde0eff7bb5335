------------------------------ MODULE Execute ------------------------------
(***************************************************************************)
(* The executor gqlgen generated for the quickstart's schema               *)
(* (graph/generated/generated.go): which fields run one after the other    *)
(* and which beside each other, and how far a null travels.                *)
(*                                                                         *)
(* Two parts of that file must agree without either naming the other: how  *)
(* a field's function marshals its result (marshalN reports a null the     *)
(* schema does not allow, marshalO does not), and which fields' nulls the  *)
(* function of its parent counts in out.Invalids.  Both are tables here,   *)
(* for the schema's types and for those of introspection.                  *)
(*                                                                         *)
(* A selection is one path down from a root field, with what goes wrong at *)
(* the end of it; a list is taken as the element on that path.  The graphql*)
(* package is external: ResolveField recovers a panic and reports an error *)
(* once, and both are a null.  Its sentinel RequiredNull, which every      *)
(* nullable field is also compared with, arises from no field of this      *)
(* schema, and its branches are left out.                                  *)
(***************************************************************************)
EXTENDS Naturals, FiniteSets, SequencesExt

CONSTANTS Documents,  \* sequences of selections, with the operation's type
          Calls       \* bound on how often a transport calls the response handler

(* How a field is marshalled: N reports a null, V has none to report, O    *)
(* lets it be.  And the type below it.                                     *)
N(type) == [null |-> "error", nilable |-> TRUE, type |-> type]
V(type) == [null |-> "error", nilable |-> FALSE, type |-> type]
O(type) == [null |-> "allowed", nilable |-> TRUE, type |-> type]
Scalar  == "scalar"

MutationFields == [createUser |-> N("User"), updateUser |-> N("User"), deleteUser |-> V(Scalar)]
QueryFields    == [users |-> N("User"), user |-> O("User"),
                   __type |-> O("__Type"), __schema |-> O("__Schema")]
UserFields     == [personalId |-> V(Scalar), name |-> V(Scalar), company |-> V(Scalar),
                   projects |-> V(Scalar)]

DirectiveFields  == [name |-> V(Scalar), description |-> O(Scalar), isRepeatable |-> V(Scalar),
                     locations |-> V(Scalar), args |-> V("__InputValue")]
EnumValueFields  == [name |-> V(Scalar), description |-> O(Scalar), isDeprecated |-> V(Scalar),
                     deprecationReason |-> O(Scalar)]
FieldFields      == [name |-> V(Scalar), description |-> O(Scalar), args |-> V("__InputValue"),
                     type |-> N("__Type"), isDeprecated |-> V(Scalar),
                     deprecationReason |-> O(Scalar)]
InputValueFields == [name |-> V(Scalar), description |-> O(Scalar), type |-> N("__Type"),
                     defaultValue |-> O(Scalar), isDeprecated |-> V(Scalar),
                     deprecationReason |-> O(Scalar)]
SchemaFields     == [description |-> O(Scalar), types |-> V("__Type"), queryType |-> N("__Type"),
                     mutationType |-> O("__Type"), subscriptionType |-> O("__Type"),
                     directives |-> V("__Directive")]
TypeNames        == [kind |-> V(Scalar), name |-> O(Scalar), description |-> O(Scalar),
                     specifiedByURL |-> O(Scalar), isOneOf |-> O(Scalar)]
TypeLinks        == [fields |-> O("__Field"), interfaces |-> O("__Type"),
                     possibleTypes |-> O("__Type"), enumValues |-> O("__EnumValue"),
                     inputFields |-> O("__InputValue"), ofType |-> O("__Type")]
TypeFields       == [f \in DOMAIN TypeNames \union DOMAIN TypeLinks |->
                        IF f \in DOMAIN TypeNames THEN TypeNames[f] ELSE TypeLinks[f]]

Fields == [Mutation |-> MutationFields, Query |-> QueryFields, User |-> UserFields,
           __Directive |-> DirectiveFields, __EnumValue |-> EnumValueFields,
           __Field |-> FieldFields, __InputValue |-> InputValueFields,
           __Schema |-> SchemaFields, __Type |-> TypeFields]

(* The fields whose null each object's function counts.  The variant also  *)
(* counts the one of a nullable field, as == graphql.Null would.           *)
CountedEveryNull  == {"users", "user"}
CountedQuery      == {"users"}
CountedMutation   == {"createUser", "updateUser", "deleteUser"}
CountedUser       == {"personalId", "name", "company", "projects"}
CountedDirective  == {"name", "isRepeatable", "locations", "args"}
CountedEnumValue  == {"name", "isDeprecated"}
CountedField      == {"name", "args", "type", "isDeprecated"}
CountedInputValue == {"name", "type", "isDeprecated"}
CountedSchema     == {"types", "queryType", "directives"}
CountedType       == {"kind"}

Counted == [Mutation |-> CountedMutation, Query |-> CountedQuery, User |-> CountedUser,
            __Directive |-> CountedDirective, __EnumValue |-> CountedEnumValue,
            __Field |-> CountedField, __InputValue |-> CountedInputValue,
            __Schema |-> CountedSchema, __Type |-> CountedType]

(* The types along a path, the operation's first: TypeAt(op, p, k) is the  *)
(* type that holds field k of p.                                           *)
TypesOf(op, p) ==
    FoldLeft(LAMBDA types, f : Append(types, Fields[types[Len(types)]][f].type), <<op>>, p)
TypeAt(op, p, k)  == TypesOf(op, p)[k]
FieldAt(op, p, k) == Fields[TypeAt(op, p, k)][p[k]]

(* A document has passed gqlparser's validation: what it selects of a type *)
(* are fields of that type.                                                *)
Mistakes   == {"nothing", "args", "fails", "nil"}
Valid(op, p) == /\ p # <<>> /\ p[1] \in DOMAIN Fields[op]
                /\ \A k \in DOMAIN p : /\ TypeAt(op, p, k) \in DOMAIN Fields
                                       /\ p[k] \in DOMAIN Fields[TypeAt(op, p, k)]
ASSUME ExecuteConstants == /\ Calls \in Nat
                           /\ \A d \in Documents :
                                 /\ d.op \in {"Query", "Mutation"}
                                 /\ d.selections \in Seq([path : Seq(STRING), breaks : Mistakes])
                                 /\ \A i \in DOMAIN d.selections : Valid(d.op, d.selections[i].path)

VARIABLES
    doc,      \* [op, selections]: the operation, each selection a [path, breaks]
    called,   \* calls of the response handler
    first,    \* Exec's flag
    phase,    \* "idle", "loop", "dispatched", "returned"
    depth,    \* depth[i]: the field of its path that selection i is at; 0 before and after
    state,    \* state[i]: "waiting", "down", "up", "done"
    null,     \* null[i]: what is at depth[i] is a null, on the way up
    landed,   \* landed[i]: where its null stayed; its path's length + 1 for none
    errors,   \* the errors reported: sequence of selections
    invalids, \* out.Invalids of the operation's own FieldSet
    data,     \* the response's data: "none", "null" or "object"
    log       \* history: the root resolvers called, in order

execVars == <<doc, called, first, phase, depth, state, null, landed, errors, invalids, data, log>>

Selections == DOMAIN doc.selections
PathOf(i)  == doc.selections[i].path
Breaks(i)  == doc.selections[i].breaks
TypeOf(i)  == TypeAt(doc.op, PathOf(i), depth[i])
Here(i)    == FieldAt(doc.op, PathOf(i), depth[i])

ExecInit ==
    /\ doc \in Documents
    /\ called = 0 /\ first = TRUE /\ phase = "idle"
    /\ depth = [i \in Selections |-> 0] /\ state = [i \in Selections |-> "waiting"]
    /\ null = [i \in Selections |-> FALSE]
    /\ landed = [i \in Selections |-> Len(PathOf(i)) + 1]
    /\ errors = <<>> /\ invalids = 0 /\ data = "none" /\ log = <<>>

-----------------------------------------------------------------------------
(* The response handler.  A transport may call it until it returns nil,    *)
(* which it does once first is spent.  The variant runs the operation at   *)
(* every call.                                                             *)
EveryCall == TRUE
FirstCall == first

Call == /\ called < Calls /\ phase \in {"idle", "returned"}
        /\ called' = called + 1
        /\ IF FirstCall
           THEN /\ first' = FALSE /\ phase' = "loop"
                /\ state' = [i \in Selections |-> "waiting"] /\ depth' = [i \in Selections |-> 0]
           ELSE UNCHANGED <<first, phase, state, depth>>
        /\ UNCHANGED <<doc, null, landed, errors, invalids, data, log>>

(* The switch of _Query and _Mutation: fields that are run where they      *)
(* stand, and those handed to out.Concurrently.  The variant hands over    *)
(* mutations too.                                                          *)
DelayedAll(i) == PathOf(i)[1] \in DOMAIN MutationFields \union {"users", "user"}
Delayed(i)    == PathOf(i)[1] \in {"users", "user"}

Begins(i) == state[i] = "waiting" /\ state' = [state EXCEPT ![i] = "down"]
                                  /\ depth' = [depth EXCEPT ![i] = 1]
Inline(i) == /\ phase = "loop" /\ ~Delayed(i) /\ Begins(i)
             /\ \A j \in Selections : j < i => Delayed(j) \/ state[j] = "done"
             /\ UNCHANGED <<doc, called, first, phase, null, landed, errors, invalids, data, log>>

(* out.Dispatch, after the loop.                                           *)
Dispatch == /\ phase = "loop" /\ \A i \in Selections : Delayed(i) \/ state[i] = "done"
            /\ phase' = "dispatched"
            /\ UNCHANGED <<doc, called, first, depth, state, null, landed, errors, invalids, data, log>>

Concurrent(i) == /\ phase = "dispatched" /\ Delayed(i) /\ Begins(i)
                 /\ UNCHANGED <<doc, called, first, phase, null, landed, errors, invalids, data, log>>

(* A field: its arguments, its resolver, and the object or value below it. *)
AtEnd(i)   == depth[i] = Len(PathOf(i))
Calling(i) == depth[i] = 1 /\ ~(AtEnd(i) /\ Breaks(i) = "args")
Turns(i, isNull) == /\ state' = [state EXCEPT ![i] = "up"]
                    /\ null' = [null EXCEPT ![i] = isNull]
                    /\ UNCHANGED depth
Descend(i) ==
    /\ state[i] = "down"
    /\ log' = IF Calling(i) THEN Append(log, i) ELSE log
    /\ IF ~AtEnd(i)
       THEN depth' = [depth EXCEPT ![i] = @ + 1] /\ UNCHANGED <<state, null, errors>>
       ELSE /\ Turns(i, Breaks(i) # "nothing")
            /\ errors' = IF Breaks(i) \in {"args", "fails"}
                            \/ (Breaks(i) = "nil" /\ Here(i).null = "error")
                         THEN Append(errors, i) ELSE errors
    /\ UNCHANGED <<doc, called, first, phase, landed, invalids, data>>

(* Its parent looks at what came back.  A null that counts makes a null of *)
(* the parent, which its own field hands up; any other stays here.         *)
Counts(i) == null[i] /\ PathOf(i)[depth[i]] \in Counted[TypeOf(i)]
Ascend(i) ==
    /\ state[i] = "up"
    /\ null' = [null EXCEPT ![i] = Counts(i)]
    /\ landed' = IF null[i] THEN [landed EXCEPT ![i] = IF Counts(i) THEN depth[i] - 1 ELSE depth[i]]
                            ELSE landed
    /\ depth' = [depth EXCEPT ![i] = @ - 1]
    /\ invalids' = IF depth[i] = 1 /\ Counts(i) THEN invalids + 1 ELSE invalids
    /\ state' = [state EXCEPT ![i] = IF depth[i] = 1 THEN "done" ELSE "up"]
    /\ UNCHANGED <<doc, called, first, phase, errors, data, log>>

Return == /\ phase = "dispatched" /\ \A i \in Selections : state[i] = "done"
          /\ phase' = "returned"
          /\ data' = IF invalids > 0 THEN "null" ELSE "object"
          /\ UNCHANGED <<doc, called, first, depth, state, null, landed, errors, invalids, log>>

ExecNext ==
    \/ Call \/ Dispatch \/ Return
    \/ \E i \in Selections : Inline(i) \/ Concurrent(i) \/ Descend(i) \/ Ascend(i)

ExecSpec == ExecInit /\ [][ExecNext]_execVars

-----------------------------------------------------------------------------
(* A null rests in the nearest field above it that the schema lets be      *)
(* null, in the data when there is none; nothing else of the response is   *)
(* lost; and every null but that of a nullable field without a value is    *)
(* reported, once.                                                         *)
Nullable(i) == {k \in DOMAIN PathOf(i) : FieldAt(doc.op, PathOf(i), k).null = "allowed"}
Nearest(i)  == Max(Nullable(i) \union {0})
Permitted(i) == Breaks(i) = "nil" /\ Len(PathOf(i)) \in Nullable(i)
Reports(i)   == {k \in DOMAIN errors : errors[k] = i}

NullsRest == phase = "returned" =>
    /\ \A i \in Selections :
        /\ landed[i] = IF Breaks(i) = "nothing" THEN Len(PathOf(i)) + 1 ELSE Nearest(i)
        /\ Cardinality(Reports(i)) = IF Breaks(i) = "nothing" \/ Permitted(i) THEN 0 ELSE 1
    /\ data = "null" <=> \E i \in Selections : landed[i] = 0

(* Mutations run one at a time, in the order of the document, each exactly *)
(* once however often the handler is called, and also after one of them    *)
(* failed: a data of null does not mean that nothing was done.             *)
RunsIn(i) == state[i] \in {"down", "up"}
InTurn == doc.op = "Mutation" =>
    /\ \A i, j \in Selections : RunsIn(i) /\ RunsIn(j) => i = j
    /\ \A k \in 1..(Len(log) - 1) : log[k] < log[k + 1]
    /\ phase = "returned" => {log[k] : k \in DOMAIN log} =
                             {i \in Selections : ~(Breaks(i) = "args" /\ Len(PathOf(i)) = 1)}
=============================================================================
