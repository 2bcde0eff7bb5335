------------------------------ MODULE Generate ------------------------------
(***************************************************************************)
(* luimagen.Generate (src/luimagen): one run after another over the files  *)
(* of one gqlgen module, each of which may fail or be killed at any stage, *)
(* and between them the edits of the developer who owns those files.       *)
(*                                                                         *)
(* A run names a table's type and a schema file.  It reads every schema    *)
(* file beside that one, writes a model file, appends a fragment, has      *)
(* gqlgen write the resolver stubs, and fills them.  gqlgen is external:   *)
(* it loads every schema file, copies existing bodies forward and writes a *)
(* stub for each resolver that has none (docs/gqlgen-contract.md).         *)
(***************************************************************************)
EXTENDS Naturals, FiniteSets

CONSTANTS Types,    \* the table types runs are asked for
          Beside,   \* schema files with one directory and extension, a run's among them
          Far,      \* schema files that only gqlgen loads
          Ops,      \* the resolvers of a type; in the code there are five
          Odd,      \* types whose resolvers gqlgen gives other parameters
          NoRun,    \* no run is in progress
          MaxRuns,  \* bound: runs
          MaxEdits  \* bound: edits by hand

ASSUME GenerateConstants == /\ Odd \subseteq Types /\ Beside \cap Far = {} /\ Ops # {}
                            /\ MaxRuns \in Nat /\ MaxEdits \in Nat

Files == Beside \cup Far

(* What a schema file can declare: the root types, and for a type t the    *)
(* name t itself, an extension of it, tInput, and t's root fields.         *)
Roots == {"Query", "Mutation"} \X {"root"}
Names == Roots \cup ({"type", "extend", "input", "fields"} \X Types)

VARIABLES
    text,     \* text[f]: "plain"; "loose", which only gqlgen can validate; "garbled"
    decls,    \* the declarations in the schema files, by the run that wrote each
              \* or, as 0, by hand
    model,    \* model[t]: the model file
    inputs,   \* the types whose generated input struct exists
    body,     \* body[t][o]: a resolver: gqlgen's stub, "filled" by a run, "written"
              \* by hand, or a panic placed by hand: "unready" if it is the whole
              \* body and its text begins "not implemented", else "todo"
    pc, job,  \* the stage of the run in progress, and its type and schema file
    frag,     \* the fragment it has planned
    result,   \* how the last run ended
    before,   \* history: the files as that run found them
    runs, edits

files == <<decls, model, inputs, body>>
run   == <<pc, job, frag, result, before>>
vars  == <<text, files, run, runs, edits>>

Found == [decls |-> decls, model |-> model, inputs |-> inputs, body |-> body]

Init == /\ text \in [Files -> {"plain", "loose", "garbled"}]
        /\ decls \in {{}} \cup {{[file |-> f, name |-> n, by |-> 0] : n \in Roots} : f \in Files}
        /\ model = [t \in Types |-> "none"]
        /\ inputs = {}
        /\ body = [t \in Types |-> [o \in Ops |-> "absent"]]
        /\ pc = "idle" /\ job = NoRun /\ frag = {} /\ result = "none" /\ before = NoRun
        /\ runs = 0 /\ edits = 0

-----------------------------------------------------------------------------
(* gqlparser: no name twice, nothing extended or used that is not declared. *)
NamesIn(D) == {d.name : d \in D}
Validates(D) ==
    /\ \A d, e \in D : d.name = e.name /\ d # e => d.name[1] = "extend"
    /\ <<"Query", "root">> \in NamesIn(D)
    /\ \A t \in Types :
          /\ <<"extend", t>> \in NamesIn(D) => <<"type", t>> \in NamesIn(D)
          /\ <<"fields", t>> \in NamesIn(D) =>
                Roots \cup {<<"type", t>>, <<"input", t>>} \subseteq NamesIn(D)

(* planSDL's view: the readable files beside the target.                   *)
Seen(f)      == {d \in decls : d.file \in Beside /\ text[d.file] # "garbled"}
Standalone   == \A f \in Beside : text[f] # "loose"

(* The type's name is declared, as whatever kind, or extended.  The        *)
(* variant minds only extensions.                                          *)
Extended(D, t) == <<"extend", t>> \in NamesIn(D)
Taken(D, t) == {<<"type", t>>, <<"extend", t>>} \cap NamesIn(D) # {}

(* The fragment declares a root type where none is declared, and extends   *)
(* it where one is.                                                        *)
Fragment(D, t, f) ==
    [file : {f}, by : {runs},
     name : ({"type", "input", "fields"} \X {t}) \cup (Roots \ NamesIn(D))]

(* checkComposes blames the fragment only for what it broke.  The variant  *)
(* does not check.                                                         *)
Unchecked(D, F) == TRUE
Composes(D, F)  == (Standalone /\ Validates(D)) => Validates(D \cup F)

-----------------------------------------------------------------------------
(* A run ends with nil or the stage that failed.                           *)
End(r) == pc' = "idle" /\ result' = r /\ job' = NoRun /\ frag' = {} /\ before' = NoRun
Goto(l) == pc' = l /\ UNCHANGED <<job, result, before>>

Start(t, f) == /\ pc = "idle" /\ runs < MaxRuns
               /\ pc' = "build" /\ job' = [type |-> t, file |-> f] /\ before' = Found
               /\ result' = "none" /\ runs' = runs + 1
               /\ UNCHANGED <<text, files, frag, edits>>

(* The options and fields are valid, or not (Fields.tla).  The variant     *)
(* writes the model before the schema has been looked at.                  *)
BuildWriting == /\ pc = "build" /\ Goto("plan")
                /\ model' = [model EXCEPT ![job.type] = IF @ = "none" THEN "generated" ELSE @]
                /\ UNCHANGED <<text, decls, inputs, body, frag, runs, edits>>
Build == /\ pc = "build"
         /\ \/ Goto("plan") /\ UNCHANGED frag
            \/ End("building")
         /\ UNCHANGED <<text, files, runs, edits>>

PlanSDL == /\ pc = "plan"
           /\ LET t == job.type
                  D == Seen(job.file)
                  F == Fragment(D, t, job.file)
              IN IF text[job.file] = "garbled" \/ Taken(D, t) \/ ~Composes(D, F)
                 THEN End("checking")
                 ELSE Goto("model") /\ frag' = F
           /\ UNCHANGED <<text, files, runs, edits>>

(* An existing model file is not overwritten.                              *)
NoModel(t) == model[t] = "none"

WriteModel == /\ pc = "model"
              /\ \/ ~NoModel(job.type) /\ End("exists") /\ UNCHANGED model
                 \/ End("writing model") /\ UNCHANGED model
                 \/ /\ NoModel(job.type)
                    /\ model' = [model EXCEPT ![job.type] = "generated"]
                    /\ Goto("append") /\ UNCHANGED frag
              /\ UNCHANGED <<text, decls, inputs, body, runs, edits>>

AppendSDL == /\ pc = "append"
             /\ \/ End("writing SDL") /\ UNCHANGED decls
                \/ decls' = decls \cup frag /\ Goto("gqlgen") /\ UNCHANGED frag
             /\ UNCHANGED <<text, model, inputs, body, runs, edits>>

(* gqlgen may fail for any reason, before or after it has written its      *)
(* files; a schema that does not load it always refuses.                   *)
Served(t) == <<"fields", t>> \in NamesIn(decls)
Resolver(t, b) == IF ~Served(t) THEN "absent" ELSE IF b = "absent" THEN "stub" ELSE b
Gqlgen == /\ pc = "gqlgen"
          /\ \/ End("gqlgen") /\ UNCHANGED <<inputs, body>>
             \/ /\ Validates(decls) /\ \A f \in Files : text[f] # "garbled"
                /\ inputs' = {t \in Types : <<"input", t>> \in NamesIn(decls)}
                /\ body' = [t \in Types |-> [o \in Ops |-> Resolver(t, body[t][o])]]
                /\ \/ Goto("read") /\ UNCHANGED frag
                   \/ End("gqlgen")
          /\ UNCHANGED <<text, decls, model, runs, edits>>

(* The input struct is looked up in ModelDir, which may be the wrong one.  *)
InputFieldNames == /\ pc = "read"
                   /\ \/ job.type \in inputs /\ Goto("patch") /\ UNCHANGED frag
                      \/ End("reading")
                   /\ UNCHANGED <<text, files, runs, edits>>

(* A stub is known by its text, whoever wrote it.  The variant takes any   *)
(* panic for one.                                                          *)
AnyPanic(b) == b \in {"stub", "unready", "todo"}
IsStub(b)   == b \in {"stub", "unready"}

Patched(t) == [o \in Ops |-> IF IsStub(body[t][o]) THEN "filled" ELSE body[t][o]]

(* checkComplete: every resolver is declared and none panics.  The variant *)
(* only asks that they be declared.                                        *)
Declared(b) == b # "absent"
Complete(b) == b \in {"filled", "written"}

(* The patch is saved, whatever checkComplete then says; the variant saves *)
(* it only if that succeeds.                                               *)
SaveIfComplete(t) == body' = IF \A o \in Ops : Complete(Patched(t)[o])
                             THEN [body EXCEPT ![t] = Patched(t)] ELSE body
Save(t) == body' = [body EXCEPT ![t] = Patched(t)]

(* patchStubs.  It refuses a resolver file it cannot read or whose imports *)
(* conflict (Splice.tla), and parameters it did not ask for.               *)
PatchStubs ==
    /\ pc = "patch"
    /\ LET t     == job.type
           stubs == {o \in Ops : IsStub(body[t][o])}
           panic == \E o \in Ops : ~Complete(Patched(t)[o])
       IN \/ End("patching") /\ UNCHANGED body
          \/ /\ stubs = {} \/ t \notin Odd
             /\ Save(t)
             /\ End(IF panic THEN "incomplete" ELSE IF stubs = {} THEN "already" ELSE "nil")
    /\ UNCHANGED <<text, decls, model, inputs, runs, edits>>

Kill == /\ pc # "idle" /\ End("killed")
        /\ UNCHANGED <<text, files, runs, edits>>

Stage == Build \/ PlanSDL \/ WriteModel \/ AppendSDL \/ Gqlgen \/ InputFieldNames \/ PatchStubs

-----------------------------------------------------------------------------
(* The developer, between runs.                                            *)
Edit == pc = "idle" /\ edits < MaxEdits /\ edits' = edits + 1 /\ UNCHANGED <<run, runs>>

Declare(f, n) == /\ Edit
                 /\ decls' = decls \cup {[file |-> f, name |-> n, by |-> 0]}
                 /\ UNCHANGED <<text, model, inputs, body>>
CutFragment(t) == /\ Edit
                  /\ decls' = {d \in decls : d.by = 0 \/ d.name[2] # t}
                  /\ UNCHANGED <<text, model, inputs, body>>
MoveModel(t, m) == /\ Edit
                   /\ model' = [model EXCEPT ![t] = m]
                   /\ UNCHANGED <<text, decls, inputs, body>>
EditBody(t, o, b) == /\ Edit
                     /\ body' = [body EXCEPT ![t][o] = b]
                     /\ UNCHANGED <<text, decls, model, inputs>>
Mend(f) == /\ Edit /\ text[f] = "garbled"
           /\ text' = [text EXCEPT ![f] = "plain"]
           /\ UNCHANGED files

Developer == \/ \E f \in Files, n \in Names : Declare(f, n)
             \/ \E t \in Types : CutFragment(t)
             \/ \E t \in Types, m \in {"none", "hand"} : MoveModel(t, m)
             \/ \E t \in Types, o \in Ops, b \in {"written", "unready", "todo"} : EditBody(t, o, b)
             \/ \E f \in Files : Mend(f)

Next == Stage \/ Kill \/ Developer \/ \E t \in Types, f \in Beside : Start(t, f)

Spec == Init /\ [][Next]_vars

-----------------------------------------------------------------------------
(* A schema that validates, all of it in readable files beside the target, *)
(* still validates with the fragment: no run breaks what gqlgen could      *)
(* load.  And however runs fail, are killed, repeated and cleaned up after, *)
(* none declares in a file what an earlier one has declared there.         *)
Broke == /\ \A f \in Files : text[f] = "plain"
         /\ \A d \in decls : d.file \in Beside
         /\ Validates(decls) /\ ~Validates(decls')
Twice == \E d, e \in decls' : d.by > 0 /\ e.by > 0 /\ d.by # e.by
                                /\ d.file = e.file /\ d.name = e.name
SchemaKept == [][pc = "append" /\ decls' # decls => ~Broke /\ ~Twice]_vars

(* What a person has written no stage replaces: not a model file, not a    *)
(* declaration, and not a resolver gqlgen still serves, a panic included   *)
(* unless it says "not implemented".  That one passes for a stub, and is   *)
(* replaced only by the run that fills its own type.                       *)
Kept(t, o) == /\ pc = "gqlgen" => Served(t)
              /\ \/ body[t][o] \in {"written", "todo"}
                 \/ body[t][o] = "unready" /\ (pc # "patch" \/ t # job.type)
HandWorkKept ==
    [][pc # "idle" => /\ decls \subseteq decls'
                      /\ \A t \in Types : model[t] # "none" => model'[t] = model[t]
                      /\ \A t \in Types, o \in Ops : Kept(t, o) => body'[t][o] = body[t][o]]_vars

(* A run's answer is true of the files.  Success: its type is whole, with  *)
(* a model, its schema, its input struct, and not one resolver that would  *)
(* panic at query time.  Something still missing: every body it could fill *)
(* is kept.  Refused by its own checks: nothing was touched ("validation   *)
(* happens before any file is written").                                   *)
Whole(t) == /\ model'[t] = "generated"
            /\ {"type", "input", "fields"} \X {t} \subseteq {d.name : d \in decls'}
            /\ t \in inputs'
            /\ \A o \in Ops : body'[t][o] \in {"filled", "written"}
Stubbed(t) == \E o \in Ops : body'[t][o] \in {"stub", "unready"}
OutcomeHonest ==
    [][pc # "idle" =>
          /\ result' = "nil" => Whole(job.type)
          /\ result' = "incomplete" => ~Stubbed(job.type)
          /\ result' \in {"building", "checking", "exists"} => Found' = before]_vars
=============================================================================
