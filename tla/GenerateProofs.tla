--------------------------- MODULE GenerateProofs ---------------------------
(***************************************************************************)
(* Proofs about Generate, for any types, files and resolvers, and any      *)
(* number of runs and edits.                                               *)
(*                                                                         *)
(* Each stage of a run relies on what an earlier one has seen or done:     *)
(* the fragment that is appended was planned against a schema that is      *)
(* still the one on disk, the answer rests on files that earlier stages    *)
(* wrote.  The invariant carries those facts along, and with them what a   *)
(* fragment leaves behind: it stands in its file whole, or not at all.     *)
(***************************************************************************)
EXTENDS Generate, TLAPS

Bodies == {"absent", "stub", "filled", "written", "unready", "todo"}

TypeOK == /\ text \in [Files -> {"plain", "loose", "garbled"}]
          /\ decls \subseteq [file : Files, name : Names, by : Nat]
          /\ model \in [Types -> {"none", "generated", "hand"}]
          /\ body \in [Types -> [Ops -> Bodies]]
          /\ pc \in {"idle", "build", "plan", "model", "append", "gqlgen", "read", "patch"}
          /\ pc # "idle" => job.type \in Types /\ job.file \in Beside
          /\ runs \in Nat

(* What the fragment of a run looks like while it waits to be appended.    *)
Planned == pc \in {"model", "append"} =>
    LET D == Seen(job.file)
    IN  /\ frag = Fragment(D, job.type, job.file)
        /\ ~Taken(D, job.type) /\ Composes(D, frag) /\ text[job.file] # "garbled"

(* Every declaration is of a run that has begun, and none of a run that    *)
(* has not yet appended.                                                   *)
Begun == \A d \in decls : /\ d.by <= runs
                          /\ pc \in {"build", "plan", "model", "append"} => d.by < runs

(* Where an input or the root fields of a type came from a run, its type   *)
(* did too.                                                                *)
Entire == \A d \in decls : \A t \in Types :
              d.by > 0 /\ d.name \in {<<"input", t>>, <<"fields", t>>} =>
                  [file |-> d.file, name |-> <<"type", t>>, by |-> d.by] \in decls

(* No two runs declare a name in one file.                                 *)
Again(d, e) == /\ d.by > 0 /\ e.by > 0 /\ d.by # e.by
               /\ d.file = e.file /\ d.name = e.name
Once == \A d, e \in decls : ~Again(d, e)

(* What the stages behind a run have left.                                 *)
Done == /\ pc # "idle" => result = "none"
        /\ pc \in {"build", "plan", "model"} => Found = before
        /\ pc \in {"append", "gqlgen", "read", "patch"} => model[job.type] = "generated"
        /\ pc \in {"gqlgen", "read", "patch"} =>
               {"type", "input", "fields"} \X {job.type} \subseteq NamesIn(decls)
        /\ pc = "patch" => job.type \in inputs

IInv == TypeOK /\ Planned /\ Begun /\ Entire /\ Once /\ Done

-----------------------------------------------------------------------------
(* The declarations of a fragment.                                         *)
LEMMA FragmentIs ==
    ASSUME NEW D, NEW t, NEW f
    PROVE  \A e : e \in Fragment(D, t, f) <=>
               \E n \in ({"type", "input", "fields"} \X {t}) \cup (Roots \ NamesIn(D)) :
                   e = [file |-> f, name |-> n, by |-> runs]
  BY DEF Fragment

LEMMA FragmentType ==
    ASSUME runs \in Nat, NEW D, NEW t \in Types, NEW f \in Files
    PROVE  /\ Fragment(D, t, f) \subseteq [file : Files, name : Names, by : Nat]
           /\ {"type", "input", "fields"} \X {t} \subseteq NamesIn(Fragment(D, t, f))
  <1>1. Fragment(D, t, f) \subseteq [file : Files, name : Names, by : Nat]
    BY DEF Fragment, Names, Roots
  <1>2. ASSUME NEW n \in {"type", "input", "fields"} \X {t}
        PROVE  n \in NamesIn(Fragment(D, t, f))
    <2>1. [file |-> f, name |-> n, by |-> runs] \in Fragment(D, t, f)
      BY FragmentIs
    <2> QED  BY <2>1 DEF NamesIn
  <1> QED  BY <1>1, <1>2

(* Names that differ in a component differ.                                *)
LEMMA Tags ==
    ASSUME NEW t, NEW u
    PROVE  /\ <<"input", t>> # <<"type", u>> /\ <<"fields", t>> # <<"type", u>>
           /\ <<"input", t>>[2] = t /\ <<"fields", t>>[2] = t /\ <<"type", t>>[2] = t
           /\ \A n \in Roots : n # <<"input", t>> /\ n # <<"fields", t>>
           /\ \A n \in {"type", "input", "fields"} \X {t} :
                  n = <<"type", t>> \/ n = <<"input", t>> \/ n = <<"fields", t>>
           /\ (<<"input", t>> = <<"input", u>> \/ <<"fields", t>> = <<"fields", u>>) => t = u
  BY DEF Roots

LEMMA InitInv == Init => IInv
  BY GenerateConstants
  DEF Init, IInv, TypeOK, Planned, Begun, Entire, Once, Again, Done, Bodies, Names

-----------------------------------------------------------------------------
(* Appending a fragment as it was planned.                                 *)
LEMMA Appended ==
    ASSUME IInv, pc = "append", decls' = decls \cup frag, UNCHANGED <<runs, text, job>>
    PROVE  /\ decls' \subseteq [file : Files, name : Names, by : Nat]
           /\ \A d \in decls' : d.by <= runs
           /\ \A d \in decls' : \A t \in Types :
                  d.by > 0 /\ d.name \in {<<"input", t>>, <<"fields", t>>} =>
                      [file |-> d.file, name |-> <<"type", t>>, by |-> d.by] \in decls'
           /\ \A d, e \in decls' : ~Again(d, e)
           /\ {"type", "input", "fields"} \X {job.type} \subseteq NamesIn(decls')
  <1> DEFINE D == Seen(job.file)
  <1>0. /\ job.type \in Types /\ job.file \in Beside /\ job.file \in Files /\ runs \in Nat
        /\ frag = Fragment(D, job.type, job.file) /\ ~Taken(D, job.type)
        /\ text[job.file] # "garbled"
    BY DEF IInv, TypeOK, Planned, Files
  <1> HIDE DEF D
  <1>1. /\ frag \subseteq [file : Files, name : Names, by : Nat]
        /\ {"type", "input", "fields"} \X {job.type} \subseteq NamesIn(frag)
    BY <1>0, FragmentType
  <1>2. decls' \subseteq [file : Files, name : Names, by : Nat]
    BY <1>1 DEF IInv, TypeOK
  <1>3. \A e \in frag : e.by = runs /\ e.file = job.file
    BY <1>0, FragmentIs
  <1>4. \A d \in decls : d.by < runs /\ d.by \in Nat
    BY DEF IInv, Begun, TypeOK
  <1>5. \A d \in decls' : d.by <= runs
    BY <1>0, <1>3, <1>4
  <1>6. ASSUME NEW d \in decls', NEW t \in Types, d.by > 0,
               d.name \in {<<"input", t>>, <<"fields", t>>}
        PROVE  [file |-> d.file, name |-> <<"type", t>>, by |-> d.by] \in decls'
    <2>1. CASE d \in decls
      BY <1>6, <2>1 DEF IInv, Entire
    <2>2. CASE d \in frag
      <3>1. PICK n \in ({"type", "input", "fields"} \X {job.type}) \cup (Roots \ NamesIn(D)) :
                d = [file |-> job.file, name |-> n, by |-> runs]
        BY <1>0, <2>2, FragmentIs
      <3>2. n \notin Roots
        BY <1>6, <3>1, Tags
      <3>3. n \in {<<"type", job.type>>, <<"input", job.type>>, <<"fields", job.type>>}
        BY <3>1, <3>2, Tags
      <3>4. t = job.type
        BY <1>6, <3>1, <3>3, Tags
      <3>5. [file |-> job.file, name |-> <<"type", job.type>>, by |-> runs] \in frag
        BY <1>0, FragmentIs
      <3> QED  BY <3>1, <3>4, <3>5
    <2> QED  BY <2>1, <2>2
  <1>7. ASSUME NEW d \in decls, NEW e \in frag, d.by > 0, d.file = e.file, d.name = e.name
        PROVE  FALSE
    <2>1. d \in D
      <3>1. d.file = job.file
        BY <1>3, <1>7
      <3> QED  BY <1>0, <3>1 DEF D, Seen
    <2>2. d.name \in NamesIn(D)
      BY <2>1 DEF NamesIn
    <2>3. PICK n \in ({"type", "input", "fields"} \X {job.type}) \cup (Roots \ NamesIn(D)) :
              e = [file |-> job.file, name |-> n, by |-> runs]
      BY <1>0, FragmentIs
    <2>4. d.name = n
      BY <1>7, <2>3
    <2>5. n \in {<<"type", job.type>>, <<"input", job.type>>, <<"fields", job.type>>}
      BY <2>2, <2>3, <2>4, Tags
    <2>6. <<"type", job.type>> \in NamesIn(D)
      <3>1. CASE n = <<"type", job.type>>
        BY <2>2, <2>4, <3>1
      <3>2. CASE n \in {<<"input", job.type>>, <<"fields", job.type>>}
        <4> DEFINE x == [file |-> d.file, name |-> <<"type", job.type>>, by |-> d.by]
        <4>1. x \in decls
          BY <1>0, <1>7, <2>4, <3>2 DEF IInv, Entire
        <4>2. x \in D
          BY <2>1, <4>1 DEF D, Seen
        <4> QED  BY <4>2 DEF NamesIn
      <3> QED  BY <2>5, <3>1, <3>2
    <2> QED  BY <1>0, <2>6 DEF Taken
  <1>8. \A d, e \in decls' : ~Again(d, e)
    <2> SUFFICES ASSUME NEW d \in decls', NEW e \in decls', Again(d, e) PROVE FALSE
      OBVIOUS
    <2>1. CASE d \in decls /\ e \in decls
      BY <2>1 DEF IInv, Once
    <2>2. CASE d \in decls /\ e \in frag
      BY <1>7, <2>2 DEF Again
    <2>3. CASE d \in frag /\ e \in decls
      BY <1>7, <2>3 DEF Again
    <2>4. CASE d \in frag /\ e \in frag
      BY <1>3, <2>4 DEF Again
    <2> QED  BY <2>1, <2>2, <2>3, <2>4
  <1>9. {"type", "input", "fields"} \X {job.type} \subseteq NamesIn(decls')
    BY <1>1 DEF NamesIn
  <1> QED  BY <1>2, <1>5, <1>6, <1>8, <1>9

-----------------------------------------------------------------------------
(* What is said of the declarations stands while they do.                  *)
LEMMA DeclsKept ==
    ASSUME IInv, decls' = decls, runs' = runs
    PROVE  Entire' /\ Once' /\ \A d \in decls' : d.by <= runs'
  BY DEF IInv, Entire, Once, Again, Begun

(* A run that ends owes nothing more.                                      *)
LEMMA EndKeeps ==
    ASSUME IInv, NEW r, End(r), UNCHANGED <<text, decls, runs>>,
           model' \in [Types -> {"none", "generated", "hand"}],
           body' \in [Types -> [Ops -> Bodies]]
    PROVE  IInv'
  <1>1. TypeOK'
    BY DEF End, IInv, TypeOK
  <1>2. Planned' /\ Begun' /\ Done'
    BY DeclsKept DEF End, Planned, Begun, Done
  <1> QED  BY <1>1, <1>2, DeclsKept DEF IInv

LEMMA StageInv == IInv /\ (Stage \/ Kill) => IInv'
  <1> SUFFICES ASSUME IInv, Stage \/ Kill PROVE IInv'
    OBVIOUS
  <1> USE DEF files
  <1>1. CASE Build
    <2>1. CASE End("building")
      BY <1>1, <2>1, EndKeeps DEF Build, IInv, TypeOK
    <2>2. CASE Goto("plan")
      <3>1. TypeOK'
        BY <1>1, <2>2 DEF Build, Goto, IInv, TypeOK
      <3>2. Planned' /\ Begun'
        BY <1>1, <2>2 DEF Build, Goto, IInv, Planned, Begun
      <3>3. Done'
        BY <1>1, <2>2 DEF Build, Goto, IInv, Done, Found
      <3> QED  BY <1>1, <3>1, <3>2, <3>3, DeclsKept DEF Build, IInv
    <2> QED  BY <1>1, <2>1, <2>2 DEF Build
  <1>2. CASE PlanSDL
    <2>1. CASE End("checking")
      BY <1>2, <2>1, EndKeeps DEF PlanSDL, IInv, TypeOK
    <2>2. CASE ~End("checking")
      <3> DEFINE D == Seen(job.file)
                 F == Fragment(D, job.type, job.file)
      <3>1. /\ Goto("model") /\ frag' = F /\ text[job.file] # "garbled"
            /\ ~Taken(D, job.type) /\ Composes(D, F) /\ UNCHANGED <<text, files, runs, edits>>
            /\ pc = "plan"
        BY <1>2, <2>2 DEF PlanSDL
      <3>2. TypeOK'
        BY <3>1 DEF Goto, IInv, TypeOK
      <3>3. Begun'
        BY <3>1 DEF Goto, IInv, Begun
      <3>4. Planned'
        <4>1. job' = job /\ text' = text /\ decls' = decls /\ runs' = runs
          BY <3>1 DEF Goto, files
        <4>2. Seen(job.file)' = D
          BY <4>1 DEF Seen
        <4>3. \A E, t : Taken(E, t)' <=> Taken(E, t)
          BY DEF Taken, NamesIn
        <4>4. \A E, G : Composes(E, G)' <=> Composes(E, G)
          BY <4>1 DEF Composes, Standalone, Validates, NamesIn
        <4>5. \A E, t, f : Fragment(E, t, f)' = Fragment(E, t, f)
          BY <4>1 DEF Fragment, NamesIn
        <4> QED  BY <3>1, <4>1, <4>2, <4>3, <4>4, <4>5 DEF Planned
      <3>5. Done'
        BY <3>1 DEF Goto, IInv, Done, Found
      <3> QED  BY <3>1, <3>2, <3>3, <3>4, <3>5, DeclsKept DEF IInv
    <2> QED  BY <2>1, <2>2
  <1>3. CASE WriteModel
    <2>1. CASE UNCHANGED model
      BY <1>3, <2>1, EndKeeps DEF WriteModel, IInv, TypeOK, NoModel
    <2>2. CASE ~UNCHANGED model
      <3>1. /\ NoModel(job.type) /\ model' = [model EXCEPT ![job.type] = "generated"]
            /\ Goto("append") /\ UNCHANGED frag /\ pc = "model"
            /\ UNCHANGED <<text, decls, inputs, body, runs, edits>>
        BY <1>3, <2>2 DEF WriteModel
      <3>2. TypeOK'
        BY <3>1 DEF Goto, IInv, TypeOK
      <3>3. Begun'
        BY <3>1 DEF Goto, IInv, Begun
      <3>4. Planned'
        BY <3>1 DEF Goto, IInv, Planned, Seen, Fragment, Taken, Composes, Standalone, Validates,
                    NamesIn
      <3>5. Done'
        BY <3>1 DEF Goto, IInv, TypeOK, Done
      <3> QED  BY <3>1, <3>2, <3>3, <3>4, <3>5, DeclsKept DEF IInv
    <2> QED  BY <2>1, <2>2
  <1>4. CASE AppendSDL
    <2>1. CASE End("writing SDL") /\ UNCHANGED decls
      BY <1>4, <2>1, EndKeeps DEF AppendSDL, IInv, TypeOK
    <2>2. CASE decls' = decls \cup frag /\ Goto("gqlgen")
      <3>1. UNCHANGED <<text, job, runs, model, body>> /\ pc = "append"
        BY <1>4, <2>2 DEF AppendSDL, Goto
      <3>2. /\ decls' \subseteq [file : Files, name : Names, by : Nat]
            /\ \A d \in decls' : d.by <= runs
            /\ \A d \in decls' : \A t \in Types :
                  d.by > 0 /\ d.name \in {<<"input", t>>, <<"fields", t>>} =>
                      [file |-> d.file, name |-> <<"type", t>>, by |-> d.by] \in decls'
            /\ \A d, e \in decls' : ~Again(d, e)
            /\ {"type", "input", "fields"} \X {job.type} \subseteq NamesIn(decls')
        BY <2>2, <3>1, Appended
      <3>3. TypeOK'
        BY <2>2, <3>1, <3>2 DEF Goto, IInv, TypeOK
      <3>4. Begun' /\ Planned'
        BY <2>2, <3>1, <3>2 DEF Goto, Begun, Planned
      <3>5. Entire' /\ Once'
        BY <3>2 DEF Entire, Once, Again
      <3>6. Done'
        BY <2>2, <3>1, <3>2 DEF Goto, IInv, Done, NamesIn
      <3> QED  BY <3>3, <3>4, <3>5, <3>6 DEF IInv
    <2> QED  BY <1>4, <2>1, <2>2 DEF AppendSDL
  <1>5. CASE Gqlgen
    <2>1. body' \in [Types -> [Ops -> Bodies]]
      <3>1. ASSUME NEW t \in Types, NEW o \in Ops PROVE Resolver(t, body[t][o]) \in Bodies
        BY DEF Resolver, IInv, TypeOK, Bodies
      <3> QED  BY <1>5, <3>1 DEF Gqlgen, IInv, TypeOK
    <2>2. CASE End("gqlgen")
      BY <1>5, <2>1, <2>2, EndKeeps DEF Gqlgen, IInv, TypeOK
    <2>3. CASE Goto("read")
      <3>1. TypeOK'
        BY <1>5, <2>1, <2>3 DEF Gqlgen, Goto, IInv, TypeOK
      <3>2. Begun' /\ Planned'
        BY <1>5, <2>3 DEF Gqlgen, Goto, IInv, Begun, Planned
      <3>3. Done'
        BY <1>5, <2>3 DEF Gqlgen, Goto, IInv, Done, NamesIn
      <3> QED  BY <1>5, <3>1, <3>2, <3>3, DeclsKept DEF Gqlgen, IInv
    <2> QED  BY <1>5, <2>2, <2>3 DEF Gqlgen
  <1>6. CASE InputFieldNames
    <2>1. CASE End("reading")
      BY <1>6, <2>1, EndKeeps DEF InputFieldNames, IInv, TypeOK
    <2>2. CASE job.type \in inputs /\ Goto("patch")
      <3>1. TypeOK'
        BY <1>6, <2>2 DEF InputFieldNames, Goto, IInv, TypeOK
      <3>2. Begun' /\ Planned'
        BY <1>6, <2>2 DEF InputFieldNames, Goto, IInv, Begun, Planned
      <3>3. Done'
        BY <1>6, <2>2 DEF InputFieldNames, Goto, IInv, Done, NamesIn
      <3> QED  BY <1>6, <3>1, <3>2, <3>3, DeclsKept DEF InputFieldNames, IInv
    <2> QED  BY <1>6, <2>1, <2>2 DEF InputFieldNames
  <1>7. CASE PatchStubs
    <2>1. \E r : End(r)
      BY <1>7 DEF PatchStubs
    <2>2. body' \in [Types -> [Ops -> Bodies]]
      <3>1. ASSUME NEW t \in Types PROVE Patched(t) \in [Ops -> Bodies]
        BY DEF Patched, IInv, TypeOK, Bodies
      <3>2. job.type \in Types /\ body \in [Types -> [Ops -> Bodies]]
        BY <1>7 DEF PatchStubs, IInv, TypeOK
      <3>3. body' = body \/ body' = [body EXCEPT ![job.type] = Patched(job.type)]
        BY <1>7 DEF PatchStubs, Save
      <3> QED  BY <3>1, <3>2, <3>3
    <2> QED  BY <1>7, <2>1, <2>2, EndKeeps DEF PatchStubs, IInv, TypeOK
  <1>8. CASE Kill
    BY <1>8, EndKeeps DEF Kill, IInv, TypeOK
  <1> QED  BY <1>1, <1>2, <1>3, <1>4, <1>5, <1>6, <1>7, <1>8 DEF Stage

LEMMA DeveloperInv == IInv /\ Developer => IInv'
  <1> SUFFICES ASSUME IInv, Developer PROVE IInv'
    OBVIOUS
  <1>1. pc = "idle" /\ pc' = "idle" /\ runs' = runs /\ result' = result
    BY DEF Developer, Declare, CutFragment, MoveModel, EditBody, Mend, Edit, run
  <1>2. Planned' /\ Done'
    BY <1>1 DEF Planned, Done
  <1>3. ASSUME NEW f \in Files, NEW n \in Names, Declare(f, n) PROVE IInv'
    <2>1. decls' = decls \cup {[file |-> f, name |-> n, by |-> 0]}
      BY <1>3 DEF Declare
    <2>2. TypeOK'
      BY <1>1, <1>3, <2>1 DEF Declare, IInv, TypeOK
    <2>3. Begun' /\ Entire' /\ Once'
      BY <1>1, <2>1 DEF IInv, TypeOK, Begun, Entire, Once, Again
    <2> QED  BY <1>2, <2>2, <2>3 DEF IInv
  <1>4. ASSUME NEW t \in Types, CutFragment(t) PROVE IInv'
    <2>1. decls' = {d \in decls : d.by = 0 \/ d.name[2] # t}
      BY <1>4 DEF CutFragment
    <2>2. TypeOK' /\ Begun' /\ Once'
      BY <1>1, <1>4, <2>1 DEF CutFragment, IInv, TypeOK, Begun, Once, Again
    <2>3. ASSUME NEW d \in decls', NEW u \in Types, d.by > 0,
                 d.name \in {<<"input", u>>, <<"fields", u>>}
          PROVE  [file |-> d.file, name |-> <<"type", u>>, by |-> d.by] \in decls'
      <3> DEFINE x == [file |-> d.file, name |-> <<"type", u>>, by |-> d.by]
      <3>1. d \in decls /\ d.name[2] # t
        BY <2>1, <2>3
      <3>2. u # t
        BY <2>3, <3>1, Tags
      <3>3. x \in decls
        BY <2>3, <3>1 DEF IInv, Entire
      <3>4. x.name[2] = u
        BY Tags
      <3> QED  BY <2>1, <3>2, <3>3, <3>4
    <2> QED  BY <1>2, <2>2, <2>3 DEF IInv, Entire
  <1>5. ASSUME NEW t \in Types, NEW m \in {"none", "hand"}, MoveModel(t, m) PROVE IInv'
    <2>1. TypeOK' /\ Begun'
      BY <1>1, <1>5 DEF MoveModel, IInv, TypeOK, Begun
    <2> QED  BY <1>1, <1>2, <1>5, <2>1, DeclsKept DEF MoveModel, IInv
  <1>6. ASSUME NEW t \in Types, NEW o \in Ops, NEW b \in {"written", "unready", "todo"}, EditBody(t, o, b)
        PROVE  IInv'
    <2>1. TypeOK' /\ Begun'
      BY <1>1, <1>6 DEF EditBody, IInv, TypeOK, Begun, Bodies
    <2> QED  BY <1>1, <1>2, <1>6, <2>1, DeclsKept DEF EditBody, IInv
  <1>7. ASSUME NEW f \in Files, Mend(f) PROVE IInv'
    <2>1. TypeOK' /\ Begun'
      BY <1>1, <1>7 DEF Mend, files, IInv, TypeOK, Begun
    <2> QED  BY <1>1, <1>2, <1>7, <2>1, DeclsKept DEF Mend, files, IInv
  <1> QED  BY <1>3, <1>4, <1>5, <1>6, <1>7 DEF Developer

LEMMA NextInv == IInv /\ [Next]_vars => IInv'
  <1> SUFFICES ASSUME IInv, [Next]_vars PROVE IInv'
    OBVIOUS
  <1>1. ASSUME NEW t \in Types, NEW f \in Beside, Start(t, f) PROVE IInv'
    <2>1. TypeOK' /\ Begun' /\ Planned'
      BY <1>1 DEF Start, files, IInv, TypeOK, Begun, Planned
    <2>2. Entire' /\ Once' /\ Done'
      BY <1>1 DEF Start, files, IInv, Entire, Once, Again, Done, Found
    <2> QED  BY <2>1, <2>2 DEF IInv
  <1>2. CASE UNCHANGED vars
    <2>1. TypeOK' /\ Begun' /\ Done'
      BY <1>2 DEF vars, files, run, IInv, TypeOK, Begun, Done, Found, NamesIn
    <2>2. Planned'
      BY <1>2 DEF vars, files, run, IInv, Planned, Seen, Fragment, Taken, Composes, Standalone,
                  Validates, NamesIn
    <2> QED  BY <1>2, <2>1, <2>2, DeclsKept DEF vars, files, IInv
  <1> QED  BY <1>1, <1>2, StageInv, DeveloperInv DEF Next

(* The invariant holds of every reachable state.                           *)
THEOREM Inductive == Spec => []IInv
  BY InitInv, NextInv, PTL DEF Spec

-----------------------------------------------------------------------------
(* No run breaks a schema that gqlgen could load, as long as planSDL sees  *)
(* all of it, and none declares again what an earlier run has declared in  *)
(* that file: however often runs fail, are killed and are repeated.        *)
THEOREM NoSchemaBroken == Spec => SchemaKept
  <1> DEFINE A == pc = "append" /\ decls' # decls => ~Broke /\ ~Twice
  <1>1. IInv /\ [Next]_vars => [A]_vars
    <2> SUFFICES ASSUME IInv, [Next]_vars, pc = "append", decls' # decls
                 PROVE  ~Broke /\ ~Twice
      OBVIOUS
    <2>1. AppendSDL
      BY DEF Next, Stage, Kill, Build, PlanSDL, WriteModel, Gqlgen, InputFieldNames, PatchStubs,
             Developer, Declare, CutFragment, MoveModel, EditBody, Mend, Edit, Start, files, vars
    <2>2. decls' = decls \cup frag /\ UNCHANGED <<runs, text, job>>
      BY <2>1 DEF AppendSDL, Goto
    <2>3. ~Twice
      BY <2>2, Appended DEF Twice, Again
    <2>4. ASSUME Broke PROVE FALSE
      <3>1. Standalone
        BY <2>4, GenerateConstants DEF Broke, Standalone, Files
      <3>2. Seen(job.file) = decls
        BY <2>4, GenerateConstants DEF Broke, Seen, Files, IInv, TypeOK
      <3>3. Validates(decls \cup frag)
        BY <2>4, <3>1, <3>2 DEF Broke, IInv, Planned, Composes
      <3>4. Validates(decls')
        BY <2>2, <3>3
      <3>5. ~Validates(decls')
        BY <2>4 DEF Broke
      <3> QED  BY <3>4, <3>5
    <2> QED  BY <2>3, <2>4
  <1> QED  BY <1>1, Inductive, PTL DEF Spec, SchemaKept

(* Only gqlgen and patchStubs touch a body, and neither takes one that is  *)
(* kept.                                                                   *)
LEMMA BodiesKept ==
    ASSUME TypeOK, Stage \/ Kill, NEW t \in Types, NEW o \in Ops, Kept(t, o)
    PROVE  body'[t][o] = body[t][o]
  <1>1. CASE Gqlgen
    BY <1>1 DEF Gqlgen, Kept, Resolver, TypeOK
  <1>2. CASE PatchStubs
    <2>1. CASE UNCHANGED body
      BY <2>1
    <2>2. CASE Save(job.type)
      <3>1. pc = "patch" /\ (t = job.type => body[t][o] \in {"written", "todo"})
        BY <1>2 DEF PatchStubs, Kept
      <3>2. t = job.type => Patched(t)[o] = body[t][o]
        BY <3>1 DEF Patched, IsStub
      <3> QED  BY <2>2, <3>2 DEF Save, TypeOK
    <2> QED  BY <1>2, <2>1, <2>2 DEF PatchStubs
  <1>3. CASE Build \/ PlanSDL \/ WriteModel \/ AppendSDL \/ InputFieldNames \/ Kill
    BY <1>3 DEF Build, PlanSDL, WriteModel, AppendSDL, InputFieldNames, Kill, files
  <1> QED  BY <1>1, <1>2, <1>3 DEF Stage

(* No stage of any run, of those that fail included, replaces what a       *)
(* person has written, a panic that passes for a stub excepted, and that   *)
(* only by the run of its own type.                                        *)
THEOREM HandWorkSurvives == Spec => HandWorkKept
  <1> DEFINE A == pc # "idle" =>
                    /\ decls \subseteq decls'
                    /\ \A t \in Types : model[t] # "none" => model'[t] = model[t]
                    /\ \A t \in Types, o \in Ops : Kept(t, o) => body'[t][o] = body[t][o]
  <1>1. IInv /\ [Next]_vars => [A]_vars
    <2> SUFFICES ASSUME IInv, Next, pc # "idle" PROVE A
      OBVIOUS
    <2>1. Stage \/ Kill
      BY DEF Next, Developer, Declare, CutFragment, MoveModel, EditBody, Mend, Edit, Start
    <2>2. decls \subseteq decls'
      BY <2>1 DEF Stage, Build, PlanSDL, WriteModel, AppendSDL, Gqlgen, InputFieldNames, PatchStubs,
                  Kill, files
    <2>3. \A t \in Types : model[t] # "none" => model'[t] = model[t]
      BY <2>1 DEF Stage, Build, PlanSDL, WriteModel, AppendSDL, Gqlgen, InputFieldNames, PatchStubs,
                  Kill, files, NoModel, IInv, TypeOK
    <2> QED  BY <2>1, <2>2, <2>3, BodiesKept DEF IInv
  <1> QED  BY <1>1, Inductive, PTL DEF Spec, HandWorkKept

(* What a run answers is so: a nil is for a type that is whole, whatever   *)
(* state earlier runs and edits had left its files in, and a refusal by    *)
(* the run's own checks has touched nothing.                               *)
THEOREM AnswersAreSo == Spec => OutcomeHonest
  <1> DEFINE A == pc # "idle" =>
                    /\ result' = "nil" => Whole(job.type)
                    /\ result' = "incomplete" => ~Stubbed(job.type)
                    /\ result' \in {"building", "checking", "exists"} => Found' = before
  <1>1. IInv /\ [Next]_vars => [A]_vars
    <2> SUFFICES ASSUME IInv, Next, pc # "idle" PROVE A
      OBVIOUS
    <2>1. Stage \/ Kill
      BY DEF Next, Developer, Declare, CutFragment, MoveModel, EditBody, Mend, Edit, Start
    <2>2. CASE PatchStubs
      <3> DEFINE B == Patched(job.type)
      <3>0. /\ job.type \in Types /\ body \in [Types -> [Ops -> Bodies]]
            /\ UNCHANGED <<decls, model, inputs>> /\ pc = "patch"
        BY <2>2 DEF PatchStubs, IInv, TypeOK
      <3>1. CASE End("patching")
        BY <3>1 DEF End
      <3>2. CASE ~End("patching")
        <4>1. body'[job.type] = B
          BY <2>2, <3>0, <3>2 DEF PatchStubs, Save
        <4>2. \A o \in Ops : B[o] \in Bodies /\ B[o] \notin {"stub", "unready"}
          BY <3>0 DEF Patched, IsStub, Bodies
        <4>3. result' \in {"incomplete", "already", "nil"}
          BY <2>2, <3>2 DEF PatchStubs, End
        <4>4. result' = "nil" => \A o \in Ops : Complete(B[o])
          BY <2>2, <3>2 DEF PatchStubs, End
        <4>5. /\ model[job.type] = "generated" /\ job.type \in inputs
              /\ {"type", "input", "fields"} \X {job.type} \subseteq NamesIn(decls)
          BY <3>0 DEF IInv, Done
        <4>6. result' = "nil" => Whole(job.type)
          BY <3>0, <4>1, <4>4, <4>5 DEF Whole, Complete, NamesIn
        <4> QED  BY <4>1, <4>2, <4>3, <4>6 DEF Stubbed
      <3> QED  BY <3>1, <3>2
    <2>3. CASE Build
      BY <2>3 DEF Build, End, Goto, files, IInv, Done, Found
    <2>4. CASE PlanSDL
      BY <2>4 DEF PlanSDL, End, Goto, files, IInv, Done, Found
    <2>5. CASE WriteModel
      BY <2>5 DEF WriteModel, End, Goto, IInv, Done, Found
    <2>6. CASE AppendSDL \/ Gqlgen \/ InputFieldNames \/ Kill
      BY <2>6 DEF AppendSDL, Gqlgen, InputFieldNames, Kill, End, Goto, IInv, Done
    <2> QED  BY <2>1, <2>2, <2>3, <2>4, <2>5, <2>6 DEF Stage
  <1> QED  BY <1>1, Inductive, PTL DEF Spec, OutcomeHonest
=============================================================================
