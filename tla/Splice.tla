------------------------------- MODULE Splice --------------------------------
(***************************************************************************)
(* How luimagen fills a resolver file (patchSource and importEdits in      *)
(* src/luimagen/patch.go), for a table Fields.tla has accepted and read    *)
(* the input names of: the stubs are replaced by bodies, and the imports   *)
(* are rewritten for what the whole file then uses.  A dead fmt is         *)
(* dropped, and each package the bodies name is imported if it is not yet. *)
(*                                                                         *)
(* The import block is a sequence of entries, one per spec over all the    *)
(* import declarations of the file, of which a resolver file always has    *)
(* one: gqlgen imports context.  Grouping, sorting and rendering are left  *)
(* out: they change no binding.  So is the package of the model, which the *)
(* resolvers' own signatures name.                                         *)
(***************************************************************************)
EXTENDS Fields

Unnamed == ""  \* the name of a spec that gives none

CONSTANTS Aliases,    \* the names a spec may give: Unnamed, or an identifier
          Paths,      \* the import paths, each with its package's name
          MaxImports  \* bound: specs in the file

(* A path is a record of the module it names and of the package's name,    *)
(* which is also its last element.                                         *)
Fmt   == [mod |-> "std", pkg |-> "fmt"]
Luima == [mod |-> "ulas96", pkg |-> "luima"]
Bun   == [mod |-> "uptrace", pkg |-> "bun"]
Needs == <<Fmt, Luima, Bun>>

ASSUME SpliceConstants == /\ {Fmt, Luima, Bun} \subseteq Paths /\ Unnamed \in Aliases
                          /\ MaxImports \in Nat

Specs   == [name : Aliases, path : Paths]
Methods == {"Get", "List", "Create", "Update", "Delete"}

VARIABLES
    pk,        \* the Go type of the primary key: "string", "int" or another scalar
    file,      \* the file as gqlgen left it: its stubs, the names by which they call
               \* fmt, and the package names the rest of it uses
    original,  \* its import specs
    imports,   \* the specs of the rewritten block
    idents,    \* the package names the spliced source uses
    at         \* the entry, or the need, that is looked at

target     == <<fields, table, seen, input, source>>
spliceVars == <<vars, pk, file, original, imports, idents, at>>

(* The identifier a spec binds.                                            *)
Binds(im) == IF im.name = Unnamed THEN im.path.pkg ELSE im.name

(* A file gqlgen has written compiles: no name is bound twice, and exactly *)
(* the bound names are used; a stub uses fmt's, or none.                   *)
BoundBy(ims) == {Binds(ims[i]) : i \in DOMAIN ims}
Blocks == {ims \in SeqOf(Specs, MaxImports) :
              \A i, j \in DOMAIN ims : i # j => Binds(ims[i]) # Binds(ims[j])}
FmtNames(ims) == {Binds(ims[i]) : i \in {k \in DOMAIN ims : ims[k].path = Fmt}}

NoFile == [stubs |-> {}, calls |-> {}, rest |-> {}]
SpliceInit == /\ Init
              /\ pk = "string" /\ file = NoFile /\ original = <<>> /\ imports = <<>>
              /\ idents = {} /\ at = 0

-----------------------------------------------------------------------------
(* With the bodies at hand the table is let go: of it only the key's type  *)
(* matters to what follows.                                                *)
LetGo == /\ stage = "done"
         /\ \E type \in {"string", "int"} : pk' = type
         /\ fields' = <<>> /\ table' = [pk |-> 0, cols |-> <<>>]
         /\ seen' = [cols |-> {}, gql |-> {}] /\ input' = <<>> /\ source' = <<>>
         /\ stage' = "read"
         /\ UNCHANGED <<file, original, imports, idents, at>>

ReadFile == /\ stage = "read"
            /\ \E ims \in Blocks, stubs \in SUBSET Methods :
               \E calls \in IF stubs = {} THEN {{}} ELSE SUBSET FmtNames(ims) :
               \E both \in SUBSET calls :
                  /\ original' = ims /\ imports' = ims
                  /\ file' = [stubs |-> stubs, calls |-> calls,
                              rest |-> (BoundBy(ims) \ calls) \union both]
            /\ stage' = "splice"
            /\ UNCHANGED <<target, pk, idents, at>>

(* The packages a body names: all luima; the list's closure bun; and the   *)
(* label of a create or update fmt, unless the key is a string.            *)
Body(m) == {"luima"} \union (IF m = "List" THEN {"bun"} ELSE {})
                     \union (IF m \in {"Create", "Update"} /\ pk # "string" THEN {"fmt"} ELSE {})

(* What the source uses once the bodies are in.  The variant looks at the  *)
(* tree it parsed before.                                                  *)
Unspliced == file.rest \union file.calls
Spliced   == file.rest \union UNION {Body(m) : m \in file.stubs}

(* Only a stub is replaced; a file without one is not touched.             *)
FillStubs == /\ stage = "splice"
             /\ IF file.stubs = {} THEN stage' = "unchanged" /\ UNCHANGED <<idents, at>>
                ELSE stage' = "drop" /\ idents' = Spliced /\ at' = Len(imports)
             /\ UNCHANGED <<target, pk, file, original, imports>>

(* Backwards, so that a removal skips no entry.                            *)
Before(i)  == i - 1

(* The name a fmt is used by.  The variant overlooks an alias.             *)
NeverAliased(im) == "fmt"
FmtName(im)      == IF im.name = Unnamed THEN "fmt" ELSE im.name

(* A fmt whose binding no identifier uses goes.                            *)
Drop == /\ stage = "drop" /\ at > 0
        /\ imports' = IF imports[at].path = Fmt /\ FmtName(imports[at]) \notin idents
                      THEN RemoveAt(imports, at) ELSE imports
        /\ at' = Before(at)
        /\ UNCHANGED <<target, pk, file, original, idents, stage>>

StartAdding == /\ stage = "drop" /\ at = 0
               /\ stage' = "add" /\ at' = 1
               /\ UNCHANGED <<target, pk, file, original, idents, imports>>

(* The only form a spliced body can use.  The variant looks at the path.   *)
HasPath(ims, path)            == \E i \in DOMAIN ims : ims[i].path = path
HasUnaliasedImport(ims, path) == \E i \in DOMAIN ims : ims[i].path = path /\ ims[i].name = Unnamed

(* Whether an add would redeclare a name.                                  *)
Bound(ims, pkg) == \E i \in DOMAIN ims : Binds(ims[i]) = pkg

(* Only what some identifier uses is imported.                             *)
Used(pkg) == pkg \in idents

Add == /\ stage = "add" /\ at <= Len(Needs)
       /\ LET need == Needs[at] IN
          IF HasUnaliasedImport(imports, need) \/ ~Used(need.pkg)
          THEN at' = at + 1 /\ UNCHANGED <<imports, stage>>
          ELSE IF Bound(imports, need.pkg)
          THEN stage' = "conflict" /\ UNCHANGED <<imports, at>>
          ELSE /\ imports' = Append(imports, [name |-> Unnamed, path |-> need])
               /\ at' = at + 1 /\ UNCHANGED stage
       /\ UNCHANGED <<target, pk, file, original, idents>>

Finish == /\ stage = "add" /\ at > Len(Needs)
          /\ stage' = "written"
          /\ UNCHANGED <<target, pk, file, original, idents, imports, at>>

Table      == Next /\ UNCHANGED <<pk, file, original, imports, idents, at>>
SpliceNext == Table \/ LetGo \/ ReadFile \/ FillStubs \/ Drop \/ StartAdding \/ Add \/ Finish

SpliceSpec == SpliceInit /\ [][SpliceNext]_spliceVars

-----------------------------------------------------------------------------
(* A file that compiled, whoever wrote the rest of it, compiles once it is *)
(* filled: no name is bound twice, exactly what the source uses is bound,  *)
(* each package a body names is bound to the one it means, and no import   *)
(* still in use is lost.  A refused file has fmt, luima or bun in use for  *)
(* something else, or under that name by an alias.                         *)
Uses == file.rest \union UNION {Body(m) : m \in file.stubs}

Compiles ==
    /\ stage = "written" =>
        /\ \A i, j \in DOMAIN imports : i # j => Binds(imports[i]) # Binds(imports[j])
        /\ BoundBy(imports) = Uses
        /\ \A i \in DOMAIN original : Binds(original[i]) \in file.rest => original[i] \in ToSet(imports)
        /\ \A n \in ToSet(Needs) : (\E m \in file.stubs : n.pkg \in Body(m)) =>
              \E i \in DOMAIN imports : imports[i].path = n /\ Binds(imports[i]) = n.pkg
    /\ stage = "conflict" => \E n \in ToSet(Needs), i \in DOMAIN original :
          /\ n.pkg \in Uses /\ Binds(original[i]) = n.pkg
          /\ original[i] # [name |-> Unnamed, path |-> n]
=============================================================================
