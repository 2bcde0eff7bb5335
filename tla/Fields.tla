------------------------------- MODULE Fields --------------------------------
(***************************************************************************)
(* The names luimagen derives.  tableFromFields (src/luimagen/gen.go)      *)
(* checks the fields one by one and resolves their column and GraphQL      *)
(* names; after gqlgen has generated XInput, inputFieldNames reads its     *)
(* field names, and targets (src/luimagen/patch.go) writes the composite   *)
(* literal that fills the model from it.                                   *)
(*                                                                         *)
(* A name is a sequence of letters.  What checkTag refuses of a column     *)
(* name, and the types scalarType maps, are abstracted to one value each.  *)
(***************************************************************************)
EXTENDS Naturals, SequencesExt

CONSTANTS Names,      \* the field names a caller writes
          Columns,    \* the Field.Column overrides a caller writes
          Kinds,      \* the Field.Type a caller writes: "scalar", "array" or "other"
          BaseModel,  \* the name of the field the model embeds
          BadColumn,  \* an override that does not survive the bun tag
          MaxFields   \* bound: fields of the table

Default   == <<>>  \* the override that is absent
Upper     == {"A", "D", "I"}
Lowered   == [A |-> "a", D |-> "d", I |-> "i"]
Delimiter == "_"

ASSUME FieldConstants == /\ MaxFields \in Nat /\ Default \in Columns
                         /\ Names \subseteq Seq(STRING)
                         /\ Kinds \subseteq {"scalar", "array", "other"}

Field == [name : Names, column : Columns, kind : Kinds, pk : BOOLEAN]

VARIABLES
    fields,  \* the fields looked at so far
    table,   \* the non-key columns, as indices of fields, and the key: 0 for none
    seen,    \* the column names and the GraphQL names met so far
    input,   \* the field names of the generated XInput, in order
    source,  \* per column, the XInput field the spliced literal reads
    stage    \* "fields", "generate", "patch", "done"; "refused" on sight of the
             \* last field, or "incomplete" for want of another

vars == <<fields, table, seen, input, source, stage>>

Low(c)      == IF c \in Upper THEN Lowered[c] ELSE c
ToLower(s)  == [i \in DOMAIN s |-> Low(s[i])]
IsLower(c)  == c \notin Upper /\ c # Delimiter

(* An underscore goes before a capital with a lower-case neighbour, never  *)
(* at either end.                                                          *)
SnakeCase(s) ==
    FlattenSeq([i \in DOMAIN s |->
        IF s[i] \in Upper /\ i > 1 /\ i < Len(s) /\ (IsLower(s[i - 1]) \/ IsLower(s[i + 1]))
        THEN <<Delimiter, Low(s[i])>> ELSE <<Low(s[i])>>])

(* A final ID folds to Id before the first letter is lowered.              *)
LowerFirst(s) == LET folded == IF IsSuffix(<<"I", "D">>, s) THEN [s EXCEPT ![Len(s)] = "d"] ELSE s
                 IN  [folded EXCEPT ![1] = Low(folded[1])]

(* An exported identifier, without the delimiter that gqlgen drops.        *)
CheckIdent(s) == s # <<>> /\ s[1] \in Upper /\ Delimiter \notin ToSet(s)

Column(f) == IF f.column = Default THEN SnakeCase(f.name) ELSE f.column

(* What a field is refused for by itself.                                  *)
Allowed(f) == /\ CheckIdent(f.name) /\ f.name # BaseModel
              /\ f.kind # "other" /\ Column(f) # BadColumn

-----------------------------------------------------------------------------
Init == /\ fields = <<>> /\ table = [pk |-> 0, cols |-> <<>>]
        /\ seen = [cols |-> {}, gql |-> {}]
        /\ input = <<>> /\ source = <<>> /\ stage = "fields"

(* What refuses a field on sight, before the primary key is looked at.     *)
(* The variants look for collisions among the columns alone, and ask for   *)
(* the key to come first.                                                  *)
AmongColumns(f) == \/ ~Allowed(f)
                   \/ ~f.pk /\ (Column(f) \in seen.cols \/ LowerFirst(f.name) \in seen.gql)
KeyFirst(f) == \/ ~Allowed(f)
               \/ ~f.pk /\ table.pk = 0
               \/ Column(f) \in seen.cols \/ LowerFirst(f.name) \in seen.gql
Refused(f) == \/ ~Allowed(f)
              \/ Column(f) \in seen.cols \/ LowerFirst(f.name) \in seen.gql

(* A primary key is a scalar and the only one.                             *)
GoodKey(f) == f.kind # "array" /\ table.pk = 0

Look == /\ stage = "fields" /\ Len(fields) < MaxFields
        /\ \E f \in Field :
              /\ fields' = Append(fields, f)
              /\ IF Refused(f) THEN stage' = "refused" /\ UNCHANGED <<table, seen>>
                 ELSE /\ seen' = [cols |-> seen.cols \union {Column(f)},
                                  gql  |-> seen.gql \union {LowerFirst(f.name)}]
                      /\ IF ~f.pk
                         THEN /\ table' = [table EXCEPT !.cols = Append(@, Len(fields'))]
                              /\ UNCHANGED stage
                         ELSE IF GoodKey(f)
                         THEN table' = [table EXCEPT !.pk = Len(fields')] /\ UNCHANGED stage
                         ELSE stage' = "refused" /\ UNCHANGED table
        /\ UNCHANGED <<input, source>>

(* No more fields: the key and a column must be there.                     *)
EndFields == /\ stage = "fields"
             /\ stage' = IF table.pk = 0 \/ table.cols = <<>> THEN "incomplete" ELSE "generate"
             /\ UNCHANGED <<fields, table, seen, input, source>>

(* gqlgen names the field of XInput after the GraphQL name: ToGo re-cases  *)
(* its letters and no more.  Which it raises is its own list's business,   *)
(* so any choice that keeps the generated fields distinct is possible.     *)
Recased(s) == {t \in [DOMAIN s -> Upper \union {Lowered[u] : u \in Upper}] :
                  ToLower(t) = ToLower(s) /\ t[1] \in Upper}
Gqlgen == /\ stage = "generate"
          /\ \E gen \in [DOMAIN table.cols -> UNION {Recased(f.name) : f \in ToSet(fields)}] :
                /\ \A i \in DOMAIN gen :
                      gen[i] \in Recased(LowerFirst(fields[table.cols[i]].name))
                /\ IsInjective(gen)
                /\ input' = gen
          /\ stage' = "patch"
          /\ UNCHANGED <<fields, table, seen, source>>

(* The generated fields keyed by lower-cased name: of two, the later.      *)
InputFieldNames == [low \in {ToLower(input[i]) : i \in DOMAIN input} |->
                      input[CHOOSE i \in DOMAIN input :
                               /\ ToLower(input[i]) = low
                               /\ \A j \in DOMAIN input : j > i => ToLower(input[j]) # low]]

(* The field a column is filled from.  The variant predicts it.            *)
Predicted(name)  == name
InputField(name) == IF ToLower(name) \in DOMAIN InputFieldNames
                    THEN InputFieldNames[ToLower(name)] ELSE name

Patch == /\ stage = "patch"
         /\ source' = [i \in DOMAIN table.cols |-> InputField(fields[table.cols[i]].name)]
         /\ stage' = "done"
         /\ UNCHANGED <<fields, table, seen, input>>

Next == Look \/ EndFields \/ Gqlgen \/ Patch

Spec == Init /\ [][Next]_vars

-----------------------------------------------------------------------------
(* What the documentation asks of the fields of a table.                   *)
Describable(fs) ==
    /\ \A i \in DOMAIN fs : Allowed(fs[i]) /\ (fs[i].pk => fs[i].kind = "scalar")
    /\ \A i, j \in DOMAIN fs : i # j => /\ ~(fs[i].pk /\ fs[j].pk)
                                        /\ Column(fs[i]) # Column(fs[j])
                                        /\ LowerFirst(fs[i].name) # LowerFirst(fs[j].name)
Whole(fs) == (\E i \in DOMAIN fs : fs[i].pk) /\ (\E i \in DOMAIN fs : ~fs[i].pk)

(* The single pass over the fields, with its early returns and its two     *)
(* maps, accepts exactly what the documentation asks for.  A refusal on    *)
(* the way is for its last field: those before it could be described, and  *)
(* with it no further field could make them good.  A refusal at the end is *)
(* of fields that lack the key or a column and nothing else.               *)
VerdictExact == /\ stage \in {"fields", "incomplete", "generate", "patch", "done"} => Describable(fields)
                /\ stage = "refused" => ~Describable(fields) /\ Describable(Front(fields))
                /\ stage = "incomplete" => ~Whole(fields)
                /\ stage \in {"generate", "patch", "done"} => Whole(fields)

(* A spliced literal names only fields that XInput has, and fills each     *)
(* column from the field gqlgen made of it, where no two columns of the    *)
(* table differ in case alone.                                             *)
ReadsWhatIsThere ==
    /\ stage = "done" => ToSet(source) \subseteq ToSet(input)
    /\ stage = "done" /\ (\A i, j \in DOMAIN input : i # j => ToLower(input[i]) # ToLower(input[j]))
          => source = input

(* "Read the names, never predict them": every column of an accepted table *)
(* is filled from its own input field.                                     *)
OwnInput == stage = "done" => source = input
=============================================================================
