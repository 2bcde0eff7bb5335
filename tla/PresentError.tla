---------------------------- MODULE PresentError -----------------------------
(***************************************************************************)
(* PresentError (src/luimaerr/errors.go): what a client is told of an      *)
(* error, and where it is said to have happened, while other requests      *)
(* report the same error value.                                            *)
(*                                                                         *)
(* gqlgen, which is external, hands every error on in steps: it fills in   *)
(* the locations, then the path, of a *gqlerror.Error where they are still *)
(* empty, in place; any other error it wraps in a new one.  So a value     *)
(* that resolvers share keeps what the first request wrote into it.        *)
(***************************************************************************)
EXTENDS Naturals, SequencesExt

CONSTANTS Operations, \* those in progress, each of which reports one error
          Paths,      \* the paths of fields; a path is a sequence of names
          Arguments   \* the names of arguments

ASSUME PresentErrorConstants == /\ <<>> \notin Paths /\ Paths \subseteq Seq(STRING)
                                /\ Arguments \subseteq STRING

(* What is reported: a driver's error or the like, a CustomError, a        *)
(* *gqlerror.Error made for the occasion, the shared one, or an error that *)
(* wraps the shared one.                                                   *)
Kinds == {"plain", "custom", "bare", "shared", "wrapping"}

(* Where: before any field runs, at an argument of a field, in a field's   *)
(* resolver, or at an element of its list.  args are the arguments the     *)
(* document gives the field.                                               *)
Points == [at : {"operation"}, path : {<<>>}, args : {{}}, arg : {"none"}]
     \cup [at : {"field", "element"}, path : Paths, args : SUBSET Arguments, arg : {"none"}]
     \cup {p \in [at : {"argument"}, path : Paths, args : SUBSET Arguments, arg : Arguments] :
              p.arg \in p.args}

NoReport == "none"
Nothing  == [text |-> "nothing", path |-> <<>>, location |-> <<>>]

VARIABLES
    hasCause,  \* whether the shared value wraps a cause
    shared,  \* the shared value: its path, <<>> if unset, and its location
    report,  \* report[r]: what r reports and where
    stage,   \* stage[r]: "running", "located", "stamped", "presented" or "sent"
    answer   \* answer[r]: what PresentError returned: the shared value itself, or an answer

errorVars == <<hasCause, shared, report, stage, answer>>

(* The locations of a field of the request: its place in the document.     *)
Place(r)  == <<[request |-> r, path |-> report[r].path]>>

(* The path of the request's context, and the one gqlgen writes.           *)
Below(p)    == IF p.at = "element" THEN Append(p.path, "0") ELSE p.path
Written(p)  == IF p.at = "argument" THEN Append(p.path, p.arg) ELSE Below(p)

InPlace(r) == report[r].kind \in {"shared", "wrapping"}

ErrorInit ==
    /\ hasCause \in BOOLEAN
    /\ shared = [path |-> <<>>, location |-> <<>>]
    /\ report = [r \in Operations |-> NoReport]
    /\ stage = [r \in Operations |-> "running"]
    /\ answer = [r \in Operations |-> Nothing]

-----------------------------------------------------------------------------
(* gqlgen: AddFieldLocationToError for what a resolver returned, then      *)
(* ErrorOnPath.                                                            *)
Report(r, k, p) ==
    /\ stage[r] = "running"
    /\ report' = [report EXCEPT ![r] = [kind |-> k, at |-> p.at, path |-> p.path,
                                        args |-> p.args, arg |-> p.arg]]
    /\ shared' = IF k \in {"shared", "wrapping"} /\ p.at = "field" /\ shared.location = <<>>
                 THEN [shared EXCEPT !.location = <<[request |-> r, path |-> p.path]>>] ELSE shared
    /\ stage' = [stage EXCEPT ![r] = "located"]
    /\ UNCHANGED answer

ErrorOnPath(r) ==
    /\ stage[r] = "located"
    /\ shared' = IF InPlace(r) /\ shared.path = <<>>
                 THEN [shared EXCEPT !.path = Written(report[r])] ELSE shared
    /\ stage' = [stage EXCEPT ![r] = "stamped"]
    /\ UNCHANGED <<report, answer>>

(* The *gqlerror.Error that PresentError is given at the top level.  An    *)
(* error that wraps the shared value arrives as it went in, and is none.   *)
IsGQL(r) == report[r].kind # "wrapping"
Cause(r) == report[r].kind \in {"plain", "custom"} \/ (report[r].kind = "shared" /\ hasCause)
Given(r) == IF report[r].kind = "shared" THEN shared
            ELSE [path |-> Written(report[r]),
                  location |-> IF report[r].at = "field" THEN Place(r) ELSE <<>>]

-----------------------------------------------------------------------------
InField(r) == report[r].at # "operation"
Extends(r) == LET own == Below(report[r]) IN
              /\ IsGQL(r) /\ IsPrefix(own, Given(r).path)

(* The error's path is believed only where it goes on with an argument of  *)
(* this field.  The variants believe it always, and never.                 *)
AnyDeeper(r)   == Len(Given(r).path) > Len(Below(report[r]))
NoDeeper(r)    == FALSE
AtArgument(r)  == /\ Len(Given(r).path) > Len(Below(report[r]))
                  /\ Given(r).path[Len(Below(report[r])) + 1] \in report[r].args

(* A field's own place in this document.                                   *)
FieldPlace(r) == Place(r)

AnsweredAt(r) ==
    IF ~InField(r)
    THEN IF Extends(r) THEN Given(r) ELSE [path |-> <<>>, location |-> <<>>]
    ELSE IF report[r].at = "element"
    THEN [path |-> Below(report[r]), location |-> <<>>]
    ELSE [path |-> IF Extends(r) /\ AtArgument(r) THEN Given(r).path ELSE Below(report[r]),
          location |-> FieldPlace(r)]

(* gqlgen's own words about the request pass through: no cause, no field.  *)
(* The variant asks for no cause alone.                                    *)
Causeless(r)   == IsGQL(r) /\ ~Cause(r)
PassThrough(r) == IsGQL(r) /\ ~Cause(r) /\ ~InField(r)

(* A composed answer.                                                      *)
Says(text, where) == [text |-> text, path |-> where.path, location |-> where.location]

Present(r) ==
    /\ stage[r] = "stamped"
    /\ answer' = [answer EXCEPT ![r] =
          IF report[r].kind = "custom" THEN Says("the user's", AnsweredAt(r))
          ELSE IF ~PassThrough(r) THEN Says("internal", AnsweredAt(r))
          ELSE IF report[r].kind = "shared" THEN [Nothing EXCEPT !.text = "shared"]
          ELSE Says("its own", Given(r))]
    /\ stage' = [stage EXCEPT ![r] = "presented"]
    /\ UNCHANGED <<shared, report>>

(* The response is encoded when the operation has ended; a value passed    *)
(* through is read only then.                                              *)
Send(r) ==
    /\ stage[r] = "presented"
    /\ answer' = [answer EXCEPT ![r] = IF @.text = "shared" THEN Says("its own", shared) ELSE @]
    /\ stage' = [stage EXCEPT ![r] = "sent"]
    /\ UNCHANGED <<shared, report>>

ErrorNext ==
    /\ \E r \in Operations :
          \/ \E k \in Kinds, p \in Points : Report(r, k, p)
          \/ ErrorOnPath(r) \/ Present(r) \/ Send(r)
    /\ UNCHANGED hasCause

ErrorSpec == ErrorInit /\ [][ErrorNext]_errorVars

-----------------------------------------------------------------------------
(* "Any resolver error that is not a CustomError ... is redacted": what a  *)
(* field reports is heard only as a CustomError, whatever the value it     *)
(* shares with others has been through.                                    *)
FieldErrorsRedacted ==
    \A r \in Operations : stage[r] = "sent" /\ InField(r) =>
        answer[r].text = IF report[r].kind = "custom" THEN "the user's" ELSE "internal"

(* "Redaction removes what went wrong, never where": what a field reports  *)
(* is answered with its own position in this document.  An error that is   *)
(* this request's own is answered on the very element, argument or field,  *)
(* one that wraps the shared value on the field or the element.  The       *)
(* shared value is answered there too, unless the path it carries, which   *)
(* may be another request's, goes on with the name of an argument that     *)
(* this document gives the field: by name alone, so that a child which     *)
(* another request aliased to that name is taken for the argument.  What   *)
(* PresentError composes before any field runs has no place; only a shared *)
(* value with a cause brings in there what another request's field wrote.  *)
InThisDocument ==
    \A r \in Operations : stage[r] = "sent" =>
        /\ InField(r) =>
              /\ answer[r].location = IF report[r].at = "element" THEN <<>> ELSE Place(r)
              /\ CASE report[r].kind \in {"plain", "custom", "bare"} ->
                        answer[r].path = Written(report[r])
                   [] report[r].kind = "wrapping" -> answer[r].path = Below(report[r])
                   [] report[r].kind = "shared" ->
                        \/ answer[r].path = Below(report[r])
                        \/ /\ report[r].at # "element"
                           /\ answer[r].path = shared.path
                           /\ \E a \in report[r].args :
                                 IsPrefix(Append(report[r].path, a), shared.path)
        /\ ~InField(r) /\ answer[r].text # "its own" =>
              \/ answer[r].path = <<>> /\ answer[r].location = <<>>
              \/ report[r].kind = "shared" /\ hasCause
=============================================================================
