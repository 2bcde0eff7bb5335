--------------------------- MODULE ResponseProofs ---------------------------
(***************************************************************************)
(* What a response carries, for any number of those that ask: the headers  *)
(* by which a browser may read it (Cors), the errors and where they are    *)
(* said to have happened (PresentError), the data and its nulls (Execute). *)
(* The three share no state, and each has an inductive invariant of its    *)
(* own.                                                                    *)
(*                                                                         *)
(* Of OwnGrant it says what every finished response looks like, in a       *)
(* browser or in the cache: it varies, and it grants what the origin it    *)
(* was made for is due.                                                    *)
(*                                                                         *)
(* Of PresentError: what was presented of a field's error stays as it was, *)
(* whatever path a value that several fields report picks up later.  Of    *)
(* Execute: where the null of each selection has got to, and that a        *)
(* mutation's fields begin one after the other.                            *)
(***************************************************************************)
EXTENDS Cors, PresentError, Execute, SequenceTheorems, FiniteSetTheorems, TLAPS

Askers  == Origins \cup {NoOrigin}
Headers == [vary : BOOLEAN, allow : Origins \cup {Star, NoGrant}]
Stored  == [for : Askers, header : Headers]

CorsTypes == /\ listed \in Lists
          /\ origin \in [Requests -> Askers]
          /\ pc \in [Requests -> {"sent", "vary", "allow", "serve", "answered", "done"}]
          /\ header \in [Requests -> Headers]
          /\ sealed \in [Requests -> BOOLEAN]
          /\ got \in [Requests -> Headers]
          /\ cache \subseteq Stored

(* The response that is due to an origin.                                  *)
Due(o) == [vary |-> TRUE, allow |-> Grant(o)]

Made(r) == /\ pc[r] \in {"vary", "allow", "serve"} => ~sealed[r]
           /\ pc[r] = "sent" => ~sealed[r]
           /\ pc[r] = "allow" => header[r].vary = TRUE
           /\ pc[r] \in {"serve", "answered"} => header[r] = Due(origin[r])
           /\ pc[r] = "done" => got[r] = Due(origin[r])

CorsInv == /\ CorsTypes
        /\ \A r \in Requests : Made(r)
        /\ \A c \in cache : c.header = Due(c.for)

-----------------------------------------------------------------------------
LEMMA GrantType == ASSUME CorsTypes, NEW o \in Askers
                   PROVE  Grant(o) \in Origins \cup {Star, NoGrant}
  BY CorsConstants DEF CorsTypes, Askers, Grant, Wildcard

LEMMA CorsInvInit == Init => CorsInv
  BY CorsConstants DEF Init, CorsInv, CorsTypes, Made, Askers, Headers, Stored, Empty

(* No step changes whom a response is for, or what is due to it.           *)
LEMMA DueKept == ASSUME UNCHANGED listed, NEW o PROVE Due(o)' = Due(o)
  BY DEF Due, Grant, Wildcard

LEMMA CorsInvNext == CorsInv /\ [Next]_vars => CorsInv'
  <1> SUFFICES ASSUME CorsInv, [Next]_vars PROVE CorsInv'
    OBVIOUS
  <1> USE DEF Askers, Headers, Stored
  <1>1. CASE UNCHANGED vars
    <2>1. UNCHANGED listed
      BY <1>1 DEF vars
    <2> QED  BY <1>1, <2>1, DueKept DEF vars, CorsInv, CorsTypes, Made
  <1>2. ASSUME UNCHANGED listed, NEW r \in Requests, Hit(r) PROVE CorsInv'
    <2>1. PICK c \in Usable(r) : got' = [got EXCEPT ![r] = c.header]
      BY <1>2 DEF Hit
    <2>2. c.header = Due(c.for) /\ c.header \in Headers
      BY DEF Usable, CorsInv, CorsTypes
    <2>3. c.header = Due(origin[r])
      <3>1. c.header.vary
        BY <2>2 DEF Due
      <3>2. c.for = origin[r]
        BY <3>1 DEF Usable
      <3> QED  BY <2>2, <3>2
    <2>4. CorsTypes'
      BY <1>2, <2>1, <2>2 DEF Hit, CorsInv, CorsTypes
    <2>5. \A q \in Requests : Made(q)'
      BY <1>2, <2>1, <2>3, DueKept DEF Hit, CorsInv, CorsTypes, Made
    <2> QED  BY <1>2, <2>4, <2>5, DueKept DEF Hit, CorsInv
  <1>3. ASSUME UNCHANGED listed, NEW r \in Requests, Forward(r) PROVE CorsInv'
    BY <1>3, DueKept DEF Forward, CorsInv, CorsTypes, Made
  <1>4. ASSUME UNCHANGED listed, NEW r \in Requests, AddVary(r) PROVE CorsInv'
    <2>1. ~sealed[r]
      BY <1>4 DEF AddVary, CorsInv, Made
    <2>2. header' = [header EXCEPT ![r] = [header[r] EXCEPT !.vary = TRUE]]
      BY <1>4, <2>1 DEF AddVary, Set, Varies, CorsInv, CorsTypes
    <2>3. CorsTypes'
      BY <1>4, <2>2 DEF AddVary, CorsInv, CorsTypes
    <2>4. \A q \in Requests : Made(q)'
      BY <1>4, <2>2, DueKept DEF AddVary, CorsInv, CorsTypes, Made
    <2> QED  BY <1>4, <2>3, <2>4, DueKept DEF AddVary, CorsInv
  <1>5. ASSUME UNCHANGED listed, NEW r \in Requests, AllowOrigin(r) PROVE CorsInv'
    <2>1. ~sealed[r] /\ header[r].vary = TRUE
      BY <1>5 DEF AllowOrigin, CorsInv, Made
    <2>2. header' = [header EXCEPT ![r] = [header[r] EXCEPT !.allow = Grant(origin[r])]]
      BY <1>5, <2>1 DEF AllowOrigin, Set, CorsInv, CorsTypes
    <2>3. header'[r] = Due(origin[r])
      BY <2>1, <2>2 DEF Due, CorsInv, CorsTypes
    <2>4. origin[r] \in Askers
      BY DEF CorsInv, CorsTypes
    <2>5. Grant(origin[r]) \in Origins \cup {Star, NoGrant}
      BY <2>4, GrantType DEF CorsInv
    <2>6. CorsTypes'
      BY <1>5, <2>2, <2>5 DEF AllowOrigin, CorsInv, CorsTypes
    <2>7. \A q \in Requests : Made(q)'
      BY <1>5, <2>2, <2>3, DueKept DEF AllowOrigin, CorsInv, CorsTypes, Made
    <2> QED  BY <1>5, <2>6, <2>7, DueKept DEF AllowOrigin, CorsInv
  <1>6. ASSUME UNCHANGED listed, NEW r \in Requests, Serve(r) PROVE CorsInv'
    BY <1>6, DueKept DEF Serve, CorsInv, CorsTypes, Made
  <1>7. ASSUME UNCHANGED listed, NEW r \in Requests, Deliver(r) PROVE CorsInv'
    <2>1. header[r] = Due(origin[r]) /\ header[r] \in Headers
      BY <1>7 DEF Deliver, CorsInv, CorsTypes, Made
    <2>2. CorsTypes'
      BY <1>7, <2>1 DEF Deliver, CorsInv, CorsTypes
    <2>3. \A q \in Requests : Made(q)'
      BY <1>7, <2>1, DueKept DEF Deliver, CorsInv, CorsTypes, Made
    <2>4. \A c \in cache' : c.header = Due(c.for)
      BY <1>7, <2>1 DEF Deliver, CorsInv
    <2> QED  BY <1>7, <2>2, <2>3, <2>4, DueKept DEF CorsInv
  <1>8. ASSUME UNCHANGED listed, NEW c \in cache, Evict(c) PROVE CorsInv'
    BY <1>8, DueKept DEF Evict, CorsInv, CorsTypes, Made
  <1> QED  BY <1>1, <1>2, <1>3, <1>4, <1>5, <1>6, <1>7, <1>8 DEF Next

-----------------------------------------------------------------------------
(* Whatever the cache keeps, serves and drops, and however the requests    *)
(* overlap: a browser may read a response exactly if its own origin is     *)
(* listed.  The proof needs Vary on every response, a refusal included.    *)
THEOREM OwnGrantAlways == Spec => []OwnGrant
  <1>1. CorsInv => OwnGrant
    <2> SUFFICES ASSUME CorsInv, NEW r \in Requests, pc[r] = "done", origin[r] # NoOrigin
                 PROVE  MayRead(origin[r], got[r]) <=> (Wildcard \/ origin[r] \in listed)
      BY DEF OwnGrant
    <2>a. got[r] = Due(origin[r])
      BY DEF CorsInv, Made
    <2>1. got[r].allow = Grant(origin[r])
      BY <2>a DEF Due
    <2>2. origin[r] \in Origins
      BY DEF CorsInv, CorsTypes, Askers
    <2> QED  BY <2>1, <2>2, CorsConstants DEF MayRead, Grant
  <1> QED  BY <1>1, CorsInvInit, CorsInvNext, PTL DEF Spec
-----------------------------------------------------------------------------
(* PresentError.  What was reported never changes afterwards, and what is  *)
(* answered to it is fixed when it is presented, except for a value that   *)
(* is passed through; nothing a field reports is.                          *)
Name       == STRING \union {"0", "none"}
Where      == {<<>>} \union {<<[request |-> r, path |-> p]>> : r \in Operations, p \in Seq(Name)}
Reportable == [kind : Kinds, at : {"operation", "field", "element", "argument"},
               path : Seq(Name), args : SUBSET Arguments, arg : Name]

ErrorTypes == /\ hasCause \in BOOLEAN
              /\ shared \in [path : Seq(Name), location : Where]
              /\ stage \in [Operations -> {"running", "located", "stamped", "presented", "sent"}]
              /\ report = [r \in Operations |-> report[r]]
              /\ answer = [r \in Operations |-> answer[r]]

(* What has been reported is one of the kinds, at one of the points.       *)
Reported(r) == stage[r] # "running" =>
    /\ report[r] \in Reportable
    /\ report[r].at = "operation" => report[r].path = <<>>
    /\ report[r].at = "argument" => report[r].arg \in report[r].args

Told(r) == stage[r] \in {"presented", "sent"}
Heard(r) == Told(r) /\ InField(r) =>
    answer[r].text = IF report[r].kind = "custom" THEN "the user's" ELSE "internal"

(* On this document's own field, element or argument; or, for a shared     *)
(* value, on the path it carries, which is written once.                   *)
Picked(r, path) == /\ report[r].kind = "shared" /\ report[r].at # "element"
                   /\ path = shared.path /\ shared.path # <<>>
                   /\ \E a \in report[r].args : IsPrefix(Append(report[r].path, a), shared.path)
OnField(r, path) ==
    \/ report[r].kind \in {"plain", "custom", "bare"} /\ path = Written(report[r])
    \/ report[r].kind \in {"wrapping", "shared"} /\ path = Below(report[r])
    \/ Picked(r, path)
Position(r) == IF report[r].at = "element" THEN <<>> ELSE Place(r)

Placed(r) == Told(r) =>
    /\ InField(r) => OnField(r, answer[r].path) /\ answer[r].location = Position(r)
    /\ ~InField(r) /\ answer[r].text # "its own" =>
          \/ answer[r].path = <<>> /\ answer[r].location = <<>>
          \/ report[r].kind = "shared" /\ hasCause

ErrorInv == ErrorTypes /\ \A r \in Operations : Reported(r) /\ Heard(r) /\ Placed(r)

(* A sequence that goes on after a prefix goes on with its next entry.     *)
LEMMA GoesOn ==
    ASSUME NEW S, NEW s \in Seq(S), NEW t \in Seq(S), IsPrefix(s, t), Len(t) > Len(s)
    PROVE  IsPrefix(Append(s, t[Len(s) + 1]), t)
  <1> DEFINE n == Len(s) + 1
             u == Append(s, t[n])
  <1>1. Len(s) \in Nat /\ Len(t) \in Nat /\ n \in 1..Len(t)
    BY LenProperties
  <1>2. t[n] \in S
    BY <1>1, ElementOfSeq
  <1>3. u \in Seq(S) /\ Len(u) = n /\ u[n] = t[n] /\ \A i \in 1..Len(s) : u[i] = s[i]
    BY <1>1, <1>2, AppendProperties
  <1>4. \A i \in 1..Len(s) : s[i] = t[i]
    <2>1. SubSeq(s, 1, Len(s)) = SubSeq(t, 1, Len(s))
      BY DEF IsPrefix
    <2>2. ASSUME NEW i \in 1..Len(s) PROVE SubSeq(s, 1, Len(s))[i] = s[i] /\ SubSeq(t, 1, Len(s))[i] = t[i]
      BY <1>1
    <2> QED  BY <2>1, <2>2
  <1>5. \A i \in 1..n : u[i] = t[i]
    BY <1>1, <1>3, <1>4
  <1> HIDE DEF u
  <1>6. SubSeq(u, 1, n) = SubSeq(t, 1, n)
    BY <1>1, <1>3, <1>5
  <1> QED  BY <1>1, <1>3, <1>6 DEF IsPrefix, u

(* Every sequence is a prefix of what is appended to it.                   *)
LEMMA PrefixOfAppend ==
    ASSUME NEW S, NEW s \in Seq(S), NEW e \in S
    PROVE  /\ IsPrefix(s, Append(s, e))
           /\ Len(Append(s, e)) > Len(s) /\ Append(s, e)[Len(s) + 1] = e
  <1> DEFINE u == Append(s, e)
  <1>1. u \in Seq(S) /\ Len(u) = Len(s) + 1 /\ u[Len(s) + 1] = e /\ \A i \in 1..Len(s) : u[i] = s[i]
        /\ Len(s) \in Nat
    BY AppendProperties, LenProperties
  <1> HIDE DEF u
  <1>2. SubSeq(s, 1, Len(s)) = SubSeq(u, 1, Len(s))
    BY <1>1
  <1>3. IsPrefix(s, u)
    BY <1>1, <1>2 DEF IsPrefix
  <1> QED  BY <1>1, <1>3 DEF u

(* The paths of what was reported.                                         *)
LEMMA PathsTyped ==
    ASSUME NEW p \in Reportable
    PROVE  Below(p) \in Seq(Name) /\ Written(p) \in Seq(Name)
  <1>1. p.path \in Seq(Name) /\ "0" \in Name /\ p.arg \in Name
    BY DEF Reportable, Name
  <1>2. Append(p.path, "0") \in Seq(Name) /\ Append(p.path, p.arg) \in Seq(Name)
    BY <1>1, AppendProperties
  <1> QED  BY <1>1, <1>2 DEF Below, Written

LEMMA PointsReportable ==
    ASSUME NEW k \in Kinds, NEW p \in Points
    PROVE  LET rep == [kind |-> k, at |-> p.at, path |-> p.path, args |-> p.args, arg |-> p.arg] IN
           /\ rep \in Reportable
           /\ rep.at = "operation" => rep.path = <<>>
           /\ rep.at = "argument" => rep.arg \in rep.args
  <1>1. Paths \subseteq Seq(Name) /\ Arguments \subseteq Name
    BY PresentErrorConstants, SeqMonotonic DEF Name
  <1>2. "none" \in Name /\ <<>> \in Seq(Name)
    BY EmptySeq DEF Name
  <1>3. CASE p \in [at : {"operation"}, path : {<<>>}, args : {{}}, arg : {"none"}]
    BY <1>2, <1>3 DEF Reportable
  <1>4. CASE p \in [at : {"field", "element"}, path : Paths, args : SUBSET Arguments, arg : {"none"}]
    BY <1>1, <1>2, <1>4 DEF Reportable
  <1>5. CASE p \in {q \in [at : {"argument"}, path : Paths, args : SUBSET Arguments, arg : Arguments] :
                       q.arg \in q.args}
    BY <1>1, <1>5 DEF Reportable
  <1> QED  BY <1>3, <1>4, <1>5 DEF Points

(* An argument that does not unmarshal keeps its own path.                 *)
LEMMA ArgumentAnswer ==
    ASSUME NEW r \in Operations, report[r] \in Reportable,
           report[r].at = "argument", report[r].arg \in report[r].args,
           report[r].kind \in {"plain", "custom", "bare"}
    PROVE  AnsweredAt(r).path = Written(report[r])
  <1> DEFINE own == report[r].path
             arg == report[r].arg
  <1>1. own \in Seq(Name) /\ arg \in Name
    BY DEF Reportable
  <1>2. Below(report[r]) = own /\ Written(report[r]) = Append(own, arg)
        /\ Given(r).path = Append(own, arg)
    BY DEF Below, Given, Written
  <1>3. IsPrefix(own, Append(own, arg)) /\ Len(Append(own, arg)) > Len(own)
        /\ Append(own, arg)[Len(own) + 1] = arg
    <2> HIDE DEF own, arg
    <2> QED  BY <1>1, PrefixOfAppend
  <1>4. Extends(r) /\ AtArgument(r)
    BY <1>2, <1>3 DEF Extends, AtArgument, IsGQL
  <1> QED  BY <1>2, <1>4 DEF AnsweredAt, InField

(* Where PresentError puts what a field reported.  The path of an error    *)
(* of its own goes on only with an argument; that of the shared value is   *)
(* taken where it goes on with an argument's name.                         *)
LEMMA FieldAnswer ==
    ASSUME ErrorTypes, NEW r \in Operations, report[r] \in Reportable, InField(r),
           report[r].at = "argument" => report[r].arg \in report[r].args
    PROVE  OnField(r, AnsweredAt(r).path) /\ AnsweredAt(r).location = Position(r)
  <1> DEFINE own   == Below(report[r])
             given == Given(r).path
             Own   == report[r].kind \in {"plain", "custom", "bare"}
  <1>0. AnsweredAt(r).location = Position(r)
    BY DEF AnsweredAt, FieldPlace, Position
  <1>a. report[r].kind \in {"plain", "custom", "bare", "wrapping", "shared"}
    BY DEF Reportable, Kinds
  <1>1. CASE report[r].at = "element"
    <2>1. AnsweredAt(r).path = own
      BY <1>1 DEF AnsweredAt, InField
    <2>2. Written(report[r]) = own
      BY <1>1 DEF Written
    <2> QED  BY <1>0, <1>a, <2>1, <2>2 DEF OnField
  <1>2. CASE report[r].at = "argument" /\ Own
    BY <1>0, <1>2, ArgumentAnswer DEF OnField
  <1>3. CASE report[r].at = "field" /\ Own
    <2>1. Written(report[r]) = own /\ given = own
      BY <1>3 DEF Given, Written
    <2> QED  BY <1>0, <1>3, <2>1 DEF AnsweredAt, InField, OnField
  <1>4. CASE report[r].at # "element" /\ report[r].kind \in {"wrapping", "shared"}
             /\ ~(Extends(r) /\ AtArgument(r))
    BY <1>0, <1>4 DEF AnsweredAt, InField, OnField
  <1>5. CASE report[r].at # "element" /\ report[r].kind \in {"wrapping", "shared"}
             /\ Extends(r) /\ AtArgument(r)
    <2>1. report[r].kind = "shared" /\ given = shared.path /\ AnsweredAt(r).path = given
      BY <1>5 DEF Extends, IsGQL, Given, AnsweredAt, InField
    <2>2. own = report[r].path /\ own \in Seq(Name) /\ given \in Seq(Name)
      BY <1>5, <2>1, PathsTyped DEF Below, ErrorTypes
    <2>3. IsPrefix(own, given) /\ Len(given) > Len(own) /\ given[Len(own) + 1] \in report[r].args
      BY <1>5 DEF Extends, AtArgument
    <2> HIDE DEF own, given
    <2>4. IsPrefix(Append(own, given[Len(own) + 1]), given)
      BY <2>2, <2>3, GoesOn
    <2>5. given # <<>>
      <3>1. Len(own) \in Nat
        BY <2>2, LenProperties
      <3> QED  BY <2>3, <3>1, EmptySeq
    <2>6. Picked(r, given)
      BY <1>5, <2>1, <2>2, <2>3, <2>4, <2>5 DEF Picked
    <2> QED  BY <1>0, <2>1, <2>6 DEF OnField
  <1>6. report[r].at \in {"field", "element", "argument"}
    BY DEF Reportable, InField
  <1> QED  BY <1>a, <1>1, <1>2, <1>3, <1>4, <1>5, <1>6

(* Before any field runs, nothing has a place but what a shared value      *)
(* brings with it.                                                         *)
LEMMA OperationAnswer ==
    ASSUME NEW r \in Operations, report[r] \in Reportable,
           ~InField(r), report[r].path = <<>>, report[r].kind # "shared"
    PROVE  AnsweredAt(r).path = <<>> /\ AnsweredAt(r).location = <<>>
  BY DEF AnsweredAt, InField, Given, Written, Below

LEMMA ErrorInvInit == ErrorInit => ErrorInv
  BY EmptySeq DEF ErrorInit, ErrorInv, ErrorTypes, Where, Reported, Heard, Placed, Told

(* A path is written into the shared value once, so that one taken from it *)
(* remains the one it carries.                                             *)
LEMMA PickedStays ==
    ASSUME NEW q \in Operations, NEW path, OnField(q, path), report'[q] = report[q],
           shared.path # <<>> => shared'.path = shared.path
    PROVE  OnField(q, path)'
  <1>1. Below(report[q])' = Below(report[q]) /\ Written(report[q])' = Written(report[q])
    BY DEF Below, Written
  <1>2. Picked(q, path) => Picked(q, path)'
    BY DEF Picked
  <1> QED  BY <1>1, <1>2 DEF OnField

(* What is said of an operation stands while its own fields do.            *)
LEMMA OtherErrorsKept ==
    ASSUME NEW q \in Operations, Reported(q), Heard(q), Placed(q), hasCause' = hasCause,
           stage'[q] = stage[q], report'[q] = report[q], answer'[q] = answer[q],
           shared.path # <<>> => shared'.path = shared.path
    PROVE  Reported(q)' /\ Heard(q)' /\ Placed(q)'
  <1>1. Reported(q)' /\ Heard(q)'
    BY DEF Reported, Heard, Told, InField
  <1>2. Position(q)' = Position(q) /\ InField(q)' = InField(q) /\ Told(q)' = Told(q)
    BY DEF Position, Place, InField, Told
  <1>3. Told(q) /\ InField(q) => OnField(q, answer[q].path)'
    <2> SUFFICES ASSUME Told(q), InField(q) PROVE OnField(q, answer[q].path)'
      OBVIOUS
    <2> DEFINE path == answer[q].path
    <2>1. OnField(q, path)
      BY DEF Placed
    <2>2. path' = path
      OBVIOUS
    <2> HIDE DEF path
    <2>3. OnField(q, path)'
      BY <2>1, <2>2, PickedStays DEF OnField, Picked, Below, Written
    <2> QED  BY <2>3 DEF path
  <1> QED  BY <1>1, <1>2, <1>3 DEF Placed

LEMMA ErrorInvNext == ErrorInv /\ [ErrorNext]_errorVars => ErrorInv'
  <1> SUFFICES ASSUME ErrorInv, [ErrorNext]_errorVars PROVE ErrorInv'
    OBVIOUS
  <1> USE DEF ErrorInv
  <1>0. hasCause' = hasCause
    BY DEF ErrorNext, errorVars
  <1>1. CASE UNCHANGED errorVars
    <2>1. ErrorTypes'
      BY <1>1 DEF errorVars, ErrorTypes
    <2>2. shared' = shared
      BY <1>1 DEF errorVars
    <2> QED  BY <1>0, <1>1, <2>1, <2>2, OtherErrorsKept DEF errorVars
  <1>2. ASSUME NEW r \in Operations, NEW k \in Kinds, NEW p \in Points, Report(r, k, p)
        PROVE  ErrorInv'
    <2> DEFINE rep == [kind |-> k, at |-> p.at, path |-> p.path, args |-> p.args, arg |-> p.arg]
    <2>1. /\ rep \in Reportable
          /\ rep.at = "operation" => rep.path = <<>>
          /\ rep.at = "argument" => rep.arg \in rep.args
      BY PointsReportable
    <2>2. /\ report' = [report EXCEPT ![r] = rep] /\ stage' = [stage EXCEPT ![r] = "located"]
          /\ answer' = answer
      BY <1>2 DEF Report
    <2>3. ErrorTypes'
      <3>1. <<[request |-> r, path |-> p.path]>> \in Where
        <4>1. p.path \in Seq(Name)
          BY <2>1 DEF Reportable
        <4> QED  BY <4>1 DEF Where
      <3>2. shared' \in [path : Seq(Name), location : Where]
        BY <1>2, <3>1 DEF Report, ErrorTypes
      <3> QED  BY <1>0, <2>2, <3>2 DEF ErrorTypes
    <2> HIDE DEF rep
    <2>4. Reported(r)' /\ Heard(r)' /\ Placed(r)'
      BY <2>1, <2>2 DEF ErrorTypes, Reported, Heard, Placed, Told
    <2>5. shared'.path = shared.path
      BY <1>2 DEF Report, ErrorTypes
    <2>6. \A q \in Operations \ {r} : Reported(q)' /\ Heard(q)' /\ Placed(q)'
      BY <1>0, <2>2, <2>5, OtherErrorsKept DEF ErrorTypes
    <2> QED  BY <2>3, <2>4, <2>6
  <1>3. ASSUME NEW r \in Operations, ErrorOnPath(r) PROVE ErrorInv'
    <2>1. /\ report' = report /\ answer' = answer /\ stage' = [stage EXCEPT ![r] = "stamped"]
          /\ stage[r] = "located"
      BY <1>3 DEF ErrorOnPath
    <2>2. report[r] \in Reportable
      BY <2>1 DEF Reported
    <2>3. ErrorTypes'
      <3>1. Written(report[r]) \in Seq(Name)
        BY <2>2, PathsTyped
      <3>2. shared' \in [path : Seq(Name), location : Where]
        BY <1>3, <3>1 DEF ErrorOnPath, ErrorTypes
      <3> QED  BY <1>0, <2>1, <3>2 DEF ErrorTypes
    <2>4. Reported(r)' /\ Heard(r)' /\ Placed(r)'
      BY <2>1 DEF ErrorTypes, Reported, Heard, Placed, Told
    <2>5. shared.path # <<>> => shared'.path = shared.path
      BY <1>3 DEF ErrorOnPath
    <2>6. \A q \in Operations \ {r} : Reported(q)' /\ Heard(q)' /\ Placed(q)'
      BY <1>0, <2>1, <2>5, OtherErrorsKept DEF ErrorTypes
    <2> QED  BY <2>3, <2>4, <2>6
  <1>4. ASSUME NEW r \in Operations, Present(r) PROVE ErrorInv'
    <2> DEFINE where == AnsweredAt(r)
               said  == IF report[r].kind = "custom" THEN Says("the user's", where)
                        ELSE IF ~PassThrough(r) THEN Says("internal", where)
                        ELSE IF report[r].kind = "shared" THEN [Nothing EXCEPT !.text = "shared"]
                        ELSE Says("its own", Given(r))
    <2>1. /\ report' = report /\ shared' = shared /\ answer' = [answer EXCEPT ![r] = said]
          /\ stage' = [stage EXCEPT ![r] = "presented"] /\ stage[r] = "stamped"
      BY <1>4 DEF Present
    <2>2. /\ report[r] \in Reportable
          /\ report[r].at = "operation" => report[r].path = <<>>
          /\ report[r].at = "argument" => report[r].arg \in report[r].args
      BY <2>1 DEF Reported
    <2>3. ErrorTypes'
      BY <1>0, <1>4, <2>1 DEF Present, ErrorTypes
    <2>4. answer'[r] = said /\ stage'[r] = "presented"
      BY <2>1 DEF ErrorTypes
    <2>5. InField(r) =>
            /\ said.text = IF report[r].kind = "custom" THEN "the user's" ELSE "internal"
            /\ said.path = where.path /\ said.location = where.location
      BY DEF PassThrough, Says
    <2>6. Heard(r)'
      BY <2>1, <2>4, <2>5 DEF Heard, InField
    <2>7. InField(r) => OnField(r, said.path) /\ said.location = Position(r)
      <3> HIDE DEF said
      <3> QED  BY <2>2, <2>5, FieldAnswer
    <2>8. ~InField(r) /\ said.text # "its own" =>
             \/ said.path = <<>> /\ said.location = <<>>
             \/ report[r].kind = "shared" /\ hasCause
      <3> SUFFICES ASSUME ~InField(r), said.text # "its own"
                   PROVE  \/ said.path = <<>> /\ said.location = <<>>
                          \/ report[r].kind = "shared" /\ hasCause
        OBVIOUS
      <3>1. report[r].kind # "shared" => where.path = <<>> /\ where.location = <<>>
        BY <2>2, OperationAnswer DEF InField
      <3>2. CASE report[r].kind = "shared" /\ ~hasCause
        BY <3>2 DEF PassThrough, IsGQL, Cause, Nothing
      <3>3. CASE report[r].kind # "shared"
        BY <3>1, <3>3 DEF Says
      <3> QED  BY <3>2, <3>3
    <2> HIDE DEF said
    <2>9. Placed(r)'
      <3>1. Position(r)' = Position(r) /\ InField(r)' = InField(r)
        BY <2>1 DEF Position, Place, InField
      <3>2. answer'[r].path = said.path /\ answer'[r].location = said.location
        BY <2>4
      <3>3. InField(r) => OnField(r, answer[r].path)'
        BY <2>1, <2>7, <3>2 DEF OnField, Picked, Below, Written
      <3> QED  BY <1>0, <2>1, <2>4, <2>7, <2>8, <3>1, <3>3 DEF Placed
    <2>10. Reported(r)'
      BY <2>1, <2>2 DEF Reported
    <2>11. \A q \in Operations \ {r} : Reported(q)' /\ Heard(q)' /\ Placed(q)'
      BY <1>0, <2>1, OtherErrorsKept DEF ErrorTypes
    <2> QED  BY <2>3, <2>6, <2>9, <2>10, <2>11
  <1>5. ASSUME NEW r \in Operations, Send(r) PROVE ErrorInv'
    <2>1. /\ report' = report /\ shared' = shared
          /\ stage' = [stage EXCEPT ![r] = "sent"] /\ stage[r] = "presented"
          /\ answer' = [answer EXCEPT ![r] = IF answer[r].text = "shared" THEN Says("its own", shared)
                                             ELSE answer[r]]
      BY <1>5 DEF Send
    <2>2. ErrorTypes'
      BY <1>0, <1>5, <2>1 DEF Send, ErrorTypes
    <2>3. CASE answer[r].text # "shared"
      <3>1. answer'[r] = answer[r] /\ stage'[r] = "sent"
        BY <2>1, <2>3 DEF ErrorTypes
      <3>2. Reported(r)' /\ Heard(r)' /\ Placed(r)'
        BY <1>0, <2>1, <3>1 DEF Reported, Heard, Placed, Told, InField, Place,
              OnField, Picked, Position, Below, Written
      <3>3. \A q \in Operations \ {r} : Reported(q)' /\ Heard(q)' /\ Placed(q)'
        BY <1>0, <2>1, OtherErrorsKept DEF ErrorTypes
      <3> QED  BY <2>2, <3>2, <3>3
    <2>4. CASE answer[r].text = "shared"
      <3>1. ~InField(r)
        BY <2>1, <2>4 DEF Heard, Told
      <3>2. answer'[r].text = "its own" /\ stage'[r] = "sent"
        BY <2>1, <2>4 DEF ErrorTypes, Says
      <3>3. Reported(r)' /\ Heard(r)' /\ Placed(r)'
        BY <1>0, <2>1, <3>1, <3>2 DEF Reported, Heard, Placed, Told, InField, Place
      <3>4. \A q \in Operations \ {r} : Reported(q)' /\ Heard(q)' /\ Placed(q)'
        BY <1>0, <2>1, OtherErrorsKept DEF ErrorTypes
      <3> QED  BY <2>2, <3>3, <3>4
    <2> QED  BY <2>3, <2>4
  <1> QED
    BY <1>1, <1>2, <1>3, <1>4, <1>5 DEF ErrorNext

(* For any operations, documents and sharing of error values: what a field *)
(* reports is heard only as a CustomError.                                 *)
THEOREM OnlyCustomIsHeard == ErrorSpec => []FieldErrorsRedacted
  <1>1. ErrorInv => FieldErrorsRedacted
    BY DEF ErrorInv, FieldErrorsRedacted, Heard, Told
  <1> QED  BY <1>1, ErrorInvInit, ErrorInvNext, PTL DEF ErrorSpec

(* And what a field reports is answered at its own position: an error of   *)
(* the request's own on its very element, argument or field, one that      *)
(* wraps the shared value on the field, and the shared value itself there  *)
(* or on the path it carries, if that goes on with the name of one of the  *)
(* field's arguments, whichever request wrote it.                          *)
THEOREM AnsweredWhereItHappened == ErrorSpec => []InThisDocument
  <1>1. ASSUME ErrorInv PROVE InThisDocument
    <2> SUFFICES ASSUME NEW r \in Operations, stage[r] = "sent" PROVE
          /\ InField(r) =>
                /\ answer[r].location = IF report[r].at = "element" THEN <<>> ELSE Place(r)
                /\ CASE report[r].kind \in {"plain", "custom", "bare"} ->
                          answer[r].path = Written(report[r])
                     [] report[r].kind = "wrapping" -> answer[r].path = Below(report[r])
                     [] report[r].kind = "shared" ->
                          \/ answer[r].path = Below(report[r])
                          \/ /\ report[r].at # "element"
                             /\ answer[r].path = shared.path
                             /\ \E a \in report[r].args :
                                   IsPrefix(Append(report[r].path, a), shared.path)
          /\ ~InField(r) /\ answer[r].text # "its own" =>
                \/ answer[r].path = <<>> /\ answer[r].location = <<>>
                \/ report[r].kind = "shared" /\ hasCause
      BY DEF InThisDocument
    <2>1. Placed(r) /\ Told(r) /\ report[r].kind \in {"plain", "custom", "bare", "wrapping", "shared"}
      BY <1>1 DEF ErrorInv, Reported, Told, Reportable, Kinds
    <2>2. InField(r) => OnField(r, answer[r].path) /\ answer[r].location = Position(r)
      BY <2>1 DEF Placed
    <2>3. CASE report[r].kind \in {"plain", "custom", "bare"}
      BY <2>1, <2>2, <2>3 DEF Placed, OnField, Picked, Position
    <2>4. CASE report[r].kind = "wrapping"
      BY <2>1, <2>2, <2>4 DEF Placed, OnField, Picked, Position
    <2>5. CASE report[r].kind = "shared"
      BY <2>1, <2>2, <2>5 DEF Placed, OnField, Picked, Position
    <2> QED  BY <2>1, <2>3, <2>4, <2>5
  <1> QED  BY <1>1, ErrorInvInit, ErrorInvNext, PTL DEF ErrorSpec

-----------------------------------------------------------------------------
(* Execute.  Its two tables agree: the fields whose null an object's       *)
(* function counts are those whose marshalling reports it.                 *)
LEMMA TablesAgree ==
    ASSUME NEW type \in DOMAIN Fields, NEW f \in DOMAIN Fields[type]
    PROVE  /\ f \in Counted[type] <=> Fields[type][f].null = "error"
           /\ Fields[type][f].null \in {"error", "allowed"}
  <1> USE DEF N, V, O
  <1>0. type \in {"Mutation", "Query", "User", "__Directive", "__EnumValue", "__Field",
                  "__InputValue", "__Schema", "__Type"}
    BY DEF Fields
  <1>1. CASE type = "Mutation"
    BY <1>1 DEF Fields, Counted, MutationFields, CountedMutation
  <1>2. CASE type = "Query"
    BY <1>2 DEF Fields, Counted, QueryFields, CountedQuery
  <1>3. CASE type = "User"
    BY <1>3 DEF Fields, Counted, UserFields, CountedUser
  <1>4. CASE type = "__Directive"
    BY <1>4 DEF Fields, Counted, DirectiveFields, CountedDirective
  <1>5. CASE type = "__EnumValue"
    BY <1>5 DEF Fields, Counted, EnumValueFields, CountedEnumValue
  <1>6. CASE type = "__Field"
    BY <1>6 DEF Fields, Counted, FieldFields, CountedField
  <1>7. CASE type = "__InputValue"
    BY <1>7 DEF Fields, Counted, InputValueFields, CountedInputValue
  <1>8. CASE type = "__Schema"
    BY <1>8 DEF Fields, Counted, SchemaFields, CountedSchema
  <1>9. CASE type = "__Type"
    BY <1>9 DEF Fields, Counted, TypeFields, TypeNames, TypeLinks, CountedType
  <1> QED  BY <1>0, <1>1, <1>2, <1>3, <1>4, <1>5, <1>6, <1>7, <1>8, <1>9

(* A selection on its way down and up: where its null has got to, and      *)
(* whether it was reported.                                                *)
Lost(i)    == Breaks(i) # "nothing"
Landing(i) == IF Lost(i) THEN Nearest(i) ELSE Len(PathOf(i)) + 1
Walked(i) ==
    /\ state[i] = "waiting" => depth[i] = 0
    /\ state[i] \in {"down", "up"} => depth[i] \in 1..Len(PathOf(i))
    /\ state[i] \in {"waiting", "down"} => landed[i] = Len(PathOf(i)) + 1 /\ Reports(i) = {}
    /\ state[i] = "up" => /\ landed[i] # 0
                          /\ null[i] => Lost(i) /\ \A k \in Nullable(i) : k <= depth[i]
                          /\ ~null[i] => landed[i] = Landing(i)
    /\ state[i] = "done" => landed[i] = Landing(i)
    /\ state[i] \in {"up", "done"} =>
          IF Lost(i) /\ ~Permitted(i) THEN \E k \in DOMAIN errors : Reports(i) = {k} ELSE Reports(i) = {}

(* The operation as a whole.  A mutation's field begins when all before it *)
(* are done, and is in the log once its resolver was called.               *)
Called(i) == ~(Breaks(i) = "args" /\ Len(PathOf(i)) = 1)
Logged    == {log[k] : k \in DOMAIN log}
Turn(i) == /\ state[i] # "waiting" => \A j \in Selections : j < i => state[j] = "done"
           /\ i \in Logged <=> \/ state[i] = "down" /\ depth[i] > 1
                               \/ state[i] \in {"up", "done"} /\ Called(i)

ExecTypes == /\ doc \in Documents /\ first \in BOOLEAN
             /\ phase \in {"idle", "loop", "dispatched", "returned"}
             /\ depth \in [Selections -> Nat]
             /\ state \in [Selections -> {"waiting", "down", "up", "done"}]
             /\ null \in [Selections -> BOOLEAN] /\ landed \in [Selections -> Nat]
             /\ errors \in Seq(Selections) /\ log \in Seq(Selections) /\ invalids \in Nat

Phases == /\ first <=> phase = "idle"
          /\ phase = "idle" => \A i \in Selections : state[i] = "waiting"
          /\ phase = "returned" => \A i \in Selections : state[i] = "done"
          /\ phase = "returned" => (data = "null" <=> invalids > 0)
          /\ invalids > 0 <=> \E i \in Selections : landed[i] = 0

InOrder == /\ \A i \in Selections : Turn(i)
           /\ \A k, l \in DOMAIN log : k < l => log[k] < log[l]

ExecInv == /\ ExecTypes /\ Phases
           /\ \A i \in Selections : Walked(i)
           /\ doc.op = "Mutation" => InOrder

-----------------------------------------------------------------------------
(* What a document that validates is made of.                              *)
LEMMA SelectionsTyped ==
    ASSUME doc \in Documents
    PROVE  /\ doc.op \in {"Query", "Mutation"}
           /\ Selections = 1..Len(doc.selections) /\ Len(doc.selections) \in Nat
           /\ Selections \subseteq Nat
  <1>1. doc.op \in {"Query", "Mutation"} /\ doc.selections \in Seq([path : Seq(STRING), breaks : Mistakes])
    BY ExecuteConstants
  <1>2. DOMAIN doc.selections = 1..Len(doc.selections) /\ Len(doc.selections) \in Nat
    BY <1>1, LenProperties
  <1> QED  BY <1>1, <1>2 DEF Selections

LEMMA SelectionTyped ==
    ASSUME doc \in Documents, NEW i \in Selections
    PROVE  /\ Breaks(i) \in Mistakes
           /\ Len(PathOf(i)) \in Nat /\ Len(PathOf(i)) >= 1
           /\ DOMAIN PathOf(i) = 1..Len(PathOf(i))
           /\ PathOf(i)[1] \in DOMAIN Fields[doc.op]
           /\ Nullable(i) \subseteq 1..Len(PathOf(i))
           /\ \A k \in 1..Len(PathOf(i)) :
                 /\ FieldAt(doc.op, PathOf(i), k).null \in {"error", "allowed"}
                 /\ k \in Nullable(i) <=> FieldAt(doc.op, PathOf(i), k).null = "allowed"
                 /\ k \in Nullable(i) <=> PathOf(i)[k] \notin Counted[TypeAt(doc.op, PathOf(i), k)]
  <1>1. /\ doc.selections \in Seq([path : Seq(STRING), breaks : Mistakes])
        /\ Valid(doc.op, PathOf(i))
    BY ExecuteConstants DEF Selections, PathOf
  <1>2. i \in 1..Len(doc.selections)
    BY SelectionsTyped
  <1>3. doc.selections[i] \in [path : Seq(STRING), breaks : Mistakes]
    BY <1>1, <1>2, ElementOfSeq
  <1>4. PathOf(i) \in Seq(STRING) /\ Breaks(i) \in Mistakes
    BY <1>3 DEF PathOf, Breaks
  <1>5. Len(PathOf(i)) \in Nat /\ DOMAIN PathOf(i) = 1..Len(PathOf(i)) /\ Len(PathOf(i)) # 0
    BY <1>1, <1>4, LenProperties, EmptySeq DEF Valid
  <1>6. \A k \in 1..Len(PathOf(i)) :
           /\ TypeAt(doc.op, PathOf(i), k) \in DOMAIN Fields
           /\ PathOf(i)[k] \in DOMAIN Fields[TypeAt(doc.op, PathOf(i), k)]
    BY <1>1, <1>5 DEF Valid
  <1>7. \A k \in 1..Len(PathOf(i)) :
           k \in Nullable(i) <=> FieldAt(doc.op, PathOf(i), k).null = "allowed"
    BY <1>5 DEF Nullable
  <1>8. ASSUME NEW k \in 1..Len(PathOf(i))
        PROVE  /\ FieldAt(doc.op, PathOf(i), k).null \in {"error", "allowed"}
               /\ k \in Nullable(i) <=> PathOf(i)[k] \notin Counted[TypeAt(doc.op, PathOf(i), k)]
    <2> DEFINE type == TypeAt(doc.op, PathOf(i), k)
               f    == PathOf(i)[k]
    <2>1. type \in DOMAIN Fields /\ f \in DOMAIN Fields[type]
      BY <1>6
    <2>2. FieldAt(doc.op, PathOf(i), k) = Fields[type][f]
      BY DEF FieldAt
    <2> HIDE DEF type, f
    <2>3. /\ f \in Counted[type] <=> Fields[type][f].null = "error"
          /\ Fields[type][f].null \in {"error", "allowed"}
      BY <2>1, TablesAgree
    <2> QED  BY <1>7, <2>2, <2>3 DEF type, f
  <1>9. Nullable(i) \subseteq 1..Len(PathOf(i))
    BY <1>5 DEF Nullable
  <1> QED  BY <1>1, <1>4, <1>5, <1>7, <1>8, <1>9 DEF Valid

LEMMA NearestIs ==
    ASSUME doc \in Documents, NEW i \in Selections, NEW x \in Nullable(i) \union {0},
           \A k \in Nullable(i) : k <= x
    PROVE  Nearest(i) = x
  <1> DEFINE S == Nullable(i) \union {0}
  <1>1. S \subseteq Nat
    BY SelectionTyped
  <1>2. x \in S /\ \A k \in S : x >= k
    BY <1>1
  <1>3. \A y \in S : (\A k \in S : y >= k) => y = x
    BY <1>1, <1>2
  <1> HIDE DEF S
  <1>4. Max(S) = x
    BY <1>2, <1>3 DEF Max
  <1> QED  BY <1>4 DEF Nearest, S

(* Nothing changes the document, or what is said of it.                    *)
LEMMA DocumentKept ==
    ASSUME doc \in Documents, doc' = doc, NEW i \in Selections
    PROVE  /\ Selections' = Selections /\ PathOf(i)' = PathOf(i) /\ Breaks(i)' = Breaks(i)
           /\ Nullable(i)' = Nullable(i) /\ Landing(i)' = Landing(i)
           /\ (Permitted(i)' <=> Permitted(i)) /\ (Lost(i)' <=> Lost(i)) /\ (Called(i)' <=> Called(i))
  <1>1. Selections' = Selections /\ PathOf(i)' = PathOf(i) /\ Breaks(i)' = Breaks(i)
    BY DEF Selections, PathOf, Breaks
  <1>2. Nullable(i)' = Nullable(i)
    BY <1>1 DEF Nullable
  <1>3. Nearest(i)' = Nearest(i)
    BY <1>2 DEF Nearest
  <1> QED  BY <1>1, <1>2, <1>3 DEF Landing, Permitted, Lost, Called

LEMMA WalkedKept ==
    ASSUME doc \in Documents, doc' = doc, NEW i \in Selections, Walked(i),
           depth'[i] = depth[i], state'[i] = state[i], null'[i] = null[i], landed'[i] = landed[i],
           Reports(i)' = Reports(i), DOMAIN errors \subseteq DOMAIN errors'
    PROVE  Walked(i)'
  BY DocumentKept DEF Walked

(* One more report, one more resolver called.                              *)
LEMMA OneMoreReport ==
    ASSUME errors \in Seq(Selections), NEW i \in Selections, errors' = Append(errors, i)
    PROVE  /\ errors' \in Seq(Selections) /\ DOMAIN errors \subseteq DOMAIN errors'
           /\ Len(errors) + 1 \in DOMAIN errors'
           /\ Reports(i)' = Reports(i) \union {Len(errors) + 1}
           /\ \A j \in Selections \ {i} : Reports(j)' = Reports(j)
  <1>1. /\ errors' \in Seq(Selections) /\ Len(errors) \in Nat /\ Len(errors') = Len(errors) + 1
        /\ DOMAIN errors = 1..Len(errors) /\ DOMAIN errors' = 1..(Len(errors) + 1)
        /\ errors'[Len(errors) + 1] = i /\ \A k \in 1..Len(errors) : errors'[k] = errors[k]
    BY AppendProperties, LenProperties
  <1> QED  BY <1>1 DEF Reports

LEMMA OneMoreCalled ==
    ASSUME log \in Seq(Selections), NEW i \in Selections, log' = Append(log, i)
    PROVE  /\ log' \in Seq(Selections) /\ Logged' = Logged \union {i}
           /\ (\A k, l \in DOMAIN log : k < l => log[k] < log[l]) /\ (\A j \in Logged : j < i)
                 => \A k, l \in DOMAIN log' : k < l => log'[k] < log'[l]
  <1>1. /\ log' \in Seq(Selections) /\ Len(log) \in Nat /\ Len(log') = Len(log) + 1
        /\ DOMAIN log = 1..Len(log) /\ DOMAIN log' = 1..(Len(log) + 1)
        /\ log'[Len(log) + 1] = i /\ \A k \in 1..Len(log) : log'[k] = log[k]
    BY AppendProperties, LenProperties
  <1>2. Logged' = Logged \union {i}
    BY <1>1 DEF Logged
  <1>3. ASSUME \A k, l \in DOMAIN log : k < l => log[k] < log[l], \A j \in Logged : j < i,
               NEW k \in DOMAIN log', NEW l \in DOMAIN log', k < l
        PROVE  log'[k] < log'[l]
    <2>1. k \in 1..Len(log)
      BY <1>1, <1>3
    <2>2. CASE l \in 1..Len(log)
      BY <1>1, <1>3, <2>1, <2>2
    <2>3. CASE l = Len(log) + 1
      BY <1>1, <1>3, <2>1, <2>3 DEF Logged
    <2> QED  BY <1>1, <2>2, <2>3
  <1> QED  BY <1>1, <1>2, <1>3

-----------------------------------------------------------------------------
LEMMA ExecInvInit == ExecInit => ExecInv
  <1> SUFFICES ASSUME ExecInit PROVE ExecInv
    OBVIOUS
  <1>1. doc \in Documents
    BY DEF ExecInit
  <1>2. \A i \in Selections : Len(PathOf(i)) \in Nat /\ Len(PathOf(i)) >= 1
    BY <1>1, SelectionTyped
  <1>3. errors \in Seq(Selections) /\ log \in Seq(Selections) /\ DOMAIN errors = {} /\ DOMAIN log = {}
    BY EmptySeq DEF ExecInit
  <1>4. ExecTypes
    BY <1>1, <1>2, <1>3 DEF ExecInit, ExecTypes
  <1>5. Phases
    BY <1>2 DEF ExecInit, Phases
  <1>6. \A i \in Selections : Walked(i)
    BY <1>3 DEF ExecInit, Walked, Reports
  <1>7. InOrder
    BY <1>3 DEF ExecInit, InOrder, Turn, Logged
  <1> QED  BY <1>4, <1>5, <1>6, <1>7 DEF ExecInv

(* What a step leaves alone when no selection moves.                       *)
LEMMA NoneMoves ==
    ASSUME ExecInv, UNCHANGED <<doc, depth, state, null, landed, errors, invalids, log>>,
           first' \in BOOLEAN, phase' \in {"idle", "loop", "dispatched", "returned"}, Phases'
    PROVE  ExecInv'
  <1>1. doc \in Documents /\ doc' = doc /\ ExecTypes
    BY DEF ExecInv, ExecTypes
  <1>2. Selections' = Selections /\ \A i \in Selections : Reports(i)' = Reports(i)
    BY DEF Selections, Reports
  <1>3. ExecTypes'
    BY <1>1, <1>2 DEF ExecTypes
  <1>4. \A i \in Selections : Walked(i)'
    BY <1>1, <1>2, WalkedKept DEF ExecInv
  <1>5. InOrder => InOrder'
    <2>1. Logged' = Logged /\ \A i \in Selections : Called(i)' <=> Called(i)
      BY <1>1, DocumentKept DEF Logged
    <2> QED  BY <1>2, <2>1 DEF InOrder, Turn
  <1> QED  BY <1>2, <1>3, <1>4, <1>5 DEF ExecInv

LEMMA CallKeeps == ASSUME ExecInv, Call PROVE ExecInv'
  <1>0. ExecTypes /\ Phases /\ doc' = doc /\ Selections' = Selections
    BY DEF ExecInv, Call, Selections
  <1>1. CASE first
    <2>1. phase = "idle" /\ \A i \in Selections : state[i] = "waiting" /\ depth[i] = 0
      BY <1>0, <1>1 DEF Phases, ExecInv, Walked
    <2>2. state' = state /\ depth' = depth
      BY <1>0, <1>1, <2>1 DEF Call, FirstCall, ExecTypes
    <2>3. first' = FALSE /\ phase' = "loop"
          /\ UNCHANGED <<doc, depth, state, null, landed, errors, invalids, log>>
      BY <1>1, <2>2 DEF Call, FirstCall
    <2>4. Phases'
      BY <1>0, <2>3 DEF Phases
    <2> QED  BY <2>3, <2>4, NoneMoves
  <1>2. CASE ~first
    <2>1. UNCHANGED <<doc, depth, state, null, landed, errors, invalids, log, first, phase, data>>
      BY <1>2 DEF Call, FirstCall
    <2>2. Phases' /\ first' \in BOOLEAN /\ phase' \in {"idle", "loop", "dispatched", "returned"}
      BY <1>0, <2>1 DEF Phases, ExecTypes
    <2> QED  BY <2>1, <2>2, NoneMoves
  <1> QED  BY <1>1, <1>2

LEMMA DispatchKeeps == ASSUME ExecInv, Dispatch PROVE ExecInv'
  <1>1. /\ UNCHANGED <<doc, depth, state, null, landed, errors, invalids, log>>
        /\ first' = first /\ phase = "loop" /\ phase' = "dispatched"
    BY DEF Dispatch
  <1>2. Phases' /\ first' \in BOOLEAN
    BY <1>1 DEF ExecInv, ExecTypes, Phases, Selections
  <1> QED  BY <1>1, <1>2, NoneMoves

LEMMA ReturnKeeps == ASSUME ExecInv, Return PROVE ExecInv'
  <1>1. /\ UNCHANGED <<doc, depth, state, null, landed, errors, invalids, log>>
        /\ first' = first /\ phase = "dispatched" /\ phase' = "returned"
        /\ data' = IF invalids > 0 THEN "null" ELSE "object"
        /\ \A i \in Selections : state[i] = "done"
    BY DEF Return
  <1>2. Phases' /\ first' \in BOOLEAN
    BY <1>1 DEF ExecInv, ExecTypes, Phases, Selections
  <1> QED  BY <1>1, <1>2, NoneMoves

(* A field begins: where it stands, after all before it, or beside others, *)
(* which no mutation's does.                                               *)
LEMMA MutationsStay ==
    ASSUME doc \in Documents, doc.op = "Mutation", NEW i \in Selections
    PROVE  ~Delayed(i)
  <1>1. PathOf(i)[1] \in DOMAIN Fields["Mutation"]
    BY SelectionTyped
  <1>2. DOMAIN Fields["Mutation"] = {"createUser", "updateUser", "deleteUser"}
    BY DEF Fields, MutationFields
  <1> QED  BY <1>1, <1>2 DEF Delayed

(* The order stands for the others when one of them moves.                 *)
LEMMA TurnsKept ==
    ASSUME ExecInv, doc.op = "Mutation", NEW i \in Selections, doc' = doc,
           \A j \in Selections \ {i} : state'[j] = state[j] /\ depth'[j] = depth[j],
           state[i] # "done", \A j \in Selections \ {i} : j \in Logged' <=> j \in Logged,
           Turn(i)', \A k, l \in DOMAIN log' : k < l => log'[k] < log'[l]
    PROVE  InOrder'
  <1>1. InOrder /\ ExecTypes /\ doc \in Documents /\ Selections' = Selections
    BY DEF ExecInv, ExecTypes, Selections
  <1>2. ASSUME NEW q \in Selections \ {i} PROVE Turn(q)'
    <2>1. state'[q] = state[q] /\ depth'[q] = depth[q] /\ Turn(q)
      BY <1>1 DEF InOrder
    <2>2. q \in Logged' <=> q \in Logged
      OBVIOUS
    <2>3. \A k \in Selections : state[k] = "done" => state'[k] = "done"
      OBVIOUS
    <2>4. state'[q] # "waiting" => \A k \in Selections' : k < q => state'[k] = "done"
      BY <1>1, <2>1, <2>3 DEF Turn
    <2>5. Called(q)' <=> Called(q)
      BY <1>1, DocumentKept
    <2>6. q \in Logged <=> (state[q] = "down" /\ depth[q] > 1) \/ (state[q] \in {"up", "done"} /\ Called(q))
      BY <2>1 DEF Turn
    <2>7. q \in Logged' <=> (state'[q] = "down" /\ depth'[q] > 1) \/ (state'[q] \in {"up", "done"} /\ Called(q)')
      BY <2>1, <2>2, <2>5, <2>6
    <2> QED  BY <2>4, <2>7 DEF Turn
  <1> QED  BY <1>1, <1>2 DEF InOrder

LEMMA BeginsKeeps ==
    ASSUME ExecInv, NEW i \in Selections, Inline(i) \/ Concurrent(i)
    PROVE  ExecInv'
  <1>1. /\ UNCHANGED <<doc, first, phase, null, landed, errors, invalids, data, log>>
        /\ phase \in {"loop", "dispatched"}
        /\ state[i] = "waiting" /\ state' = [state EXCEPT ![i] = "down"]
        /\ depth' = [depth EXCEPT ![i] = 1]
    BY DEF Inline, Concurrent, Begins
  <1>2. doc \in Documents /\ ExecTypes /\ Phases /\ Selections' = Selections
    BY <1>1 DEF ExecInv, ExecTypes, Selections
  <1>3. ExecTypes'
    BY <1>1, <1>2 DEF ExecTypes
  <1>4. Phases'
    BY <1>1, <1>2 DEF Phases
  <1>5. \A j \in Selections : Reports(j)' = Reports(j)
    BY <1>1 DEF Reports
  <1>6. Walked(i)'
    <2>1. Walked(i) /\ 1 \in 1..Len(PathOf(i)) /\ depth'[i] = 1 /\ state'[i] = "down"
      BY <1>1, <1>2, SelectionTyped DEF ExecInv, ExecTypes
    <2> QED  BY <1>1, <1>2, <1>5, <2>1, DocumentKept DEF Walked
  <1>7. \A j \in Selections \ {i} : Walked(j)'
    BY <1>1, <1>2, <1>5, WalkedKept DEF ExecInv, ExecTypes
  <1>8. ASSUME doc.op = "Mutation" PROVE InOrder'
    <2>1. InOrder /\ Logged' = Logged /\ (Called(i)' <=> Called(i))
      BY <1>1, <1>2, <1>8, DocumentKept DEF ExecInv, Logged
    <2>2. \A j \in Selections : j < i => state[j] = "done"
      BY <1>2, <1>8, MutationsStay DEF Inline, Concurrent
    <2>3. i \in Nat /\ state'[i] = "down" /\ depth'[i] = 1
      BY <1>1, <1>2, SelectionsTyped DEF ExecTypes
    <2>4. Turn(i)'
      <3>1. \A j \in Selections' : j < i => state'[j] = "done"
        BY <1>1, <1>2, <2>2, <2>3 DEF ExecTypes
      <3>2. i \notin Logged'
        BY <1>1, <2>1 DEF InOrder, Turn
      <3> QED  BY <2>3, <3>1, <3>2 DEF Turn
    <2>5. \A k, l \in DOMAIN log' : k < l => log'[k] < log'[l]
      BY <1>1, <2>1 DEF InOrder
    <2> QED  BY <1>1, <1>2, <1>8, <2>1, <2>4, <2>5, TurnsKept
  <1> QED  BY <1>1, <1>2, <1>3, <1>4, <1>6, <1>7, <1>8 DEF ExecInv

(* Down one field, or the turning point: a null only for what went wrong,  *)
(* reported unless the schema permits it.                                  *)
LEMMA DescendKeeps ==
    ASSUME ExecInv, NEW i \in Selections, Descend(i)
    PROVE  ExecInv'
  <1>1. /\ UNCHANGED <<doc, first, phase, landed, invalids, data>> /\ state[i] = "down"
        /\ log' = IF Calling(i) THEN Append(log, i) ELSE log
    BY DEF Descend
  <1>2. doc \in Documents /\ ExecTypes /\ Phases /\ Selections' = Selections /\ Walked(i)
        /\ doc' = doc
    BY <1>1 DEF ExecInv, ExecTypes, Selections
  <1>3. /\ depth[i] \in 1..Len(PathOf(i)) /\ Len(PathOf(i)) \in Nat /\ Len(PathOf(i)) >= 1
        /\ landed[i] = Len(PathOf(i)) + 1 /\ Reports(i) = {} /\ Breaks(i) \in Mistakes
        /\ Nullable(i) \subseteq 1..Len(PathOf(i))
    BY <1>1, <1>2, SelectionTyped DEF Walked
  <1>4. log' \in Seq(Selections)
    BY <1>1, <1>2, OneMoreCalled DEF ExecTypes
  <1>5. phase \notin {"idle", "returned"}
    BY <1>1, <1>2 DEF Phases
  <1>6. /\ (Called(i)' <=> Called(i)) /\ Landing(i)' = Landing(i) /\ Nullable(i)' = Nullable(i)
        /\ (Lost(i)' <=> Lost(i)) /\ (Permitted(i)' <=> Permitted(i)) /\ PathOf(i)' = PathOf(i)
    BY <1>2, DocumentKept
  (* Where it is afterwards.                                               *)
  <1> DEFINE d == IF AtEnd(i) THEN depth[i] ELSE depth[i] + 1
             s == IF AtEnd(i) THEN "up" ELSE "down"
  <1>7. depth' = [depth EXCEPT ![i] = d] /\ state' = [state EXCEPT ![i] = s]
    BY <1>1, <1>2 DEF Descend, Turns, ExecTypes
  <1>8. d \in 1..Len(PathOf(i)) /\ d \in Nat /\ s \in {"down", "up"}
    BY <1>3 DEF AtEnd
  <1>9. depth'[i] = d /\ state'[i] = s
    BY <1>2, <1>7 DEF ExecTypes
  <1>10. Phases'
    <2> HIDE DEF d, s
    <2> QED  BY <1>1, <1>2, <1>5, <1>7 DEF Phases
  <1>11. null' \in [Selections -> BOOLEAN] /\ errors' \in Seq(Selections)
         /\ DOMAIN errors \subseteq DOMAIN errors'
         /\ \A j \in Selections \ {i} : null'[j] = null[j] /\ Reports(j)' = Reports(j)
    <2>1. CASE errors' = errors
      BY <1>2, <2>1 DEF Descend, Turns, ExecTypes, Reports
    <2>2. CASE errors' = Append(errors, i)
      <3>1. /\ errors' \in Seq(Selections) /\ DOMAIN errors \subseteq DOMAIN errors'
            /\ \A j \in Selections \ {i} : Reports(j)' = Reports(j)
        BY <1>2, <2>2, OneMoreReport DEF ExecTypes
      <3> QED  BY <1>2, <3>1 DEF Descend, Turns, ExecTypes
    <2> QED  BY <2>1, <2>2 DEF Descend
  <1>12. ExecTypes'
    <2> HIDE DEF d, s
    <2> QED  BY <1>1, <1>2, <1>4, <1>7, <1>8, <1>11 DEF ExecTypes
  <1>13. \A j \in Selections \ {i} : Walked(j)'
    <2> HIDE DEF d, s
    <2> QED  BY <1>1, <1>2, <1>7, <1>11, WalkedKept DEF ExecInv, ExecTypes
  <1>14. Walked(i)'
    <2>1. CASE ~AtEnd(i)
      <3>1. errors' = errors /\ Reports(i)' = Reports(i)
        BY <2>1 DEF Descend, Reports
      <3> QED  BY <1>1, <1>3, <1>6, <1>8, <1>9, <2>1, <3>1 DEF Walked
    <2>2. CASE AtEnd(i)
      <3>1. depth[i] = Len(PathOf(i)) /\ d = Len(PathOf(i)) /\ s = "up"
        BY <2>2 DEF AtEnd
      <3>2. null'[i] <=> Lost(i)
        BY <1>2, <2>2 DEF Descend, Turns, ExecTypes, Lost
      <3>3. errors' = IF Lost(i) /\ ~Permitted(i) THEN Append(errors, i) ELSE errors
        <4>1. Here(i) = FieldAt(doc.op, PathOf(i), Len(PathOf(i)))
          BY <3>1 DEF Here
        <4>2. Here(i).null = "error" <=> Len(PathOf(i)) \notin Nullable(i)
          BY <1>2, <1>3, <4>1, SelectionTyped
        <4> QED  BY <1>3, <2>2, <4>2 DEF Descend, Lost, Permitted, Mistakes
      <3>4. IF Lost(i) /\ ~Permitted(i) THEN \E k \in DOMAIN errors' : Reports(i)' = {k}
            ELSE Reports(i)' = {}
        <4>1. CASE Lost(i) /\ ~Permitted(i)
          <5>1. /\ Len(errors) + 1 \in DOMAIN errors'
                /\ Reports(i)' = Reports(i) \union {Len(errors) + 1}
            BY <1>2, <3>3, <4>1, OneMoreReport DEF ExecTypes
          <5> QED  BY <1>3, <4>1, <5>1
        <4>2. CASE ~(Lost(i) /\ ~Permitted(i))
          BY <1>3, <3>3, <4>2 DEF Reports
        <4> QED  BY <4>1, <4>2
      <3>5. landed'[i] # 0 /\ (~Lost(i) => landed'[i] = Landing(i))
        BY <1>1, <1>3 DEF Landing
      <3>6. \A k \in Nullable(i) : k <= depth'[i]
        BY <1>3, <1>9, <3>1
      <3> QED  BY <1>3, <1>6, <1>8, <1>9, <3>1, <3>2, <3>4, <3>5, <3>6 DEF Walked
    <2> QED  BY <2>1, <2>2
  <1>15. ASSUME doc.op = "Mutation" PROVE InOrder'
    <2>1. InOrder /\ Turn(i)
      BY <1>15 DEF ExecInv, InOrder
    <2>2. \A j \in Logged : j < i \/ i \in Logged
      <3> SUFFICES ASSUME NEW j \in Logged, ~(j < i), i \notin Logged PROVE FALSE
        OBVIOUS
      <3>1. j \in Selections /\ Selections \subseteq Nat /\ j # i
        BY <1>2, SelectionsTyped, LenProperties, ElementOfSeq DEF Logged, ExecTypes
      <3>2. i < j /\ state[j] # "waiting"
        BY <2>1, <3>1 DEF InOrder, Turn
      <3> QED  BY <1>1, <2>1, <3>1, <3>2 DEF InOrder, Turn
    <2>3. CASE Calling(i)
      <3>1. i \notin Logged /\ log' = Append(log, i) /\ depth[i] = 1
        BY <1>1, <2>1, <2>3 DEF Turn, Calling
      <3>2. Logged' = Logged \union {i} /\ \A k, l \in DOMAIN log' : k < l => log'[k] < log'[l]
        BY <1>2, <2>1, <2>2, <3>1, OneMoreCalled DEF InOrder, ExecTypes
      <3>3. AtEnd(i) => Called(i)
        BY <2>3, <3>1 DEF Calling, Called
      <3>4. Turn(i)'
        <4>1. \A j \in Selections' : j < i => state'[j] = "done"
          BY <1>1, <1>2, <1>7, <2>1, SelectionsTyped DEF Turn, ExecTypes
        <4> QED  BY <1>6, <1>9, <3>1, <3>2, <3>3, <4>1 DEF Turn
      <3> HIDE DEF d, s
      <3> QED  BY <1>1, <1>2, <1>7, <1>15, <3>2, <3>4, TurnsKept
    <2>4. CASE ~Calling(i)
      <3>1. log' = log /\ Logged' = Logged
        BY <1>1, <2>4 DEF Logged
      <3>2. i \in Logged <=> depth[i] > 1
        BY <1>1, <2>1 DEF Turn
      <3>3. depth[i] > 1 <=> ~(AtEnd(i) /\ depth[i] = 1 /\ Breaks(i) = "args")
        BY <1>3, <2>4 DEF Calling
      <3>4. ~AtEnd(i) => depth[i] > 1 /\ d > 1
        BY <1>3, <2>4 DEF Calling
      <3>5. AtEnd(i) => (Called(i) <=> depth[i] > 1)
        BY <1>3, <3>3 DEF Called, AtEnd
      <3>6. Turn(i)'
        <4>1. \A j \in Selections' : j < i => state'[j] = "done"
          BY <1>1, <1>2, <1>7, <2>1, SelectionsTyped DEF Turn, ExecTypes
        <4> QED  BY <1>6, <1>9, <3>1, <3>2, <3>4, <3>5, <4>1 DEF Turn
      <3> HIDE DEF d, s
      <3> QED  BY <1>1, <1>2, <1>7, <1>15, <2>1, <3>1, <3>6, TurnsKept DEF InOrder
    <2> QED  BY <2>3, <2>4
  <1> QED  BY <1>1, <1>2, <1>10, <1>12, <1>13, <1>14, <1>15 DEF ExecInv

(* Back up one field: a null that counts goes on, one that may stand rests *)
(* there, and that is the nearest place above it.                          *)
LEMMA AscendKeeps ==
    ASSUME ExecInv, NEW i \in Selections, Ascend(i)
    PROVE  ExecInv'
  <1>1. /\ UNCHANGED <<doc, first, phase, errors, data, log>> /\ state[i] = "up"
        /\ doc' = doc /\ log' = log /\ errors' = errors
    BY DEF Ascend
  <1>2. doc \in Documents /\ ExecTypes /\ Phases /\ Selections' = Selections /\ Walked(i)
    BY <1>1 DEF ExecInv, ExecTypes, Selections
  <1>3. /\ depth[i] \in 1..Len(PathOf(i)) /\ Len(PathOf(i)) \in Nat /\ depth[i] \in Nat /\ depth[i] >= 1
        /\ landed[i] \in Nat /\ landed[i] # 0 /\ null[i] \in BOOLEAN
        /\ null[i] => Lost(i) /\ \A k \in Nullable(i) : k <= depth[i]
        /\ ~null[i] => landed[i] = Landing(i)
        /\ Nullable(i) \subseteq 1..Len(PathOf(i))
    BY <1>1, <1>2, SelectionTyped DEF Walked, ExecTypes
  <1>4. Counts(i) <=> null[i] /\ depth[i] \notin Nullable(i)
    BY <1>2, <1>3, SelectionTyped DEF Counts, TypeOf
  <1>5. /\ (Called(i)' <=> Called(i)) /\ Landing(i)' = Landing(i) /\ Nullable(i)' = Nullable(i)
        /\ (Lost(i)' <=> Lost(i)) /\ (Permitted(i)' <=> Permitted(i)) /\ PathOf(i)' = PathOf(i)
    BY <1>1, <1>2, DocumentKept
  (* Where it is afterwards, and where its null is.                        *)
  <1> DEFINE s == IF depth[i] = 1 THEN "done" ELSE "up"
             l == IF null[i] THEN IF Counts(i) THEN depth[i] - 1 ELSE depth[i] ELSE landed[i]
             n == IF Counts(i) THEN TRUE ELSE FALSE
  <1>6. /\ depth' = [depth EXCEPT ![i] = depth[i] - 1] /\ state' = [state EXCEPT ![i] = s]
        /\ null' = [null EXCEPT ![i] = n] /\ landed' = [landed EXCEPT ![i] = l]
    <2>1. depth' = [depth EXCEPT ![i] = depth[i] - 1] /\ state' = [state EXCEPT ![i] = s]
          /\ null' = [null EXCEPT ![i] = n]
      BY DEF Ascend, Counts
    <2>2. landed' = [landed EXCEPT ![i] = l]
      BY <1>2 DEF Ascend, ExecTypes
    <2> QED  BY <2>1, <2>2
  <1>7. depth[i] - 1 \in Nat /\ s \in {"done", "up"} /\ l \in Nat /\ n \in BOOLEAN
    BY <1>3
  <1>8. s = "done" => l = Landing(i)
    <2> SUFFICES ASSUME depth[i] = 1, null[i] PROVE l = Nearest(i) /\ Lost(i)
      BY <1>3 DEF Landing
    <2>1. CASE 1 \in Nullable(i)
      BY <1>2, <1>3, <1>4, <2>1, NearestIs
    <2>2. CASE 1 \notin Nullable(i)
      <3>1. 0 \in Nullable(i) \union {0} /\ \A k \in Nullable(i) : k <= 0
        BY <1>3, <2>2
      <3>2. Nearest(i) = 0
        BY <1>2, <3>1, NearestIs
      <3> QED  BY <1>3, <1>4, <2>2, <3>2
    <2> QED  BY <2>1, <2>2
  <1>9. s = "up" => /\ l # 0
                    /\ n => Lost(i) /\ \A k \in Nullable(i) : k <= depth[i] - 1
                    /\ ~n => l = Landing(i)
    <2> SUFFICES ASSUME depth[i] # 1 PROVE /\ l # 0
                                           /\ n => Lost(i) /\ \A k \in Nullable(i) : k <= depth[i] - 1
                                           /\ ~n => l = Landing(i)
      OBVIOUS
    <2>1. CASE ~null[i]
      BY <1>3, <1>4, <2>1
    <2>2. CASE null[i] /\ ~Counts(i)
      <3>1. depth[i] \in Nullable(i) \union {0}
        BY <1>4, <2>2
      <3>2. Nearest(i) = depth[i]
        BY <1>2, <1>3, <2>2, <3>1, NearestIs
      <3> QED  BY <1>3, <2>2, <3>2 DEF Landing
    <2>3. CASE null[i] /\ Counts(i)
      BY <1>3, <1>4, <2>3
    <2> QED  BY <2>1, <2>2, <2>3
  <1>10. l = 0 <=> depth[i] = 1 /\ Counts(i)
    BY <1>3, <1>4
  <1>11. /\ depth'[i] = depth[i] - 1 /\ state'[i] = s /\ null'[i] = n /\ landed'[i] = l
         /\ Reports(i)' = Reports(i)
    BY <1>1, <1>2, <1>6 DEF ExecTypes, Reports
  <1>12. invalids' = IF l = 0 THEN invalids + 1 ELSE invalids
    BY <1>10 DEF Ascend
  <1>13. Walked(i)'
    <2>1. IF Lost(i) /\ ~Permitted(i) THEN \E k \in DOMAIN errors' : Reports(i)' = {k}
          ELSE Reports(i)' = {}
      BY <1>1, <1>2, <1>11 DEF Walked
    <2>2. s = "up" => depth[i] - 1 \in 1..Len(PathOf(i))
      BY <1>3
    <2> HIDE DEF s, l, n
    <2> QED  BY <1>5, <1>7, <1>8, <1>9, <1>11, <2>1, <2>2 DEF Walked
  <1> HIDE DEF s, l, n
  <1>14. ExecTypes'
    BY <1>1, <1>2, <1>6, <1>7, <1>12 DEF ExecTypes
  <1>15. Phases'
    <2>1. phase' = phase /\ data' = data /\ first' = first /\ phase \notin {"idle", "returned"}
      BY <1>1, <1>2 DEF Phases
    <2>2. invalids' > 0 <=> \E j \in Selections : landed'[j] = 0
      <3>1. CASE l = 0
        BY <1>2, <1>11, <1>12, <3>1 DEF ExecTypes
      <3>2. CASE l # 0
        <4>1. \A j \in Selections : landed'[j] = 0 <=> landed[j] = 0
          BY <1>2, <1>3, <1>6, <1>11, <3>2 DEF ExecTypes
        <4> QED  BY <1>2, <1>12, <3>2, <4>1 DEF Phases
      <3> QED  BY <3>1, <3>2
    <2> QED  BY <1>2, <2>1, <2>2 DEF Phases
  <1>16. \A j \in Selections \ {i} : Walked(j)'
    <2>1. \A j \in Selections : Reports(j)' = Reports(j)
      BY <1>1 DEF Reports
    <2> QED  BY <1>1, <1>2, <1>6, <2>1, WalkedKept DEF ExecInv, ExecTypes
  <1>17. ASSUME doc.op = "Mutation" PROVE InOrder'
    <2>1. InOrder /\ Turn(i) /\ Logged' = Logged
      BY <1>1, <1>17 DEF ExecInv, InOrder, Logged
    <2>2. Turn(i)'
      <3>1. \A j \in Selections' : j < i => state'[j] = "done"
        BY <1>1, <1>2, <1>6, <2>1, SelectionsTyped DEF Turn, ExecTypes
      <3>2. i \in Logged' <=> Called(i)'
        BY <1>1, <1>5, <2>1 DEF Turn
      <3> QED  BY <1>7, <1>11, <3>1, <3>2 DEF Turn
    <2>3. \A j \in Selections \ {i} : state'[j] = state[j] /\ depth'[j] = depth[j]
      BY <1>2, <1>6 DEF ExecTypes
    <2>4. \A j, k \in DOMAIN log' : j < k => log'[j] < log'[k]
      BY <1>1, <2>1 DEF InOrder
    <2> QED  BY <1>1, <1>2, <1>17, <2>1, <2>2, <2>3, <2>4, TurnsKept
  <1> QED  BY <1>1, <1>2, <1>13, <1>14, <1>15, <1>16, <1>17 DEF ExecInv

LEMMA ExecInvNext == ExecInv /\ [ExecNext]_execVars => ExecInv'
  <1> SUFFICES ASSUME ExecInv, [ExecNext]_execVars PROVE ExecInv'
    OBVIOUS
  <1>1. CASE UNCHANGED execVars
    <2>1. UNCHANGED <<doc, depth, state, null, landed, errors, invalids, log>>
          /\ first' = first /\ phase' = phase /\ data' = data
      BY <1>1 DEF execVars
    <2>2. first' \in BOOLEAN /\ phase' \in {"idle", "loop", "dispatched", "returned"} /\ Phases'
      BY <2>1 DEF ExecInv, ExecTypes, Phases, Selections
    <2> QED  BY <2>1, <2>2, NoneMoves
  <1>2. CASE ExecNext
    BY <1>2, CallKeeps, DispatchKeeps, ReturnKeeps, BeginsKeeps, DescendKeeps, AscendKeeps
       DEF ExecNext
  <1> QED  BY <1>1, <1>2

(* For every document that validates and every order in which the fields   *)
(* run: a null rests in the nearest field above it that may be null, is    *)
(* reported once unless it may stand where it arose, and data is null when *)
(* and only when one reached the operation.                                *)
THEOREM NullsRestWhereTheyMay == ExecSpec => []NullsRest
  <1>1. ASSUME ExecInv, phase = "returned", NEW i \in Selections
        PROVE  /\ landed[i] = IF Breaks(i) = "nothing" THEN Len(PathOf(i)) + 1 ELSE Nearest(i)
               /\ Cardinality(Reports(i)) = IF Breaks(i) = "nothing" \/ Permitted(i) THEN 0 ELSE 1
    <2>1. Walked(i) /\ state[i] = "done"
      BY <1>1 DEF ExecInv, Phases
    <2>2. landed[i] = IF Breaks(i) = "nothing" THEN Len(PathOf(i)) + 1 ELSE Nearest(i)
      BY <2>1 DEF Walked, Landing, Lost
    <2>3. CASE Lost(i) /\ ~Permitted(i)
      <3>1. PICK k \in DOMAIN errors : Reports(i) = {k}
        BY <2>1, <2>3 DEF Walked
      <3> QED  BY <2>2, <2>3, <3>1, FS_Singleton DEF Lost
    <2>4. CASE ~(Lost(i) /\ ~Permitted(i))
      BY <2>1, <2>2, <2>4, FS_EmptySet DEF Walked, Lost
    <2> QED  BY <2>3, <2>4
  <1>2. ExecInv /\ phase = "returned" => (data = "null" <=> \E i \in Selections : landed[i] = 0)
    BY DEF ExecInv, Phases
  <1>3. ExecInv => NullsRest
    BY <1>1, <1>2 DEF NullsRest
  <1> QED  BY <1>3, ExecInvInit, ExecInvNext, PTL DEF ExecSpec

(* And a mutation's fields run one at a time, in the document's order,     *)
(* each called once, whatever became of those before it and however often  *)
(* a transport calls the handler.                                          *)
THEOREM MutationsInTurn == ExecSpec => []InTurn
  <1>1. ASSUME ExecInv, doc.op = "Mutation" PROVE InTurn
    <2>1. InOrder /\ ExecTypes /\ Phases /\ Selections \subseteq Nat
      BY <1>1, SelectionsTyped DEF ExecInv, ExecTypes
    <2>2. ASSUME NEW i \in Selections, NEW j \in Selections, RunsIn(i), RunsIn(j) PROVE i = j
      <3>1. ~(i < j) /\ ~(j < i)
        BY <2>1, <2>2 DEF InOrder, Turn, RunsIn
      <3> QED  BY <2>1, <3>1
    <2>3. \A k \in 1..(Len(log) - 1) : log[k] < log[k + 1]
      <3>1. Len(log) \in Nat /\ DOMAIN log = 1..Len(log)
        BY <2>1, LenProperties DEF ExecTypes
      <3> QED  BY <2>1, <3>1 DEF InOrder
    <2>4. ASSUME phase = "returned" PROVE Logged = {i \in Selections : Called(i)}
      <3>1. \A i \in Selections : state[i] = "done"
        BY <2>1, <2>4 DEF Phases
      <3>2. \A i \in Selections : i \in Logged <=> Called(i)
        BY <2>1, <3>1 DEF InOrder, Turn
      <3>3. Logged \subseteq Selections
        BY <2>1, ElementOfSeq, LenProperties DEF Logged, ExecTypes
      <3> QED  BY <3>2, <3>3
    <2> QED  BY <2>2, <2>3, <2>4 DEF InTurn, Logged, Called
  <1>2. ExecInv => InTurn
    BY <1>1 DEF InTurn
  <1> QED  BY <1>2, ExecInvInit, ExecInvNext, PTL DEF ExecSpec

=============================================================================
