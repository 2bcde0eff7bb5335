----------------------------- MODULE SpliceProofs ------------------------------
(***************************************************************************)
(* What luimagen makes of a description, for every set of names, columns   *)
(* and imports and without a bound on their number: the pass over the      *)
(* fields accepts exactly what the documentation asks for (VerdictExact),  *)
(* a spliced literal names only input fields that are there                *)
(* (ReadsWhatIsThere), and a file that compiled still does (Compiles).     *)
(***************************************************************************)
EXTENDS Splice, SequenceTheorems, WellFoundedInduction, TLAPS

(* One more entry of a sequence.                                           *)
LEMMA Appended ==
    ASSUME NEW S, NEW s \in Seq(S), NEW e \in S
    PROVE  /\ Append(s, e) \in Seq(S) /\ Len(s) \in Nat /\ Len(Append(s, e)) = Len(s) + 1
           /\ DOMAIN s = 1..Len(s) /\ DOMAIN Append(s, e) = 1..(Len(s) + 1)
           /\ Append(s, e)[Len(s) + 1] = e /\ \A i \in 1..Len(s) : Append(s, e)[i] = s[i]
  BY AppendProperties, LenProperties

LEMMA FrontAppend ==
    ASSUME NEW S, NEW s \in Seq(S), NEW e \in S
    PROVE  Front(Append(s, e)) = s
  BY AppendProperties, LenProperties DEF Front

(* Among numbers up to n there is a greatest.                              *)
LEMMA Greatest ==
    ASSUME NEW n \in Nat, NEW S \in SUBSET (1..n), S # {}
    PROVE  \E m \in S : \A j \in S : j <= m
  <1> DEFINE T == {n - j : j \in S}
             R == OpToRel(<, Nat)
  <1>1. T \in SUBSET Nat /\ T # {}
    OBVIOUS
  <1>2. IsWellFoundedOn(R, Nat)
    BY NatLessThanWellFounded
  <1>3. PICK i \in T : \A j \in T : ~(<<j, i>> \in R)
    BY <1>1, <1>2, WFMin
  <1>4. \A j \in T : ~(j < i)
    BY <1>1, <1>3 DEF OpToRel
  <1>5. PICK m \in S : i = n - m
    BY <1>3
  <1>6. \A j \in S : j <= m
    BY <1>4, <1>5
  <1> QED  BY <1>6

-----------------------------------------------------------------------------
(* The derived names.  A capital that is lowered stays lowered, and a name *)
(* that ends in ID ends in a D: folding changes the case of letters alone. *)
LEMMA LowTwice == \A c : Low(Low(c)) = Low(c)
  BY DEF Low, Upper, Lowered

LEMMA EndsInD ==
    ASSUME NEW s \in Seq(STRING), IsSuffix(<<"I", "D">>, s)
    PROVE  Len(s) \in Nat /\ Len(s) >= 2 /\ s[Len(s)] = "D"
  <1> DEFINE id == <<"I", "D">>
  <1>1. Len(s) \in Nat /\ Len(id) = 2 /\ id[2] = "D"
    BY LenProperties
  <1>2. IsPrefix(Reverse(id), Reverse(s))
    BY DEF IsSuffix
  <1>3. Len(Reverse(id)) = 2 /\ Reverse(id)[1] = "D"
    BY <1>1 DEF Reverse
  <1>4. Len(Reverse(s)) = Len(s) /\ (Len(s) >= 1 => Reverse(s)[1] = s[Len(s)])
    BY <1>1 DEF Reverse
  <1> HIDE DEF id
  <1> DEFINE r == Reverse(id)
             t == Reverse(s)
  <1>5. 2 <= Len(s) /\ SubSeq(r, 1, 2) = SubSeq(t, 1, 2)
    BY <1>1, <1>2, <1>3, <1>4 DEF IsPrefix
  <1> HIDE DEF r, t
  <1>6. SubSeq(r, 1, 2)[1] = r[1] /\ SubSeq(t, 1, 2)[1] = t[1]
    OBVIOUS
  <1> QED  BY <1>1, <1>3, <1>4, <1>5, <1>6 DEF r, t

LEMMA LoweredFirst ==
    ASSUME NEW s \in Seq(STRING), s # <<>>
    PROVE  ToLower(LowerFirst(s)) = ToLower(s)
  <1> DEFINE folded == IF IsSuffix(<<"I", "D">>, s) THEN [s EXCEPT ![Len(s)] = "d"] ELSE s
  <1>1. Len(s) \in Nat /\ DOMAIN s = 1..Len(s) /\ 1 \in DOMAIN s
    BY LenProperties, EmptySeq
  <1>2. DOMAIN folded = DOMAIN s /\ \A i \in DOMAIN s : Low(folded[i]) = Low(s[i])
    <2>1. Low("d") = Low("D")
      BY DEF Low, Upper, Lowered
    <2>2. CASE IsSuffix(<<"I", "D">>, s)
      <3>1. folded = [s EXCEPT ![Len(s)] = "d"] /\ s[Len(s)] = "D"
        BY <2>2, EndsInD
      <3> HIDE DEF folded
      <3> QED  BY <2>1, <3>1
    <2>3. CASE ~IsSuffix(<<"I", "D">>, s)
      BY <2>3
    <2> QED  BY <2>2, <2>3
  <1>3. LowerFirst(s) = [folded EXCEPT ![1] = Low(folded[1])]
    BY DEF LowerFirst
  <1> HIDE DEF folded
  <1>4. \A i \in DOMAIN s : Low(LowerFirst(s)[i]) = Low(s[i])
    BY <1>1, <1>2, <1>3, LowTwice
  <1>5. DOMAIN LowerFirst(s) = DOMAIN s
    BY <1>2, <1>3
  <1> QED  BY <1>4, <1>5 DEF ToLower

(* What gqlgen makes of a name differs from it in case alone.              *)
LEMMA RecasedLow ==
    ASSUME NEW s \in Seq(STRING), s # <<>>, NEW t \in Recased(LowerFirst(s))
    PROVE  ToLower(t) = ToLower(s)
  BY LoweredFirst DEF Recased

(* One more field can be described beside the others if it is allowed and  *)
(* collides with none of them.                                             *)
LEMMA OneMoreField ==
    ASSUME NEW fs \in Seq(Field), NEW f \in Field
    PROVE  Describable(Append(fs, f)) <=>
              /\ Describable(fs) /\ Allowed(f) /\ (f.pk => f.kind = "scalar")
              /\ \A i \in DOMAIN fs : /\ ~(fs[i].pk /\ f.pk)
                                      /\ Column(fs[i]) # Column(f)
                                      /\ LowerFirst(fs[i].name) # LowerFirst(f.name)
  <1> DEFINE fs2 == Append(fs, f)
  <1>1. /\ Len(fs) \in Nat /\ DOMAIN fs = 1..Len(fs) /\ DOMAIN fs2 = 1..(Len(fs) + 1)
        /\ fs2[Len(fs) + 1] = f /\ \A i \in 1..Len(fs) : fs2[i] = fs[i]
    BY Appended
  <1> HIDE DEF fs2
  <1> QED  BY <1>1 DEF Describable

-----------------------------------------------------------------------------
(* Fields.  What the pass over the fields has gathered: the names it has   *)
(* met are those of the fields it has kept, and so are the key and the     *)
(* columns of the table.                                                   *)
FieldStages == {"fields", "generate", "patch", "done", "refused", "incomplete"}
FileStages  == {"read", "splice", "drop", "add", "written", "unchanged", "conflict"}
SpliceTypes == /\ stage \in FieldStages \union FileStages
               /\ fields \in Seq(Field) /\ table \in [pk : Nat, cols : Seq(Nat)]

Met      == seen = [cols |-> {Column(fields[i]) : i \in DOMAIN fields},
                    gql  |-> {LowerFirst(fields[i].name) : i \in DOMAIN fields}]
KeyAt    == /\ table.pk # 0 => table.pk \in DOMAIN fields
            /\ \A i \in DOMAIN fields : fields[i].pk <=> i = table.pk
ColsAt   == /\ \A i \in DOMAIN fields : fields[i].pk \/ \E k \in DOMAIN table.cols : table.cols[k] = i
            /\ \A k \in DOMAIN table.cols : table.cols[k] \in DOMAIN fields /\ ~fields[table.cols[k]].pk
Kept     == Describable(fields) /\ KeyAt /\ ColsAt
Verdict  == /\ stage = "fields" => Met
            /\ stage = "refused" => ~Describable(fields) /\ Describable(Front(fields))
            /\ stage \in {"fields", "generate", "patch", "done"} => Kept
            /\ stage = "incomplete" => Describable(fields) /\ ~Whole(fields)
            /\ stage \in {"generate", "patch", "done"} => Whole(fields)

(* What gqlgen has made of the columns: re-cased, and each still there.    *)
NameAt(i) == fields[table.cols[i]].name
Made      == /\ input = [i \in DOMAIN table.cols |-> input[i]]
             /\ \A i \in DOMAIN input : ToLower(input[i]) = ToLower(NameAt(i))
Inputs    == /\ stage \in {"patch", "done"} => Made
             /\ stage = "done" => source = [i \in DOMAIN table.cols |-> InputField(NameAt(i))]

(* Splice.  The file as it was read: one name for each import, and just    *)
(* these in use.                                                           *)
OneEach(ims) == \A i, j \in DOMAIN ims : i # j => Binds(ims[i]) # Binds(ims[j])
Dead(im)     == im.path = Fmt /\ Binds(im) \notin Uses
FileRead == /\ original \in Seq(Specs) /\ OneEach(original)
            /\ file.stubs \subseteq Methods
            /\ file.rest \subseteq BoundBy(original)
            /\ \A i \in DOMAIN original : Binds(original[i]) \notin file.rest => original[i].path = Fmt

(* The block on the way: nothing bound twice, nothing of the file lost but *)
(* a dead fmt, nothing added but a need that is used.                      *)
Needed(k)  == [name |-> Unnamed, path |-> Needs[k]]
Block   == imports \in Seq(Specs) /\ OneEach(imports)
NoneLost == \A i \in DOMAIN original : original[i] \in ToSet(imports) \/ Dead(original[i])
Dropping == stage = "drop" =>
    /\ at \in 0..Len(imports) /\ \A i \in DOMAIN imports : imports[i] \in ToSet(original)
    /\ \A i \in DOMAIN imports : i > at => ~Dead(imports[i])
Adding == stage \in {"add", "written", "conflict"} =>
    /\ at \in 1..4
    /\ \A i \in DOMAIN imports : /\ ~Dead(imports[i])
                                 /\ \/ imports[i] \in ToSet(original)
                                    \/ \E k \in 1..3 : k < at /\ imports[i] = Needed(k) /\ Needs[k].pkg \in Uses
    /\ \A k \in 1..3 : k < at /\ Needs[k].pkg \in Uses => Needed(k) \in ToSet(imports)
Filled == /\ stage \in {"drop", "add", "written", "conflict"} => idents = Uses /\ Block /\ NoneLost
          /\ Dropping /\ Adding
          /\ stage = "written" => at = 4
          /\ stage = "conflict" => at < 4 /\ Needs[at].pkg \in Uses /\ Bound(imports, Needs[at].pkg)
                                  /\ Needed(at) \notin ToSet(imports)

SpliceInv == /\ SpliceTypes /\ Verdict /\ Inputs
             /\ stage \in FileStages \ {"read"} => FileRead
             /\ stage = "splice" => imports = original
             /\ Filled

-----------------------------------------------------------------------------
LEMMA SpliceInvInit == SpliceInit => SpliceInv
  <1> SUFFICES ASSUME SpliceInit PROVE SpliceInv
    OBVIOUS
  <1>1. /\ fields = <<>> /\ stage = "fields" /\ table = [pk |-> 0, cols |-> <<>>]
        /\ seen = [cols |-> {}, gql |-> {}]
    BY DEF SpliceInit, Init
  <1>2. fields \in Seq(Field) /\ DOMAIN fields = {} /\ table.cols \in Seq(Nat) /\ DOMAIN table.cols = {}
    BY <1>1, EmptySeq
  <1>3. SpliceTypes
    BY <1>1, <1>2 DEF SpliceTypes, FieldStages
  <1>4. Kept /\ Met
    BY <1>1, <1>2 DEF Kept, Met, Describable, KeyAt, ColsAt
  <1>5. Filled
    BY <1>1 DEF Filled, Dropping, Adding
  <1> QED  BY <1>1, <1>3, <1>4, <1>5 DEF SpliceInv, Verdict, Inputs, FileStages

(* Before there is a file nothing is said of one.                          *)
LEMMA NoFileYet ==
    ASSUME stage' \in FieldStages \union {"read"}, SpliceTypes', Verdict', Inputs'
    PROVE  SpliceInv'
  BY DEF SpliceInv, Filled, Dropping, Adding, FieldStages, FileStages

LEMMA LookKeeps == ASSUME SpliceInv, Look PROVE SpliceInv'
  <1>1. PICK f \in Field :
           /\ fields' = Append(fields, f)
           /\ IF Refused(f) THEN stage' = "refused" /\ UNCHANGED <<table, seen>>
              ELSE /\ seen' = [cols |-> seen.cols \union {Column(f)},
                               gql  |-> seen.gql \union {LowerFirst(f.name)}]
                   /\ IF ~f.pk
                      THEN /\ table' = [table EXCEPT !.cols = Append(@, Len(fields'))]
                           /\ UNCHANGED stage
                      ELSE IF GoodKey(f)
                      THEN table' = [table EXCEPT !.pk = Len(fields')] /\ UNCHANGED stage
                      ELSE stage' = "refused" /\ UNCHANGED table
    BY DEF Look
  <1>2. SpliceTypes /\ Kept /\ Met /\ stage = "fields" /\ fields \in Seq(Field)
    BY DEF SpliceInv, SpliceTypes, Verdict, Look
  <1> DEFINE n == Len(fields)
  <1>3. /\ fields' \in Seq(Field) /\ n \in Nat /\ Len(fields') = n + 1
        /\ DOMAIN fields = 1..n /\ DOMAIN fields' = 1..(n + 1)
        /\ fields'[n + 1] = f /\ \A i \in 1..n : fields'[i] = fields[i]
    BY <1>1, <1>2, Appended
  <1>4. Describable(fields') <=>
           /\ Allowed(f) /\ (f.pk => f.kind = "scalar")
           /\ \A i \in 1..n : /\ ~(fields[i].pk /\ f.pk)
                              /\ Column(fields[i]) # Column(f)
                              /\ LowerFirst(fields[i].name) # LowerFirst(f.name)
    BY <1>1, <1>2, <1>3, OneMoreField DEF Kept
  <1>5. Refused(f) <=>
           \/ ~Allowed(f)
           \/ \E i \in 1..n : Column(fields[i]) = Column(f) \/ LowerFirst(fields[i].name) = LowerFirst(f.name)
    BY <1>2, <1>3 DEF Refused, Met
  <1>6. /\ table \in [pk : Nat, cols : Seq(Nat)] /\ f.kind \in Kinds /\ f.pk \in BOOLEAN
        /\ table.pk # 0 => table.pk \in 1..n
        /\ \A i \in 1..n : fields[i].pk <=> i = table.pk
        /\ \A i \in 1..n : fields[i].pk \/ \E k \in DOMAIN table.cols : table.cols[k] = i
        /\ \A k \in DOMAIN table.cols : table.cols[k] \in 1..n /\ ~fields[table.cols[k]].pk
    BY <1>2, <1>3 DEF SpliceTypes, Field, Kept, KeyAt, ColsAt
  <1> HIDE DEF n
  <1>7. CASE stage' = "refused" /\ UNCHANGED table
    <2>1. Refused(f) => ~Describable(fields')
      BY <1>4, <1>5
    <2>2. f.pk /\ ~GoodKey(f) => ~Describable(fields')
      BY <1>4, <1>6 DEF GoodKey
    <2>3. ~Describable(fields')
      BY <1>1, <1>2, <1>7, <2>1, <2>2
    <2>4. Describable(Front(fields'))
      BY <1>1, <1>2, FrontAppend DEF Kept
    <2> QED  BY <1>3, <1>6, <1>7, <2>3, <2>4, NoFileYet DEF SpliceTypes, FieldStages, Verdict, Inputs
  <1>8. CASE ~Refused(f) /\ stage' = "fields"
    <2>1. Met'
      <3>1. seen' = [cols |-> seen.cols \union {Column(f)}, gql |-> seen.gql \union {LowerFirst(f.name)}]
        BY <1>1, <1>8
      <3>2. {Column(fields'[i]) : i \in 1..(n + 1)} = {Column(fields[i]) : i \in 1..n} \union {Column(f)}
        BY <1>3
      <3>3. {LowerFirst(fields'[i].name) : i \in 1..(n + 1)}
               = {LowerFirst(fields[i].name) : i \in 1..n} \union {LowerFirst(f.name)}
        BY <1>3
      <3> QED  BY <1>2, <1>3, <3>1, <3>2, <3>3 DEF Met
    <2>2. CASE ~f.pk
      <3>1. table' = [table EXCEPT !.cols = Append(table.cols, n + 1)]
        BY <1>1, <1>3, <1>8, <2>2
      <3>2. /\ table'.pk = table.pk /\ table'.cols = Append(table.cols, n + 1) /\ n + 1 \in Nat
            /\ table' \in [pk : Nat, cols : Seq(Nat)]
        <4>1. table.cols \in Seq(Nat) /\ n + 1 \in Nat
          BY <1>3, <1>6
        <4>2. Append(table.cols, n + 1) \in Seq(Nat)
          BY <4>1, Appended
        <4>3. table'.pk = table.pk /\ table'.cols = Append(table.cols, n + 1)
          BY <1>6, <3>1
        <4>4. table' = [pk |-> table.pk, cols |-> Append(table.cols, n + 1)]
          BY <1>6, <3>1
        <4> QED  BY <1>6, <4>1, <4>2, <4>3, <4>4
      <3>3. /\ DOMAIN table'.cols = DOMAIN table.cols \union {Len(table.cols) + 1}
            /\ table'.cols[Len(table.cols) + 1] = n + 1
            /\ \A k \in DOMAIN table.cols : table'.cols[k] = table.cols[k]
        BY <1>6, <3>2, Appended
      <3>4. Describable(fields')
        BY <1>4, <1>5, <1>8, <2>2
      <3>5. KeyAt'
        <4>1. \A i \in 1..(n + 1) : i \in 1..n \/ i = n + 1
          BY <1>3
        <4>2. ~fields'[n + 1].pk /\ n + 1 # table.pk
          BY <1>3, <1>6, <2>2
        <4>3. \A i \in 1..(n + 1) : fields'[i].pk <=> i = table.pk
          BY <1>3, <1>6, <4>1, <4>2
        <4>4. table.pk # 0 => table.pk \in 1..(n + 1)
          BY <1>3, <1>6
        <4> QED  BY <1>3, <3>2, <4>3, <4>4 DEF KeyAt
      <3>6. ColsAt'
        <4> DEFINE l == Len(table.cols) + 1
        <4>1. \A i \in 1..(n + 1) : i \in 1..n \/ i = n + 1
          BY <1>3
        <4>2. DOMAIN table'.cols = DOMAIN table.cols \union {l} /\ table'.cols[l] = n + 1
          BY <3>3
        <4> HIDE DEF l
        <4>3. \A i \in 1..(n + 1) : fields'[i].pk \/ \E k \in DOMAIN table'.cols : table'.cols[k] = i
          BY <1>3, <1>6, <3>3, <4>1, <4>2
        <4>4. \A k \in DOMAIN table.cols : table.cols[k] \in 1..(n + 1) /\ ~fields'[table.cols[k]].pk
          BY <1>3, <1>6
        <4>5. n + 1 \in 1..(n + 1) /\ ~fields'[n + 1].pk
          BY <1>3, <2>2
        <4>6. \A k \in DOMAIN table'.cols : table'.cols[k] \in 1..(n + 1) /\ ~fields'[table'.cols[k]].pk
          BY <3>3, <4>2, <4>4, <4>5
        <4> QED  BY <1>3, <4>3, <4>6 DEF ColsAt
      <3> QED  BY <1>3, <1>8, <2>1, <3>2, <3>4, <3>5, <3>6, NoFileYet
               DEF SpliceTypes, FieldStages, Verdict, Inputs, Kept
    <2>3. CASE f.pk /\ GoodKey(f)
      <3>1. table' = [table EXCEPT !.pk = n + 1]
        BY <1>1, <1>3, <1>8, <2>3
      <3>2. table'.pk = n + 1 /\ table'.cols = table.cols /\ table' \in [pk : Nat, cols : Seq(Nat)]
        <4>1. table' = [pk |-> n + 1, cols |-> table.cols]
          BY <1>6, <3>1
        <4> QED  BY <1>3, <1>6, <4>1
      <3>3. Describable(fields')
        <4>1. f.kind = "scalar"
          BY <1>5, <1>6, <1>8, <2>3, FieldConstants DEF GoodKey, Allowed
        <4> QED  BY <1>4, <1>5, <1>6, <1>8, <2>3, <4>1 DEF GoodKey
      <3>4. KeyAt'
        <4>1. \A i \in 1..(n + 1) : i \in 1..n \/ i = n + 1
          BY <1>3
        <4>2. \A i \in 1..n : ~fields[i].pk /\ i # n + 1
          BY <1>3, <1>6, <2>3 DEF GoodKey
        <4>3. \A i \in 1..(n + 1) : fields'[i].pk <=> i = n + 1
          BY <1>3, <2>3, <4>1, <4>2
        <4>4. n + 1 \in 1..(n + 1)
          BY <1>3
        <4> QED  BY <1>3, <3>2, <4>3, <4>4 DEF KeyAt
      <3>5. ColsAt'
        <4>1. \A i \in 1..(n + 1) : fields'[i].pk \/ \E k \in DOMAIN table.cols : table.cols[k] = i
          BY <1>3, <1>6, <2>3
        <4>2. \A k \in DOMAIN table.cols : table.cols[k] \in 1..(n + 1) /\ ~fields'[table.cols[k]].pk
          BY <1>3, <1>6
        <4> QED  BY <1>3, <3>2, <4>1, <4>2 DEF ColsAt
      <3> QED  BY <1>3, <1>8, <2>1, <3>2, <3>3, <3>4, <3>5, NoFileYet
               DEF SpliceTypes, FieldStages, Verdict, Inputs, Kept
    <2> QED  BY <1>1, <1>8, <2>2, <2>3
  <1> QED  BY <1>1, <1>2, <1>7, <1>8

LEMMA EndFieldsKeeps == ASSUME SpliceInv, EndFields PROVE SpliceInv'
  <1>1. /\ UNCHANGED <<fields, table, seen, input, source>>
        /\ stage' = IF table.pk = 0 \/ table.cols = <<>> THEN "incomplete" ELSE "generate"
        /\ SpliceTypes /\ Kept
    BY DEF EndFields, SpliceInv, Verdict
  <1>2. Whole(fields) <=> ~(table.pk = 0 \/ table.cols = <<>>)
    <2>1. fields \in Seq(Field) /\ table.cols \in Seq(Nat) /\ DOMAIN fields = 1..Len(fields)
      BY <1>1, LenProperties DEF SpliceTypes
    <2>2. table.cols = <<>> <=> DOMAIN table.cols = {}
      <3> DEFINE cols == table.cols
      <3>1. cols \in Seq(Nat) /\ DOMAIN cols = 1..Len(cols) /\ Len(cols) \in Nat
        BY <2>1, LenProperties
      <3> HIDE DEF cols
      <3>2. cols = <<>> <=> Len(cols) = 0
        BY <3>1, EmptySeq
      <3>3. DOMAIN cols = {} <=> Len(cols) = 0
        <4>1. Len(cols) # 0 => 1 \in 1..Len(cols)
          BY <3>1
        <4> QED  BY <3>1, <4>1
      <3> QED  BY <3>2, <3>3 DEF cols
    <2> QED  BY <1>1, <2>1, <2>2 DEF Whole, Kept, KeyAt, ColsAt
  <1>3. SpliceTypes' /\ Kept'
    BY <1>1 DEF SpliceTypes, FieldStages, Kept, KeyAt, ColsAt
  <1>4. stage' = "incomplete" => Describable(fields') /\ ~Whole(fields')
    BY <1>1, <1>2 DEF Kept
  <1>5. stage' = "generate" => Whole(fields')
    BY <1>1, <1>2
  <1> QED  BY <1>1, <1>3, <1>4, <1>5, NoFileYet DEF Verdict, Inputs, FieldStages

(* The name of a column is one that was allowed.                           *)
LEMMA NamesTyped ==
    ASSUME SpliceTypes, Kept, NEW i \in DOMAIN table.cols
    PROVE  NameAt(i) \in Seq(STRING) /\ NameAt(i) # <<>>
  <1>1. table.cols[i] \in DOMAIN fields
    BY DEF Kept, ColsAt
  <1>2. fields[table.cols[i]] \in Field
    BY <1>1, ElementOfSeq, LenProperties DEF SpliceTypes
  <1>3. CheckIdent(NameAt(i))
    BY <1>1 DEF Kept, Describable, Allowed, NameAt
  <1> QED  BY <1>2, <1>3, FieldConstants DEF Field, NameAt, CheckIdent

LEMMA GqlgenKeeps == ASSUME SpliceInv, Gqlgen PROVE SpliceInv'
  <1>1. /\ UNCHANGED <<fields, table, seen, source>> /\ stage = "generate" /\ stage' = "patch"
        /\ SpliceTypes /\ Kept /\ Whole(fields)
    BY DEF Gqlgen, SpliceInv, Verdict
  <1>2. /\ input' = [i \in DOMAIN table.cols |-> input'[i]] /\ DOMAIN input' = DOMAIN table.cols
        /\ \A i \in DOMAIN table.cols : input'[i] \in Recased(LowerFirst(NameAt(i)))
    BY DEF Gqlgen, NameAt
  <1>3. \A i \in DOMAIN table.cols : ToLower(input'[i]) = ToLower(NameAt(i))
    BY <1>1, <1>2, NamesTyped, RecasedLow
  <1>4. SpliceTypes' /\ Kept' /\ Whole(fields)'
    BY <1>1 DEF SpliceTypes, FieldStages, Kept, KeyAt, ColsAt
  <1>5. Made'
    BY <1>1, <1>2, <1>3 DEF Made, NameAt
  <1> QED  BY <1>1, <1>4, <1>5, NoFileYet DEF Verdict, Inputs, FieldStages

LEMMA PatchKeeps == ASSUME SpliceInv, Patch PROVE SpliceInv'
  <1>1. /\ UNCHANGED <<fields, table, seen, input>> /\ stage = "patch" /\ stage' = "done"
        /\ SpliceTypes /\ Kept /\ Whole(fields) /\ Made
        /\ source' = [i \in DOMAIN table.cols |-> InputField(NameAt(i))]
    BY DEF Patch, SpliceInv, Verdict, Inputs, NameAt
  <1>2. SpliceTypes' /\ Kept' /\ Whole(fields)' /\ Made'
    BY <1>1 DEF SpliceTypes, FieldStages, Kept, KeyAt, ColsAt, Made, NameAt
  <1>3. source' = [i \in DOMAIN table.cols |-> InputField(NameAt(i))]'
    BY <1>1 DEF InputField, InputFieldNames, NameAt
  <1> QED  BY <1>1, <1>2, <1>3, NoFileYet DEF Verdict, Inputs, FieldStages

(* The map by lower-cased name gives an input field of that name.          *)
LEMMA ReadBack ==
    ASSUME SpliceTypes, Kept, Made, NEW i \in DOMAIN input
    PROVE  \E j \in DOMAIN input : /\ InputField(NameAt(i)) = input[j]
                                   /\ ToLower(input[j]) = ToLower(input[i])
  <1> DEFINE low == ToLower(input[i])
             S   == {j \in DOMAIN input : ToLower(input[j]) = low}
             last(j) == /\ ToLower(input[j]) = low
                        /\ \A k \in DOMAIN input : k > j => ToLower(input[k]) # low
  <1>1. ToLower(NameAt(i)) = low /\ low \in DOMAIN InputFieldNames
    BY DEF Made, InputFieldNames
  <1>2. InputField(NameAt(i)) = input[CHOOSE j \in DOMAIN input : last(j)]
    BY <1>1 DEF InputField, InputFieldNames
  <1>3. DOMAIN input = 1..Len(table.cols) /\ Len(table.cols) \in Nat
    BY LenProperties DEF Made, SpliceTypes
  <1>4. S \in SUBSET (1..Len(table.cols)) /\ S # {}
    BY <1>3
  <1>5. PICK m \in S : \A j \in S : j <= m
    BY <1>3, <1>4, Greatest
  <1>6. m \in DOMAIN input /\ last(m)
    BY <1>3, <1>5
  <1> HIDE DEF last
  <1>7. PICK j \in DOMAIN input : j = (CHOOSE k \in DOMAIN input : last(k)) /\ last(j)
    BY <1>6
  <1> QED  BY <1>2, <1>7 DEF last

(* For every set of names and columns, and tables of any length.           *)
LEMMA VerdictFollows == SpliceInv => VerdictExact
  BY DEF SpliceInv, Verdict, Kept, VerdictExact

(* And every column is filled from an input field that is there, the one   *)
(* made of it where no two are alike but for case.                         *)
LEMMA ReadsFollows == SpliceInv => ReadsWhatIsThere
  <1> SUFFICES ASSUME SpliceInv, stage = "done" PROVE ReadsWhatIsThere
    BY DEF ReadsWhatIsThere
  <1>1. SpliceTypes /\ Kept /\ Made /\ source = [i \in DOMAIN table.cols |-> InputField(NameAt(i))]
    BY DEF SpliceInv, Verdict, Inputs
  <1>2. DOMAIN source = DOMAIN input /\ \A i \in DOMAIN input : source[i] = InputField(NameAt(i))
    BY <1>1 DEF Made
  <1>3. \A i \in DOMAIN input : \E j \in DOMAIN input :
           source[i] = input[j] /\ ToLower(input[j]) = ToLower(input[i])
    BY <1>1, <1>2, ReadBack
  <1>4. ToSet(source) \subseteq ToSet(input)
    BY <1>2, <1>3 DEF ToSet
  <1>5. ASSUME \A i, j \in DOMAIN input : i # j => ToLower(input[i]) # ToLower(input[j])
        PROVE  source = input
    <2>1. \A i \in DOMAIN input : source[i] = input[i]
      BY <1>3, <1>5
    <2>2. source = [i \in DOMAIN source |-> source[i]] /\ input = [i \in DOMAIN input |-> input[i]]
      <3>1. DOMAIN input = DOMAIN table.cols
        BY <1>1 DEF Made
      <3> QED  BY <1>1, <3>1 DEF Made
    <2> QED  BY <1>2, <2>1, <2>2
  <1> QED  BY <1>4, <1>5 DEF ReadsWhatIsThere

-----------------------------------------------------------------------------
(* The file.  What is needed, and what is left when an entry is removed.   *)
LEMMA NeedsAre ==
    /\ Len(Needs) = 3 /\ ToSet(Needs) = {Needs[k] : k \in 1..3}
    /\ \A k \in 1..3 : Needed(k) \in Specs /\ Binds(Needed(k)) = Needs[k].pkg
    /\ \A k, l \in 1..3 : Needs[k].pkg = Needs[l].pkg => k = l
    /\ \A m \in Methods : Body(m) \subseteq {Needs[k].pkg : k \in 1..3}
  <1>1. /\ Len(Needs) = 3 /\ DOMAIN Needs = 1..3
        /\ Needs[1] = Fmt /\ Needs[2] = Luima /\ Needs[3] = Bun
    BY DEF Needs
  <1>2. \A k \in 1..3 : k = 1 \/ k = 2 \/ k = 3
    OBVIOUS
  <1>3. Needs[1].pkg = "fmt" /\ Needs[2].pkg = "luima" /\ Needs[3].pkg = "bun"
    BY <1>1 DEF Fmt, Luima, Bun
  <1>4. \A k \in 1..3 : Needs[k] \in Paths
    BY <1>1, <1>2, SpliceConstants
  <1>5. \A k \in 1..3 : Needed(k) \in Specs /\ Binds(Needed(k)) = Needs[k].pkg
    BY <1>4, SpliceConstants DEF Needed, Specs, Binds
  <1>6. \A k, l \in 1..3 : Needs[k].pkg = Needs[l].pkg => k = l
    BY <1>2, <1>3
  <1>7. \A m \in Methods : Body(m) \subseteq {"fmt", "luima", "bun"}
    BY DEF Body
  <1>8. {"fmt", "luima", "bun"} \subseteq {Needs[k].pkg : k \in 1..3}
    BY <1>3
  <1> QED  BY <1>1, <1>5, <1>6, <1>7, <1>8 DEF ToSet

LEMMA Removed ==
    ASSUME NEW S, NEW s \in Seq(S), NEW i \in 1..Len(s)
    PROVE  /\ RemoveAt(s, i) \in Seq(S) /\ Len(s) \in Nat
           /\ DOMAIN s = 1..Len(s) /\ DOMAIN RemoveAt(s, i) = 1..(Len(s) - 1)
           /\ Len(RemoveAt(s, i)) = Len(s) - 1
           /\ \A j \in 1..(Len(s) - 1) : RemoveAt(s, i)[j] = IF j < i THEN s[j] ELSE s[j + 1]
  <1> DEFINE a == SubSeq(s, 1, i - 1)
             b == SubSeq(s, i + 1, Len(s))
  <1>1. Len(s) \in Nat /\ DOMAIN s = 1..Len(s) /\ \A k \in 1..Len(s) : s[k] \in S
    BY LenProperties, ElementOfSeq
  <1>2. a \in Seq(S) /\ Len(a) = i - 1 /\ \A k \in 1..(i - 1) : a[k] = s[k]
    <2>1. \A k \in 1..(i - 1) : s[k] \in S
      BY <1>1
    <2> QED  BY <1>1, <2>1, SubSeqProperties
  <1>3. b \in Seq(S) /\ Len(b) = Len(s) - i /\ \A k \in 1..(Len(s) - i) : b[k] = s[i + k]
    <2> DEFINE m == i + 1
    <2>1. m \in Int /\ Len(s) \in Int /\ \A k \in m..Len(s) : s[k] \in S
      BY <1>1
    <2>2. b = SubSeq(s, m, Len(s)) /\ m = i + 1
      OBVIOUS
    <2> HIDE DEF b, m
    <2>3. /\ b \in Seq(S) /\ Len(b) = IF m <= Len(s) THEN Len(s) - m + 1 ELSE 0
          /\ \A k \in 1..(Len(s) - m + 1) : b[k] = s[m + k - 1]
      BY <2>1, <2>2, SubSeqProperties
    <2>4. Len(s) - m + 1 = Len(s) - i /\ \A k \in Nat : m + k - 1 = i + k
      BY <1>1 DEF m
    <2>5. Len(b) = Len(s) - i
      <3>1. CASE m <= Len(s)
        BY <2>3, <2>4, <3>1
      <3>2. CASE ~(m <= Len(s))
        <4>1. i = Len(s)
          <5> DEFINE l == Len(s)
          <5>1. l \in Nat /\ i \in Nat /\ i <= l /\ ~(i + 1 <= l)
            BY <1>1, <2>2, <3>2
          <5> HIDE DEF l
          <5>2. i = l
            BY <5>1
          <5> QED  BY <5>2 DEF l
        <4> QED  BY <1>1, <2>3, <3>2, <4>1
      <3> QED  BY <3>1, <3>2
    <2>6. ASSUME NEW k \in 1..(Len(s) - i) PROVE b[k] = s[i + k]
      <3>1. k \in 1..(Len(s) - m + 1) /\ m + k - 1 = i + k
        BY <2>4
      <3> QED  BY <2>3, <3>1
    <2> QED  BY <2>3, <2>5, <2>6
  <1> HIDE DEF a, b
  <1> DEFINE r == a \o b
  <1>4. /\ r \in Seq(S) /\ Len(r) = Len(a) + Len(b)
        /\ \A k \in 1..(Len(a) + Len(b)) : r[k] = IF k <= Len(a) THEN a[k] ELSE b[k - Len(a)]
    BY <1>2, <1>3, ConcatProperties
  <1>5. RemoveAt(s, i) = r
    BY DEF RemoveAt, a, b
  <1> HIDE DEF r
  <1>6. DOMAIN r = 1..(Len(s) - 1)
    BY <1>1, <1>2, <1>3, <1>4, LenProperties
  <1>7. ASSUME NEW j \in 1..(Len(s) - 1) PROVE r[j] = IF j < i THEN s[j] ELSE s[j + 1]
    <2>0. j \in 1..(Len(a) + Len(b)) /\ Len(a) = i - 1
      BY <1>1, <1>2, <1>3
    <2>1. CASE j < i
      <3>1. j <= Len(a) /\ j \in 1..(i - 1)
        BY <1>1, <2>0, <2>1
      <3> QED  BY <1>2, <1>4, <2>0, <2>1, <3>1
    <2>2. CASE ~(j < i)
      <3> DEFINE k == j - Len(a)
      <3>1. ~(j <= Len(a)) /\ k \in 1..(Len(s) - i) /\ i + k = j + 1
        BY <1>1, <2>0, <2>2
      <3>2. r[j] = b[k]
        BY <1>4, <2>0, <3>1
      <3> HIDE DEF k
      <3> QED  BY <1>3, <2>2, <3>1, <3>2
    <2> QED  BY <2>1, <2>2
  <1>8. Len(r) = Len(s) - 1
    BY <1>1, <1>2, <1>3, <1>4
  <1> QED  BY <1>1, <1>4, <1>5, <1>6, <1>7, <1>8

(* With the file at hand nothing is said of the table.                     *)
LEMMA TableLetGo ==
    ASSUME SpliceTypes, UNCHANGED target, stage' \in FileStages
    PROVE  SpliceTypes' /\ Verdict' /\ Inputs'
  BY DEF SpliceTypes, target, FieldStages, FileStages, Verdict, Inputs

LEMMA FileKept ==
    ASSUME UNCHANGED <<pk, file, original>>
    PROVE  /\ Uses' = Uses /\ (FileRead => FileRead') /\ \A im : Dead(im)' <=> Dead(im)
  BY DEF Uses, Body, FileRead, OneEach, BoundBy, Dead

LEMMA LetGoKeeps == ASSUME SpliceInv, LetGo PROVE SpliceInv'
  <1>1. fields' = <<>> /\ table' = [pk |-> 0, cols |-> <<>>] /\ stage' = "read"
    BY DEF LetGo
  <1>2. fields' \in Seq(Field) /\ table' \in [pk : Nat, cols : Seq(Nat)]
    BY <1>1, EmptySeq
  <1> QED  BY <1>1, <1>2, NoFileYet DEF SpliceTypes, Verdict, Inputs, FileStages

LEMMA ReadFileKeeps == ASSUME SpliceInv, ReadFile PROVE SpliceInv'
  <1>1. PICK ims \in Blocks, stubs \in SUBSET Methods :
        \E calls \in IF stubs = {} THEN {{}} ELSE SUBSET FmtNames(ims) :
        \E both \in SUBSET calls :
           /\ original' = ims /\ imports' = ims
           /\ file' = [stubs |-> stubs, calls |-> calls, rest |-> (BoundBy(ims) \ calls) \union both]
    BY DEF ReadFile
  <1>a. PICK calls \in SUBSET FmtNames(ims) : \E both \in SUBSET calls :
           /\ original' = ims /\ imports' = ims
           /\ file' = [stubs |-> stubs, calls |-> calls, rest |-> (BoundBy(ims) \ calls) \union both]
    <2>1. PICK calls \in IF stubs = {} THEN {{}} ELSE SUBSET FmtNames(ims) :
          \E both \in SUBSET calls :
             /\ original' = ims /\ imports' = ims
             /\ file' = [stubs |-> stubs, calls |-> calls, rest |-> (BoundBy(ims) \ calls) \union both]
      BY <1>1
    <2>2. calls \in SUBSET FmtNames(ims)
      BY <2>1
    <2> QED  BY <2>1, <2>2
  <1>b. PICK both \in SUBSET calls :
           /\ original' = ims /\ imports' = ims
           /\ file' = [stubs |-> stubs, calls |-> calls, rest |-> (BoundBy(ims) \ calls) \union both]
    BY <1>a
  <1>2. /\ original' = ims /\ imports' = ims /\ file'.stubs = stubs
        /\ file'.rest = (BoundBy(ims) \ calls) \union both
    BY <1>b
  <1>3. ims \in Seq(Specs) /\ OneEach(ims)
    <2>1. PICK m \in 0..MaxImports : ims \in [1..m -> Specs]
      BY DEF Blocks, SeqOf
    <2>2. m \in Nat
      BY <2>1, SpliceConstants
    <2> QED  BY <2>1, <2>2, SeqDef DEF Blocks, OneEach
  <1>4. FmtNames(ims) \subseteq BoundBy(ims)
    BY DEF FmtNames, BoundBy
  <1>5. ASSUME NEW i \in DOMAIN ims, Binds(ims[i]) \notin file'.rest PROVE ims[i].path = Fmt
    <2>1. Binds(ims[i]) \in FmtNames(ims)
      BY <1>2, <1>5 DEF BoundBy
    <2>2. PICK k \in DOMAIN ims : ims[k].path = Fmt /\ Binds(ims[k]) = Binds(ims[i])
      BY <2>1 DEF FmtNames
    <2> QED  BY <1>3, <2>2 DEF OneEach
  <1>6. FileRead'
    BY <1>2, <1>3, <1>4, <1>5 DEF FileRead
  <1>7. stage' = "splice" /\ UNCHANGED target /\ imports' = original'
    BY <1>2 DEF ReadFile
  <1>8. SpliceTypes' /\ Verdict' /\ Inputs'
    BY <1>7, TableLetGo DEF SpliceInv, FileStages
  <1> QED  BY <1>6, <1>7, <1>8 DEF SpliceInv, Filled, Dropping, Adding

LEMMA FillStubsKeeps == ASSUME SpliceInv, FillStubs PROVE SpliceInv'
  <1>1. /\ UNCHANGED <<target, pk, file, original, imports>> /\ UNCHANGED target
        /\ UNCHANGED <<pk, file, original>> /\ stage = "splice" /\ stage' \in {"unchanged", "drop"}
        /\ stage' = "drop" => idents' = Spliced /\ at' = Len(imports)
    BY DEF FillStubs
  <1>2. FileRead /\ imports = original /\ SpliceTypes
    BY <1>1 DEF SpliceInv, FileStages
  <1>3. SpliceTypes' /\ Verdict' /\ Inputs' /\ FileRead' /\ Uses' = Uses
    BY <1>1, <1>2, TableLetGo, FileKept DEF FileStages
  <1>4. Spliced = Uses
    BY DEF Spliced, Uses
  <1>5. Block' /\ NoneLost'
    BY <1>1, <1>2 DEF FileRead, Block, OneEach, NoneLost, ToSet
  <1>6. Len(imports) \in Nat /\ DOMAIN imports = 1..Len(imports)
    BY <1>2, LenProperties DEF FileRead
  <1>7. stage' = "drop" => at' \in 0..Len(imports') /\ \A i \in DOMAIN imports' : ~(i > at')
    BY <1>1, <1>6
  <1>8. Dropping'
    BY <1>1, <1>2, <1>7 DEF Dropping, ToSet
  <1> QED  BY <1>1, <1>3, <1>4, <1>5, <1>8 DEF SpliceInv, Filled, Adding

LEMMA DropKeeps == ASSUME SpliceInv, Drop PROVE SpliceInv'
  <1>1. /\ UNCHANGED target /\ UNCHANGED <<pk, file, original>> /\ stage = "drop" /\ stage' = "drop"
        /\ idents' = idents /\ original' = original /\ at > 0 /\ at' = at - 1
    BY DEF Drop, Before
  <1>2. /\ FileRead /\ SpliceTypes /\ idents = Uses /\ Block /\ NoneLost /\ at \in 1..Len(imports)
        /\ \A i \in DOMAIN imports : imports[i] \in ToSet(original)
        /\ \A i \in DOMAIN imports : i > at => ~Dead(imports[i])
    BY <1>1 DEF SpliceInv, FileStages, Filled, Dropping
  <1>3. SpliceTypes' /\ Verdict' /\ Inputs' /\ FileRead' /\ Uses' = Uses /\ \A im : Dead(im)' <=> Dead(im)
    BY <1>1, <1>2, TableLetGo, FileKept DEF FileStages
  <1>4. Len(imports) \in Nat /\ DOMAIN imports = 1..Len(imports) /\ imports \in Seq(Specs)
    BY <1>2, LenProperties DEF Block
  <1>5. imports' = IF Dead(imports[at]) THEN RemoveAt(imports, at) ELSE imports
    <2>1. imports[at].path = Fmt => FmtName(imports[at]) = Binds(imports[at])
      BY DEF FmtName, Binds, Fmt
    <2> QED  BY <1>2, <2>1 DEF Drop, Dead
  <1>6. CASE ~Dead(imports[at])
    <2>1. imports' = imports
      BY <1>5, <1>6
    <2>2. \A i \in DOMAIN imports : i > at - 1 => ~Dead(imports[i])
      BY <1>2, <1>4, <1>6
    <2>3. Dropping'
      BY <1>1, <1>2, <1>3, <1>4, <2>1, <2>2 DEF Dropping
    <2>4. Block' /\ NoneLost'
      BY <1>1, <1>2, <1>3, <2>1 DEF Block, OneEach, NoneLost
    <2> QED  BY <1>1, <1>2, <1>3, <2>3, <2>4 DEF SpliceInv, Filled, Adding
  <1>7. CASE Dead(imports[at])
    <2> DEFINE n == Len(imports)
    <2>1. /\ imports' \in Seq(Specs) /\ DOMAIN imports' = 1..(n - 1) /\ Len(imports') = n - 1
          /\ \A j \in 1..(n - 1) : imports'[j] = IF j < at THEN imports[j] ELSE imports[j + 1]
      <3>1. imports' = RemoveAt(imports, at)
        BY <1>5, <1>7
      <3>2. /\ RemoveAt(imports, at) \in Seq(Specs) /\ DOMAIN RemoveAt(imports, at) = 1..(n - 1)
            /\ Len(RemoveAt(imports, at)) = n - 1
            /\ \A j \in 1..(n - 1) : RemoveAt(imports, at)[j] = IF j < at THEN imports[j] ELSE imports[j + 1]
        BY <1>2, <1>4, Removed
      <3> HIDE DEF n
      <3> QED  BY <3>1, <3>2
    <2> HIDE DEF n
    <2>2. n \in Nat /\ DOMAIN imports = 1..n /\ at \in 1..n
      BY <1>2, <1>4 DEF n
    <2>3. \A j \in 1..(n - 1) : \E k \in 1..n : /\ imports'[j] = imports[k]
                                                /\ k = IF j < at THEN j ELSE j + 1
      BY <2>1, <2>2
    <2>4. \A k \in 1..n : k # at => \E j \in 1..(n - 1) : imports'[j] = imports[k]
      <3> SUFFICES ASSUME NEW k \in 1..n, k # at PROVE \E j \in 1..(n - 1) : imports'[j] = imports[k]
        OBVIOUS
      <3>1. CASE k < at
        BY <2>1, <2>2, <3>1
      <3>2. CASE k > at
        <4>1. k - 1 \in 1..(n - 1) /\ ~(k - 1 < at) /\ (k - 1) + 1 = k
          BY <2>2, <3>2
        <4> QED  BY <2>1, <4>1
      <3> QED  BY <2>2, <3>1, <3>2
    <2>5. OneEach(imports')
      <3> SUFFICES ASSUME NEW i \in 1..(n - 1), NEW j \in 1..(n - 1), i # j
                   PROVE  Binds(imports'[i]) # Binds(imports'[j])
        BY <2>1 DEF OneEach
      <3>1. PICK k \in 1..n : imports'[i] = imports[k] /\ k = IF i < at THEN i ELSE i + 1
        BY <2>3
      <3>2. PICK l \in 1..n : imports'[j] = imports[l] /\ l = IF j < at THEN j ELSE j + 1
        BY <2>3
      <3>3. k # l
        BY <2>2, <3>1, <3>2
      <3> QED  BY <1>2, <2>2, <3>1, <3>2, <3>3 DEF Block, OneEach
    <2>6. Block'
      BY <2>1, <2>5 DEF Block, OneEach
    <2>7. NoneLost'
      <3>1. \A im \in ToSet(imports) : im \in ToSet(imports') \/ Dead(im)
        <4> SUFFICES ASSUME NEW k \in 1..n PROVE imports[k] \in ToSet(imports') \/ Dead(imports[k])
          BY <2>2 DEF ToSet
        <4>1. CASE k = at
          BY <1>7, <4>1
        <4>2. CASE k # at
          <5>1. PICK j \in 1..(n - 1) : imports'[j] = imports[k]
            BY <2>4, <4>2
          <5> QED  BY <2>1, <5>1 DEF ToSet
        <4> QED  BY <4>1, <4>2
      <3> QED  BY <1>1, <1>2, <1>3, <3>1 DEF NoneLost
    <2>8. Dropping'
      <3>1. \A j \in 1..(n - 1) : imports'[j] \in ToSet(original)
        BY <1>2, <2>2, <2>3
      <3>2. \A j \in 1..(n - 1) : j > at - 1 => ~Dead(imports'[j])
        <4> SUFFICES ASSUME NEW j \in 1..(n - 1), j > at - 1 PROVE ~Dead(imports'[j])
          OBVIOUS
        <4>1. imports'[j] = imports[j + 1] /\ j + 1 \in 1..n /\ j + 1 > at
          BY <2>1, <2>2
        <4> QED  BY <1>2, <2>2, <4>1
      <3>3. at - 1 \in 0..(n - 1)
        BY <2>2
      <3> QED  BY <1>1, <1>3, <2>1, <3>1, <3>2, <3>3 DEF Dropping
    <2> QED  BY <1>1, <1>2, <1>3, <2>6, <2>7, <2>8 DEF SpliceInv, Filled, Adding
  <1> QED  BY <1>6, <1>7

LEMMA StartAddingKeeps == ASSUME SpliceInv, StartAdding PROVE SpliceInv'
  <1>1. /\ UNCHANGED target /\ UNCHANGED <<pk, file, original>> /\ stage = "drop" /\ stage' = "add"
        /\ idents' = idents /\ original' = original /\ imports' = imports /\ at = 0 /\ at' = 1
    BY DEF StartAdding
  <1>2. /\ FileRead /\ SpliceTypes /\ idents = Uses /\ Block /\ NoneLost
        /\ \A i \in DOMAIN imports : imports[i] \in ToSet(original)
        /\ \A i \in DOMAIN imports : i > at => ~Dead(imports[i])
    BY <1>1 DEF SpliceInv, FileStages, Filled, Dropping
  <1>3. SpliceTypes' /\ Verdict' /\ Inputs' /\ FileRead' /\ Uses' = Uses /\ \A im : Dead(im)' <=> Dead(im)
    BY <1>1, <1>2, TableLetGo, FileKept DEF FileStages
  <1>4. \A i \in DOMAIN imports : ~Dead(imports[i])
    <2>1. DOMAIN imports = 1..Len(imports)
      BY <1>2, LenProperties DEF Block
    <2> QED  BY <1>1, <1>2, <2>1
  <1>5. Block' /\ NoneLost'
    BY <1>1, <1>2, <1>3 DEF Block, OneEach, NoneLost
  <1>6. Adding'
    <2>1. \A i \in DOMAIN imports : ~Dead(imports[i]) /\ imports[i] \in ToSet(original)
      BY <1>2, <1>4
    <2>2. \A k \in 1..3 : ~(k < at')
      BY <1>1
    <2>3. at' \in 1..4
      BY <1>1
    <2> QED  BY <1>1, <1>3, <2>1, <2>2, <2>3 DEF Adding
  <1> QED  BY <1>1, <1>2, <1>3, <1>5, <1>6 DEF SpliceInv, Filled, Dropping

(* What has been added so far, and what still stands of the file.          *)
LEMMA AddingIs ==
    ASSUME SpliceInv, stage = "add"
    PROVE  /\ FileRead /\ SpliceTypes /\ idents = Uses /\ Block /\ NoneLost /\ at \in 1..4
           /\ DOMAIN imports = 1..Len(imports) /\ Len(imports) \in Nat
           /\ \A i \in DOMAIN imports : ~Dead(imports[i])
           /\ \A i \in DOMAIN imports :
                 \/ imports[i] \in ToSet(original)
                 \/ \E k \in 1..3 : k < at /\ imports[i] = Needed(k) /\ Needs[k].pkg \in Uses
           /\ \A k \in 1..3 : k < at /\ Needs[k].pkg \in Uses => Needed(k) \in ToSet(imports)
  <1>1. /\ FileRead /\ SpliceTypes /\ idents = Uses /\ Block /\ NoneLost /\ Adding
    BY DEF SpliceInv, FileStages, Filled
  <1> QED  BY <1>1, LenProperties DEF Adding, Block

(* An unnamed import of a path is the entry that is needed.                *)
LEMMA UnnamedIs ==
    ASSUME imports \in Seq(Specs), NEW k \in 1..3
    PROVE  HasUnaliasedImport(imports, Needs[k]) <=> Needed(k) \in ToSet(imports)
  <1>1. \A i \in DOMAIN imports : imports[i] \in Specs
    BY LenProperties, ElementOfSeq
  <1>2. \A im \in Specs : im = Needed(k) <=> im.path = Needs[k] /\ im.name = Unnamed
    BY DEF Specs, Needed
  <1> QED  BY <1>1, <1>2 DEF HasUnaliasedImport, ToSet

LEMMA AddKeeps == ASSUME SpliceInv, Add PROVE SpliceInv'
  <1>1. /\ UNCHANGED target /\ UNCHANGED <<pk, file, original>> /\ stage = "add" /\ at <= 3
        /\ idents' = idents /\ original' = original
        /\ IF HasUnaliasedImport(imports, Needs[at]) \/ Needs[at].pkg \notin idents
           THEN at' = at + 1 /\ UNCHANGED <<imports, stage>>
           ELSE IF Bound(imports, Needs[at].pkg)
           THEN stage' = "conflict" /\ UNCHANGED <<imports, at>>
           ELSE /\ imports' = Append(imports, Needed(at))
                /\ at' = at + 1 /\ UNCHANGED stage
    BY NeedsAre DEF Add, Used, Needed
  <1>2. /\ FileRead /\ SpliceTypes /\ idents = Uses /\ Block /\ NoneLost /\ at \in 1..4
        /\ DOMAIN imports = 1..Len(imports) /\ Len(imports) \in Nat
        /\ \A i \in DOMAIN imports : ~Dead(imports[i])
        /\ \A i \in DOMAIN imports :
              \/ imports[i] \in ToSet(original)
              \/ \E k \in 1..3 : k < at /\ imports[i] = Needed(k) /\ Needs[k].pkg \in Uses
        /\ \A k \in 1..3 : k < at /\ Needs[k].pkg \in Uses => Needed(k) \in ToSet(imports)
    BY <1>1, AddingIs
  <1>3. stage' \in {"add", "conflict"} /\ at \in 1..3 /\ imports \in Seq(Specs)
    BY <1>1, <1>2 DEF Block
  <1>4. SpliceTypes' /\ Verdict' /\ Inputs' /\ FileRead' /\ Uses' = Uses /\ \A im : Dead(im)' <=> Dead(im)
    BY <1>1, <1>2, <1>3, TableLetGo, FileKept DEF FileStages
  <1>5. HasUnaliasedImport(imports, Needs[at]) <=> Needed(at) \in ToSet(imports)
    BY <1>3, UnnamedIs
  (* It suffices that the block and the adding stand.                      *)
  <1>6. ASSUME Block', NoneLost', Adding',
               stage' = "conflict" => /\ at' < 4 /\ Needs[at'].pkg \in Uses /\ Bound(imports', Needs[at'].pkg)
                                      /\ Needed(at') \notin ToSet(imports')
        PROVE  SpliceInv'
    BY <1>1, <1>2, <1>3, <1>4, <1>6 DEF SpliceInv, Filled, Dropping
  <1>7. CASE Needed(at) \in ToSet(imports) \/ Needs[at].pkg \notin idents
    <2>1. at' = at + 1 /\ imports' = imports /\ stage' = "add"
      BY <1>1, <1>5, <1>7
    <2>2. Block' /\ NoneLost'
      BY <1>1, <1>2, <1>4, <2>1 DEF Block, OneEach, NoneLost
    <2>3. Adding'
      <3>1. \A k \in 1..3 : k < at + 1 => k < at \/ k = at
        BY <1>2
      <3>2. \A k \in 1..3 : k < at + 1 /\ Needs[k].pkg \in Uses => Needed(k) \in ToSet(imports)
        BY <1>2, <1>7, <3>1
      <3>3. \A k \in 1..3 : k < at => k < at + 1
        BY <1>2
      <3>4. at + 1 \in 1..4
        BY <1>3
      <3> QED  BY <1>1, <1>2, <1>4, <2>1, <3>2, <3>3, <3>4 DEF Adding
    <2> QED  BY <1>6, <2>1, <2>2, <2>3
  <1>8. CASE /\ ~(Needed(at) \in ToSet(imports) \/ Needs[at].pkg \notin idents)
             /\ Bound(imports, Needs[at].pkg)
    <2>1. stage' = "conflict" /\ imports' = imports /\ at' = at
      BY <1>1, <1>5, <1>8
    <2>2. Block' /\ NoneLost'
      BY <1>1, <1>2, <1>4, <2>1 DEF Block, OneEach, NoneLost
    <2>3. Adding'
      BY <1>1, <1>2, <1>4, <2>1 DEF Adding
    <2>4. /\ at' < 4 /\ Needs[at'].pkg \in Uses /\ Bound(imports', Needs[at'].pkg)
          /\ Needed(at') \notin ToSet(imports')
      BY <1>2, <1>3, <1>8, <2>1
    <2> QED  BY <1>6, <2>2, <2>3, <2>4
  <1>9. CASE /\ ~(Needed(at) \in ToSet(imports) \/ Needs[at].pkg \notin idents)
             /\ ~Bound(imports, Needs[at].pkg)
    <2> DEFINE n == Len(imports)
    <2>1. at' = at + 1 /\ imports' = Append(imports, Needed(at)) /\ stage' = "add"
      BY <1>1, <1>5, <1>9
    <2>2. Needed(at) \in Specs /\ Binds(Needed(at)) = Needs[at].pkg /\ Needs[at].pkg \in Uses
      BY <1>2, <1>3, <1>9, NeedsAre
    <2>3. /\ imports' \in Seq(Specs) /\ n \in Nat /\ DOMAIN imports = 1..n /\ DOMAIN imports' = 1..(n + 1)
          /\ imports'[n + 1] = Needed(at) /\ \A i \in 1..n : imports'[i] = imports[i]
      BY <1>3, <2>1, <2>2, Appended
    <2> HIDE DEF n
    <2>4. OneEach(imports')
      <3>1. \A i \in 1..n : Binds(imports[i]) # Needs[at].pkg
        BY <1>9, <2>3 DEF Bound
      <3>2. \A i, j \in 1..n : i # j => Binds(imports[i]) # Binds(imports[j])
        BY <1>2, <2>3 DEF Block, OneEach
      <3>3. \A i \in 1..(n + 1) : i \in 1..n \/ i = n + 1
        BY <2>3
      <3> QED  BY <2>2, <2>3, <3>1, <3>2, <3>3 DEF OneEach
    <2>5. Block'
      BY <2>3, <2>4 DEF Block, OneEach
    <2>6. ToSet(imports') = ToSet(imports) \union {Needed(at)}
      BY <2>3 DEF ToSet
    <2>7. NoneLost'
      BY <1>1, <1>2, <1>4, <2>6 DEF NoneLost
    <2>8. Adding'
      <3>1. \A i \in 1..(n + 1) : i \in 1..n \/ i = n + 1
        BY <2>3
      <3>2. ~Dead(Needed(at))
        BY <2>2 DEF Dead
      <3>3. \A k \in 1..3 : (k < at => k < at + 1) /\ (k < at + 1 => k < at \/ k = at)
        BY <1>2
      <3>4. at + 1 \in 1..4 /\ at < at + 1
        BY <1>3
      <3>5. \A i \in 1..(n + 1) : ~Dead(imports'[i])
        BY <1>2, <2>3, <3>1, <3>2
      <3>6. \A i \in 1..(n + 1) :
               \/ imports'[i] \in ToSet(original)
               \/ \E k \in 1..3 : k < at + 1 /\ imports'[i] = Needed(k) /\ Needs[k].pkg \in Uses
        BY <1>2, <1>3, <2>2, <2>3, <3>1, <3>3, <3>4
      <3>7. \A k \in 1..3 : k < at + 1 /\ Needs[k].pkg \in Uses => Needed(k) \in ToSet(imports')
        BY <1>2, <2>6, <3>3
      <3> QED  BY <1>1, <1>4, <2>1, <2>3, <3>4, <3>5, <3>6, <3>7 DEF Adding
    <2> QED  BY <1>6, <2>1, <2>5, <2>7, <2>8
  <1> QED  BY <1>7, <1>8, <1>9

LEMMA FinishKeeps == ASSUME SpliceInv, Finish PROVE SpliceInv'
  <1>1. /\ UNCHANGED target /\ UNCHANGED <<pk, file, original>> /\ stage = "add" /\ stage' = "written"
        /\ idents' = idents /\ original' = original /\ imports' = imports /\ at > 3 /\ at' = at
    BY NeedsAre DEF Finish
  <1>2. /\ FileRead /\ SpliceTypes /\ idents = Uses /\ Block /\ NoneLost /\ at \in 1..4 /\ Adding
    BY <1>1, AddingIs DEF SpliceInv, Filled
  <1>3. SpliceTypes' /\ Verdict' /\ Inputs' /\ FileRead' /\ Uses' = Uses /\ \A im : Dead(im)' <=> Dead(im)
    BY <1>1, <1>2, TableLetGo, FileKept DEF FileStages
  <1>4. Block' /\ NoneLost' /\ at = 4
    BY <1>1, <1>2, <1>3 DEF Block, OneEach, NoneLost
  <1>5. Adding'
    BY <1>1, <1>2, <1>3 DEF Adding
  <1> QED  BY <1>1, <1>2, <1>3, <1>4, <1>5 DEF SpliceInv, Filled, Dropping

LEMMA SpliceInvNext == SpliceInv /\ [SpliceNext]_spliceVars => SpliceInv'
  <1> SUFFICES ASSUME SpliceInv, [SpliceNext]_spliceVars PROVE SpliceInv'
    OBVIOUS
  <1>1. CASE UNCHANGED spliceVars
    <2>1. UNCHANGED <<fields, table, seen, input, source, stage, pk, file, original, imports, idents, at>>
          /\ UNCHANGED <<pk, file, original>>
      BY <1>1 DEF spliceVars, vars
    <2>2. SpliceTypes' /\ Verdict' /\ Inputs'
      <3>1. Met' = Met /\ Kept' = Kept /\ Whole(fields)' = Whole(fields)
            /\ Describable(fields)' = Describable(fields)
        BY <2>1 DEF Met, Kept, KeyAt, ColsAt
      <3>2. \A i : NameAt(i)' = NameAt(i) /\ InputField(NameAt(i))' = InputField(NameAt(i))
        BY <2>1 DEF NameAt, InputField, InputFieldNames
      <3>3. Made' = Made
        BY <2>1, <3>2 DEF Made
      <3>4. SpliceTypes' /\ Verdict'
        BY <2>1, <3>1 DEF SpliceInv, SpliceTypes, Verdict
      <3>5. Inputs'
        BY <2>1, <3>2, <3>3 DEF SpliceInv, Inputs
      <3> QED  BY <3>4, <3>5
    <2>3. Uses' = Uses /\ (FileRead => FileRead') /\ \A im : Dead(im)' <=> Dead(im)
      BY <2>1, FileKept
    <2>4. (Block => Block') /\ (NoneLost => NoneLost') /\ (Dropping => Dropping') /\ (Adding => Adding')
      BY <2>1, <2>3 DEF Block, OneEach, NoneLost, Dropping, Adding
    <2> QED  BY <2>1, <2>2, <2>3, <2>4 DEF SpliceInv, Filled
  <1>2. CASE Table
    BY <1>2, LookKeeps, EndFieldsKeeps, GqlgenKeeps, PatchKeeps DEF Table, Next
  <1>3. CASE LetGo \/ ReadFile \/ FillStubs \/ Drop
    BY <1>3, LetGoKeeps, ReadFileKeeps, FillStubsKeeps, DropKeeps
  <1>4. CASE StartAdding \/ Add \/ Finish
    BY <1>4, StartAddingKeeps, AddKeeps, FinishKeeps
  <1> QED  BY <1>1, <1>2, <1>3, <1>4 DEF SpliceNext

(* What is written compiles, and what is refused is in conflict.           *)
LEMMA CompilesFollows == SpliceInv => Compiles
  <1> SUFFICES ASSUME SpliceInv, stage \in {"written", "conflict"} PROVE Compiles
    BY DEF Compiles
  <1>1. /\ FileRead /\ Block /\ NoneLost /\ at \in 1..4
        /\ \A i \in DOMAIN imports : ~Dead(imports[i])
        /\ \A i \in DOMAIN imports :
              \/ imports[i] \in ToSet(original)
              \/ \E k \in 1..3 : k < at /\ imports[i] = Needed(k) /\ Needs[k].pkg \in Uses
        /\ \A k \in 1..3 : k < at /\ Needs[k].pkg \in Uses => Needed(k) \in ToSet(imports)
    BY DEF SpliceInv, FileStages, Filled, Adding
  <1>2. CASE stage = "written"
    <2>1. at = 4 /\ \A k \in 1..3 : Needs[k].pkg \in Uses => Needed(k) \in ToSet(imports)
      BY <1>1, <1>2 DEF SpliceInv, Filled
    <2>2. \A i, j \in DOMAIN imports : i # j => Binds(imports[i]) # Binds(imports[j])
      BY <1>1 DEF Block, OneEach
    <2>3. \A i \in DOMAIN original : Binds(original[i]) \in file.rest => original[i] \in ToSet(imports)
      BY <1>1 DEF NoneLost, Dead, Uses
    <2>4. BoundBy(imports) \subseteq Uses
      <3> SUFFICES ASSUME NEW i \in DOMAIN imports PROVE Binds(imports[i]) \in Uses
        BY DEF BoundBy
      <3>1. CASE imports[i] \in ToSet(original)
        <4>1. PICK j \in DOMAIN original : imports[i] = original[j]
          BY <3>1 DEF ToSet
        <4>2. Binds(original[j]) \in file.rest \/ original[j].path = Fmt
          BY <1>1 DEF FileRead
        <4> QED  BY <1>1, <4>1, <4>2 DEF Dead, Uses
      <3>2. CASE \E k \in 1..3 : k < at /\ imports[i] = Needed(k) /\ Needs[k].pkg \in Uses
        BY <3>2, NeedsAre
      <3> QED  BY <1>1, <3>1, <3>2
    <2>5. Uses \subseteq BoundBy(imports)
      <3>1. \A k \in 1..3 : Needs[k].pkg \in Uses => Needs[k].pkg \in BoundBy(imports)
        BY <2>1, NeedsAre DEF BoundBy, ToSet
      <3>2. file.rest \subseteq BoundBy(imports)
        BY <1>1, <2>3 DEF FileRead, BoundBy, ToSet
      <3>3. ASSUME NEW m \in file.stubs, NEW p \in Body(m) PROVE p \in BoundBy(imports)
        <4>1. m \in Methods /\ p \in Uses
          BY <1>1, <3>3 DEF FileRead, Uses
        <4>2. PICK k \in 1..3 : p = Needs[k].pkg
          BY <3>3, <4>1, NeedsAre
        <4> QED  BY <3>1, <4>1, <4>2
      <3> QED  BY <3>2, <3>3 DEF Uses
    <2>6. ASSUME NEW k \in 1..3, NEW m \in file.stubs, Needs[k].pkg \in Body(m)
          PROVE  \E i \in DOMAIN imports : imports[i].path = Needs[k] /\ Binds(imports[i]) = Needs[k].pkg
      <3>1. Needs[k].pkg \in Uses
        BY <2>6 DEF Uses
      <3>2. PICK i \in DOMAIN imports : imports[i] = Needed(k)
        BY <2>1, <3>1 DEF ToSet
      <3> QED  BY <3>2, NeedsAre DEF Needed
    <2>7. \A n \in ToSet(Needs) : \E k \in 1..3 : n = Needs[k]
      BY NeedsAre
    <2> QED  BY <1>2, <2>2, <2>3, <2>4, <2>5, <2>6, <2>7 DEF Compiles
  <1>3. CASE stage = "conflict"
    <2>1. /\ at \in 1..3 /\ Needs[at].pkg \in Uses /\ Bound(imports, Needs[at].pkg)
          /\ Needed(at) \notin ToSet(imports)
      BY <1>1, <1>3 DEF SpliceInv, Filled
    <2>2. PICK i \in DOMAIN imports : Binds(imports[i]) = Needs[at].pkg
      BY <2>1 DEF Bound
    <2>3. imports[i] # Needed(at)
      BY <2>1 DEF ToSet
    <2>4. imports[i] \in ToSet(original)
      <3>1. ASSUME NEW k \in 1..3, k < at, imports[i] = Needed(k) PROVE FALSE
        BY <2>1, <2>2, <3>1, NeedsAre
      <3> QED  BY <1>1, <3>1
    <2>5. PICK j \in DOMAIN original : original[j] = imports[i]
      BY <2>4 DEF ToSet
    <2>6. Needs[at] \in ToSet(Needs)
      BY <2>1, NeedsAre
    <2> QED  BY <1>3, <2>1, <2>2, <2>3, <2>5, <2>6 DEF Compiles, Needed
  <1> QED  BY <1>2, <1>3

-----------------------------------------------------------------------------
(* For every set of names and columns, and tables of any length: one pass  *)
(* accepts what can be described and is whole, and nothing else; it        *)
(* refuses a field that cannot join those before it, and the lack of a key *)
(* or of a column once there are no more.                                  *)
THEOREM DescriptionsJudged == SpliceSpec => []VerdictExact
  BY SpliceInvInit, SpliceInvNext, VerdictFollows, PTL DEF SpliceSpec

(* Whichever letters gqlgen raises, a spliced literal reads input fields   *)
(* that are there, its own column's where no two are alike but for case.   *)
THEOREM LiteralsRead == SpliceSpec => []ReadsWhatIsThere
  BY SpliceInvInit, SpliceInvNext, ReadsFollows, PTL DEF SpliceSpec

(* And whatever a file imports, and in which order, it compiles once it is *)
(* filled; one that is refused had a needed name in use for something else.*)
THEOREM FilledFilesCompile == SpliceSpec => []Compiles
  BY SpliceInvInit, SpliceInvNext, CompilesFollows, PTL DEF SpliceSpec
=============================================================================
