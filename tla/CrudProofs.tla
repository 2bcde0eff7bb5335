------------------------------ MODULE CrudProofs ------------------------------
(***************************************************************************)
(* Proofs about the helpers of crud.go, for any clients, keys, triggers,   *)
(* calls and sessions left behind.                                         *)
(*                                                                         *)
(* A statement touches one row and one session, and no session writes a    *)
(* row that another has written: so it is enough to say of one session     *)
(* what its record promises about the committed table, and that this       *)
(* stands while the rows it has written do.  What the helpers make of one  *)
(* row is said once, in EffectIs.                                          *)
(***************************************************************************)
EXTENDS Crud, TLAPS

Rows    == [owner : Clients, note : Clients]
Maybe   == Rows \cup {NoRow}
Columns == {"note", "owner"}
Writes  == UNION {[K -> Maybe] : K \in SUBSET Keys}
Records == [tx : {"none", "open", "aborted"}, stmt : {"none", "running", "done"},
            call : Calls \cup {NoCall}, out : {"0", "1"} \cup Codes, writes : Writes,
            told : [Keys -> Int], failed : BOOLEAN, free : SUBSET Columns]

TypeOK == /\ ignored \in SUBSET Keys
          /\ table \in [Keys -> Maybe]
          /\ sess \in [Sessions -> Records]
          /\ gen \in [Clients -> 0..MaxGen]
          /\ ledger \in [Keys -> Int] /\ lost \in [Keys -> Int]

Has(row) == IF row = NoRow THEN 0 ELSE 1

(* What a session's record r says of the table T, and of its own end.      *)
Sees(r, T, k) == IF k \in DOMAIN r.writes THEN r.writes[k] ELSE T[k]

Tidy(r) == /\ r.tx = "none" => r.told = NoCount /\ ~r.failed
           /\ r.tx # "open" => r.writes = NoWrites
           /\ r.stmt # "none" => r.call \in Calls

Told(r) == IF r.stmt = "done" THEN r.failed \/ Result(r.call, r.out) \in Dooming ELSE r.failed
Doomed(r) == r.tx # "none" => (r.tx = "aborted" <=> Told(r))

Account(r, T) == r.tx = "open" =>
    \A k \in Keys : r.told[k] = Has(Sees(r, T, k)) - Has(T[k])

Licensed(c, r, T) == \A k \in Keys : T[k] # NoRow =>
    LET v == Sees(r, T, k)
    IN  /\ v # T[k] => c = T[k].owner \/ r.free # {}
        /\ v = NoRow => c = T[k].owner \/ "owner" \in r.free
        /\ v # NoRow /\ v.owner # T[k].owner => "owner" \in r.free

Sound(c, r, T) == Tidy(r) /\ Doomed(r) /\ Account(r, T) /\ Licensed(c, r, T)

Exclusive == \A s, o \in Sessions : s # o =>
                 DOMAIN sess[s].writes \cap DOMAIN sess[o].writes = {}
Unused == \A s \in Sessions : s[2] > gen[s[1]] => sess[s] = Fresh

(* A create or a delete that was left behind has been given up.            *)
LeftBehind == \A s \in Sessions :
    /\ Abandoned(s) /\ sess[s].stmt = "running" /\ sess[s].tx = "none"
    /\ sess[s].call.op \in {"create", "delete"}
    => <<sess[s].call.op, sess[s].call.key>> \in gaveUp

IInv == /\ TypeOK /\ Exclusive /\ Unused /\ LeftBehind /\ LedgerAgrees
        /\ \A s \in Sessions : Sound(s[1], sess[s], table)

-----------------------------------------------------------------------------
(* What a helper's statement makes of a row, and its helper of that.       *)
LEMMA EffectIs ==
    ASSUME NEW row \in Maybe, NEW call \in Calls, NEW c \in Clients
    PROVE  LET e == Effect(row, call, c)
           IN  /\ e.out \in {"0", "1", "23505"} /\ e.row \in Maybe
               /\ e.out # "1" \/ call.op = "get" => e.row = row
               /\ e.out = "23505" <=> Result(call, e.out) \in Dooming
               /\ e.out # "23505" => Tally(call, e.out) = Has(e.row) - Has(row)
               /\ row # NoRow /\ e.row # row =>
                      /\ row.owner = c \/ Unscoped(call) # {}
                      /\ e.row = NoRow => row.owner = c \/ "owner" \in Unscoped(call)
                      /\ e.row # NoRow /\ e.row.owner # row.owner => "owner" \in Unscoped(call)
               /\ row = NoRow /\ e.row # NoRow => e.row.owner = c
  <1> DEFINE e == Effect(row, call, c)
  <1>0. NoRow \notin Rows /\ NewRow(c) \in Rows /\ NewRow(c).owner = c
    BY CrudConstants DEF Rows, NewRow
  <1>1. CASE call.op = "get"
    <2>1. e = [out |-> IF Matches(row, call, c) THEN "1" ELSE "0", row |-> row]
      BY <1>1 DEF Effect, Selected
    <2>2. e.row = row /\ e.out \in {"0", "1"}
      BY <2>1
    <2>3. Result(call, e.out) \in {"row", "nil"} /\ Tally(call, e.out) = 0
      BY <1>1, <2>2 DEF Result, GetResult, Tally
    <2> QED  BY <2>2, <2>3 DEF Dooming, Internal, Has
  <1>2. CASE call.op = "create"
    <2>1. e = Inserted(row, call, c)
      BY <1>2 DEF Effect
    <2>2. Result(call, e.out) = CreateResult(e.out)
      BY <1>2 DEF Result
    <2>3. \/ e.out \in {"0", "23505"} /\ e.row = row
          \/ e.out = "1" /\ row = NoRow /\ e.row = NewRow(c)
      BY <2>1 DEF Inserted
    <2>4. CASE e.out \in {"0", "23505"} /\ e.row = row
      <3>1. Result(call, e.out) = IF e.out = "0" THEN "nil" ELSE "CONFLICT"
        BY <2>2, <2>4 DEF CreateResult
      <3>2. e.out = "0" => Tally(call, e.out) = 0
        BY <1>2, <3>1 DEF Tally
      <3> QED  BY <2>4, <3>1, <3>2 DEF Dooming, Internal, Has
    <2>5. CASE e.out = "1" /\ row = NoRow /\ e.row = NewRow(c)
      <3>1. Result(call, e.out) = "row"
        BY <2>2, <2>5 DEF CreateResult
      <3>2. Tally(call, e.out) = 1
        BY <1>2, <3>1 DEF Tally
      <3> QED  BY <1>0, <1>2, <2>5, <3>1, <3>2 DEF Dooming, Internal, Has, Maybe
    <2> QED  BY <2>3, <2>4, <2>5
  <1>3. CASE call.op = "update"
    <2>1. e = Replaced(row, call, c)
      BY <1>3 DEF Effect
    <2>2. Result(call, e.out) = UpdateResult(e.out) /\ Tally(call, e.out) = 0
      BY <1>3 DEF Result, Tally
    <2>3. \/ e.out = "0" /\ e.row = row
          \/ e.out = "1" /\ Matches(row, call, c) /\ call.opt = "column"
             /\ e.row = [row EXCEPT !.note = c]
          \/ e.out = "1" /\ Matches(row, call, c) /\ call.opt # "column" /\ e.row = NewRow(c)
      BY <2>1 DEF Replaced
    <2>4. Result(call, e.out) = IF e.out = "1" THEN "row" ELSE "NOT_FOUND"
      BY <2>2, <2>3 DEF UpdateResult
    <2>5. CASE e.out = "0" /\ e.row = row
      BY <2>2, <2>4, <2>5 DEF Dooming, Internal, Has
    <2>6. CASE e.out = "1" /\ Matches(row, call, c)
      <3>1. row \in Rows /\ row # NoRow
        BY <2>6 DEF Matches, Maybe
      <3>2. e.row \in Rows /\ e.row # NoRow
        BY <1>0, <2>3, <2>6, <3>1 DEF Rows
      <3>3. call.opt = "column" => e.row.owner = row.owner /\ Unscoped(call) = {"note"}
        BY <1>3, <2>3, <2>6, <3>1 DEF Rows, Unscoped
      <3>4. call.opt = "scoped" => e.row.owner = c /\ row.owner = c
        BY <1>0, <2>3, <2>6 DEF Matches
      <3>5. call.opt \notin {"scoped", "column"} => Unscoped(call) = {"note", "owner"}
        BY <1>3 DEF Unscoped
      <3> QED  BY <1>3, <2>2, <2>4, <2>6, <3>1, <3>2, <3>3, <3>4, <3>5
               DEF Dooming, Internal, Has, Maybe
    <2> QED  BY <2>3, <2>5, <2>6
  <1>4. CASE call.op = "delete"
    <2>1. e = Removed(row, call, c)
      BY <1>4 DEF Effect
    <2>2. Result(call, e.out) = DeleteResult(e.out)
      BY <1>4 DEF Result
    <2>3. \/ e.out = "0" /\ e.row = row
          \/ e.out = "1" /\ Matches(row, call, c) /\ e.row = NoRow
      BY <2>1 DEF Removed
    <2>4. Result(call, e.out) = IF e.out = "1" THEN "true" ELSE "false"
      BY <2>2, <2>3 DEF DeleteResult
    <2>5. Tally(call, e.out) = IF e.out = "1" THEN -1 ELSE 0
      BY <1>4, <2>4 DEF Tally
    <2>6. CASE e.out = "0" /\ e.row = row
      BY <2>4, <2>5, <2>6 DEF Dooming, Internal, Has
    <2>7. CASE e.out = "1" /\ Matches(row, call, c) /\ e.row = NoRow
      <3>1. row # NoRow /\ (call.opt = "scoped" => row.owner = c)
        BY <2>7 DEF Matches
      <3>2. call.opt # "scoped" => "owner" \in Unscoped(call)
        <4>1. call.opt # "column"
          BY <1>4 DEF Calls
        <4> QED  BY <1>4, <4>1 DEF Unscoped
      <3> QED  BY <1>4, <2>4, <2>5, <2>7, <3>1, <3>2 DEF Dooming, Internal, Has, Maybe
    <2> QED  BY <2>3, <2>6, <2>7
  <1>5. call.op \in {"get", "create", "update", "delete"}
    BY DEF Calls
  <1> QED  BY <1>1, <1>2, <1>3, <1>4, <1>5

(* A statement that need not wait for the row's writer leaves the row.     *)
LEMMA QuietEffect ==
    ASSUME NEW row \in Maybe, NEW call \in Calls, NEW c \in Clients,
           \/ call.op = "get"
           \/ call.op = "create" /\ call.key \in ignored
           \/ call.op \in {"update", "delete"} /\ ~Matches(row, call, c)
    PROVE  LET e == Effect(row, call, c)
           IN  e.row = row /\ (e.out = "0" \/ call.op = "get")
  <1>1. CASE call.op = "get"
    BY <1>1 DEF Effect, Selected
  <1>2. CASE call.op = "create" /\ call.key \in ignored
    BY <1>2 DEF Effect, Inserted
  <1>3. CASE call.op = "update" /\ ~Matches(row, call, c)
    BY <1>3 DEF Effect, Replaced
  <1>4. CASE call.op = "delete" /\ ~Matches(row, call, c)
    BY <1>4 DEF Effect, Removed
  <1> QED  BY <1>1, <1>2, <1>3, <1>4

-----------------------------------------------------------------------------
(* A session of which nothing is left promises nothing.                    *)
LEMMA FreshType == Fresh \in Records
  <1>1. NoWrites \in [{} -> Maybe]
    BY DEF NoWrites
  <1>2. NoWrites \in Writes
    BY <1>1 DEF Writes
  <1> QED  BY <1>2 DEF Fresh, Records, NoCount

LEMMA FreshSound == ASSUME NEW c, NEW T PROVE Sound(c, Fresh, T)
  <1>1. \A k \in Keys : Sees(Fresh, T, k) = T[k]
    BY DEF Sees, Fresh, NoWrites
  <1> QED  BY <1>1 DEF Sound, Tidy, Doomed, Told, Account, Licensed, Fresh

(* What a record says of the table stands while the rows it wrote do.      *)
LEMMA RowsKept ==
    ASSUME NEW c, NEW r, NEW T \in [Keys -> Maybe], NEW U \in [Keys -> Maybe],
           Sound(c, r, T), r.tx = "open" => \A k \in Keys : r.told[k] \in Int,
           \A k \in Keys : k \in DOMAIN r.writes => U[k] = T[k]
    PROVE  Sound(c, r, U)
  <1>1. \A k \in Keys : \/ Sees(r, U, k) = Sees(r, T, k) /\ U[k] = T[k]
                        \/ Sees(r, U, k) = U[k] /\ Sees(r, T, k) = T[k]
    BY DEF Sees
  <1>2. Account(r, U)
    BY <1>1 DEF Sound, Account, Has
  <1>3. Licensed(c, r, U)
    BY <1>1 DEF Sound, Licensed
  <1> QED  BY <1>2, <1>3 DEF Sound

(* A row that a session sees is a row or the absence of one.               *)
LEMMA SeesType ==
    ASSUME NEW r \in Records, NEW T \in [Keys -> Maybe], NEW k \in Keys
    PROVE  Sees(r, T, k) \in Maybe
  <1>1. PICK K \in SUBSET Keys : r.writes \in [K -> Maybe]
    BY DEF Records, Writes
  <1> QED  BY <1>1 DEF Sees

(* What Execute makes of a transaction's record, when the statement works. *)
Writing(r, e) == e.out = "1" /\ r.call.op # "get"
Worked(r, e) ==
    [[r EXCEPT !.stmt = "done", !.out = e.out] EXCEPT
        !.told[r.call.key] = @ + Tally(r.call, e.out),
        !.free = IF e.out = "1" THEN @ \cup Unscoped(r.call) ELSE @,
        !.writes = IF e.out = "1" /\ r.call.op # "get" THEN Put(@, r.call.key, e.row) ELSE @]

LEMMA WorkedSound ==
    ASSUME NEW c \in Clients, NEW r \in Records, NEW T \in [Keys -> Maybe],
           Sound(c, r, T), r.tx = "open", r.stmt = "running",
           NEW e, e = Effect(Sees(r, T, r.call.key), r.call, c), e.out \notin Codes
    PROVE  /\ Worked(r, e) \in Records /\ Sound(c, Worked(r, e), T)
           /\ Worked(r, e).writes =
                  IF Writing(r, e) THEN Put(r.writes, r.call.key, e.row) ELSE r.writes
  <1> DEFINE k == r.call.key
             v == Sees(r, T, k)
             w == Worked(r, e)
  <1>0. r.call \in Calls /\ k \in Keys
    BY DEF Sound, Tidy, Calls
  <1>1. v \in Maybe
    BY <1>0, SeesType
  <1>2. PICK K \in SUBSET Keys : r.writes \in [K -> Maybe]
    BY DEF Records, Writes
  <1>3. /\ e.out \in {"0", "1"} /\ e.row \in Maybe
        /\ e.out # "1" \/ r.call.op = "get" => e.row = v
        /\ Result(r.call, e.out) \notin Dooming
        /\ Tally(r.call, e.out) = Has(e.row) - Has(v)
        /\ v # NoRow /\ e.row # v =>
               /\ v.owner = c \/ Unscoped(r.call) # {}
               /\ e.row = NoRow => v.owner = c \/ "owner" \in Unscoped(r.call)
               /\ e.row # NoRow /\ e.row.owner # v.owner => "owner" \in Unscoped(r.call)
        /\ v = NoRow /\ e.row # NoRow => e.row.owner = c
    BY <1>0, <1>1, EffectIs DEF Codes
  <1>4. /\ w.tx = "open" /\ w.stmt = "done" /\ w.call = r.call /\ w.out = e.out
        /\ w.failed = r.failed
        /\ w.told = [r.told EXCEPT ![k] = @ + Tally(r.call, e.out)]
        /\ w.writes = IF Writing(r, e) THEN Put(r.writes, k, e.row) ELSE r.writes
        /\ w.free = IF e.out = "1" THEN r.free \cup Unscoped(r.call) ELSE r.free
    <2> DEFINE d == [r EXCEPT !.stmt = "done", !.out = e.out]
    <2>1. /\ DOMAIN d = {"tx", "stmt", "call", "out", "writes", "told", "failed", "free"}
          /\ d.tx = r.tx /\ d.stmt = "done" /\ d.call = r.call /\ d.out = e.out
          /\ d.writes = r.writes /\ d.told = r.told /\ d.failed = r.failed /\ d.free = r.free
      BY DEF Records
    <2>2. w = [d EXCEPT
               !.told[k] = @ + Tally(r.call, e.out),
               !.free = IF e.out = "1" THEN @ \cup Unscoped(r.call) ELSE @,
               !.writes = IF e.out = "1" /\ r.call.op # "get" THEN Put(@, k, e.row) ELSE @]
      BY DEF Worked
    <2> HIDE DEF d, w, k
    <2>3. w.tx = d.tx /\ w.stmt = d.stmt /\ w.call = d.call /\ w.out = d.out
      BY <2>1, <2>2
    <2>4. w.failed = d.failed /\ w.told = [d.told EXCEPT ![k] = @ + Tally(r.call, e.out)]
      BY <2>1, <2>2
    <2>5. w.free = IF e.out = "1" THEN d.free \cup Unscoped(r.call) ELSE d.free
      BY <2>1, <2>2
    <2>6. w.writes = IF Writing(r, e) THEN Put(d.writes, k, e.row) ELSE d.writes
      BY <2>1, <2>2 DEF Writing
    <2> QED  BY <2>1, <2>3, <2>4, <2>5, <2>6
  <1>5. w \in Records
    <2>1. w.writes \in Writes
      <3>1. Put(r.writes, k, e.row) \in [K \cup {k} -> Maybe]
        BY <1>2, <1>3 DEF Put
      <3>2. K \cup {k} \in SUBSET Keys
        BY <1>0
      <3> QED  BY <1>2, <1>4, <3>1, <3>2 DEF Writes
    <2>2. Has(e.row) - Has(v) \in Int
      BY DEF Has
    <2>3. r.told \in [Keys -> Int]
      BY DEF Records
    <2>4. w.told \in [Keys -> Int]
      BY <1>0, <1>3, <1>4, <2>2, <2>3
    <2>5. Unscoped(r.call) \in SUBSET Columns /\ r.free \in SUBSET Columns
      BY DEF Unscoped, Columns, Records
    <2>6. w.free \in SUBSET Columns /\ r.failed \in BOOLEAN
      BY <1>4, <2>5 DEF Records
    <2> QED  BY <1>0, <1>3, <2>1, <2>4, <2>6 DEF Worked, Records
  <1> HIDE DEF w
  <1>6. \A j \in Keys : j # k => Sees(w, T, j) = Sees(r, T, j)
    <2> SUFFICES ASSUME NEW j \in Keys, j # k PROVE Sees(w, T, j) = Sees(r, T, j)
      OBVIOUS
    <2>1. CASE Writing(r, e)
      <3>1. w.writes = Put(r.writes, k, e.row)
        BY <1>4, <2>1
      <3>2. j \in DOMAIN w.writes <=> j \in DOMAIN r.writes
        BY <3>1 DEF Put
      <3>3. j \in DOMAIN r.writes => w.writes[j] = r.writes[j]
        BY <3>1 DEF Put
      <3> QED  BY <3>2, <3>3 DEF Sees
    <2>2. CASE ~Writing(r, e)
      BY <1>4, <2>2 DEF Sees
    <2> QED  BY <2>1, <2>2
  <1>7. Sees(w, T, k) = e.row
    <2>1. CASE Writing(r, e)
      BY <1>4, <2>1 DEF Sees, Put
    <2>2. CASE ~Writing(r, e)
      BY <1>3, <1>4, <2>2 DEF Sees, Writing
    <2> QED  BY <2>1, <2>2
  <1>8. Tidy(w) /\ Doomed(w)
    <2>1. r.failed = FALSE
      BY DEF Sound, Doomed, Told, Records
    <2> QED  BY <1>0, <1>3, <1>4, <2>1 DEF Tidy, Doomed, Told
  <1>9. Account(w, T)
    <2>1. \A j \in Keys : r.told[j] = Has(Sees(r, T, j)) - Has(T[j]) /\ r.told[j] \in Int
      BY DEF Sound, Account, Records
    <2>2. ASSUME NEW j \in Keys PROVE w.told[j] = Has(Sees(w, T, j)) - Has(T[j])
      <3>1. CASE j # k
        BY <1>4, <1>6, <2>1, <3>1 DEF Records
      <3>2. CASE j = k
        <4>1. w.told[k] = r.told[k] + (Has(e.row) - Has(v))
          BY <1>0, <1>3, <1>4 DEF Records
        <4>2. r.told[k] = Has(v) - Has(T[k])
          BY <1>0, <2>1
        <4>3. Has(v) \in Int /\ Has(e.row) \in Int /\ Has(T[k]) \in Int
          BY DEF Has
        <4> QED  BY <1>7, <3>2, <4>1, <4>2, <4>3
      <3> QED  BY <3>1, <3>2
    <2> QED  BY <2>2 DEF Account
  <1>10. Licensed(c, w, T)
    <2> SUFFICES ASSUME NEW j \in Keys, T[j] # NoRow
                 PROVE  LET x == Sees(w, T, j)
                        IN  /\ x # T[j] => c = T[j].owner \/ w.free # {}
                            /\ x = NoRow => c = T[j].owner \/ "owner" \in w.free
                            /\ x # NoRow /\ x.owner # T[j].owner => "owner" \in w.free
      BY DEF Licensed
    <2>1. r.free \subseteq w.free
      BY <1>4
    <2>2. LET x == Sees(r, T, j)
          IN  /\ x # T[j] => c = T[j].owner \/ r.free # {}
              /\ x = NoRow => c = T[j].owner \/ "owner" \in r.free
              /\ x # NoRow /\ x.owner # T[j].owner => "owner" \in r.free
      BY DEF Sound, Licensed
    <2>3. CASE j # k
      BY <1>6, <2>1, <2>2, <2>3
    <2>4. CASE j = k /\ e.row = v
      BY <1>7, <2>1, <2>2, <2>4
    <2>5. CASE j = k /\ e.row # v
      <3>1. Unscoped(r.call) \subseteq w.free
        BY <1>3, <1>4, <2>5
      <3>2. CASE v = NoRow
        BY <1>3, <1>7, <2>1, <2>2, <2>5, <3>2
      <3>3. CASE v # NoRow
        BY <1>3, <1>7, <2>1, <2>2, <2>5, <3>1, <3>3
      <3> QED  BY <3>2, <3>3
    <2> QED  BY <2>3, <2>4, <2>5
  <1> QED  BY <1>4, <1>5, <1>8, <1>9, <1>10 DEF Sound, w

(* A record without writes promises nothing of the table.                  *)
LEMMA EmptySound ==
    ASSUME NEW c, NEW r \in Records, NEW T \in [Keys -> Maybe],
           r.writes = NoWrites, r.tx = "open" => r.told = NoCount, Tidy(r), Doomed(r)
    PROVE  Sound(c, r, T)
  <1>1. \A k \in Keys : Sees(r, T, k) = T[k]
    BY DEF Sees, NoWrites
  <1>2. Account(r, T)
    BY <1>1 DEF Account, NoCount, Has
  <1>3. Licensed(c, r, T)
    BY <1>1 DEF Licensed
  <1> QED  BY <1>2, <1>3 DEF Sound

(* A failure outside what the statement itself answers: whatever was       *)
(* called, the caller is told of an internal error.                        *)
LEMMA FailureIsInternal ==
    ASSUME NEW call \in Calls, NEW out \in {"25P02", "40P01"}
    PROVE  Result(call, out) \in Dooming
  <1>1. call.op \in {"get", "create", "update", "delete"}
    BY DEF Calls
  <1> QED  BY <1>1 DEF Result, GetResult, CreateResult, UpdateResult, DeleteResult, Dooming

(* A report of a row stored is a create's, and of one gone a delete's.     *)
LEMMA TallyIs ==
    ASSUME NEW call \in Calls, NEW out
    PROVE  /\ Tally(call, out) \in Int
           /\ Tally(call, out) > 0 => call.op = "create"
           /\ Tally(call, out) < 0 => call.op = "delete"
  BY DEF Tally

(* A step of one session, which leaves alone the rows others have written. *)
LEMMA OneSession ==
    ASSUME IInv, NEW s \in Sessions, NEW rec \in Records,
           sess' = [sess EXCEPT ![s] = rec], table' \in [Keys -> Maybe],
           gen' = gen, ignored' = ignored, ledger' \in [Keys -> Int], lost' \in [Keys -> Int],
           LedgerAgrees', gaveUp \subseteq gaveUp',
           rec = Fresh \/ ~(s[2] > gen[s[1]]), Abandoned(s) => rec.stmt # "running",
           Sound(s[1], rec, table'),
           \A o \in Sessions : o # s =>
               /\ DOMAIN rec.writes \cap DOMAIN sess[o].writes = {}
               /\ \A k \in Keys : k \in DOMAIN sess[o].writes => table'[k] = table[k]
    PROVE  IInv'
  <1>1. TypeOK'
    BY DEF IInv, TypeOK
  <1>2. sess'[s] = rec /\ \A o \in Sessions : o # s => sess'[o] = sess[o]
    BY DEF IInv, TypeOK
  <1>3. Exclusive'
    BY <1>2 DEF IInv, Exclusive
  <1>4. Unused'
    BY <1>2 DEF IInv, Unused
  <1>6. LeftBehind'
    BY <1>2 DEF IInv, LeftBehind, Abandoned
  <1>5. ASSUME NEW o \in Sessions PROVE Sound(o[1], sess'[o], table')
    <2>1. CASE o = s
      BY <1>2, <2>1
    <2>2. CASE o # s
      <3> DEFINE r == sess[o]
      <3>1. r \in Records /\ table \in [Keys -> Maybe] /\ Sound(o[1], r, table)
        BY DEF IInv, TypeOK
      <3>2. \A k \in Keys : r.told[k] \in Int
        BY <3>1 DEF Records
      <3>3. \A k \in Keys : k \in DOMAIN r.writes => table'[k] = table[k]
        BY <2>2
      <3> HIDE DEF r
      <3>4. Sound(o[1], r, table')
        BY <3>1, <3>2, <3>3, RowsKept
      <3> QED  BY <1>2, <2>2, <3>4 DEF r
    <2> QED  BY <2>1, <2>2
  <1> QED  BY <1>1, <1>3, <1>4, <1>5, <1>6 DEF IInv

(* The same, of a session that writes no more rows than it had.            *)
LEMMA QuietSession ==
    ASSUME IInv, NEW s \in Sessions, NEW rec \in Records,
           sess' = [sess EXCEPT ![s] = rec], UNCHANGED <<table, gen, ignored, told>>,
           rec = Fresh \/ ~(s[2] > gen[s[1]]), Abandoned(s) => rec.stmt # "running",
           Sound(s[1], rec, table),
           rec.writes \in {NoWrites, sess[s].writes}
    PROVE  IInv'
  <1>1. DOMAIN NoWrites = {}
    BY DEF NoWrites
  <1>2. \A o \in Sessions : o # s => DOMAIN rec.writes \cap DOMAIN sess[o].writes = {}
    BY <1>1 DEF IInv, Exclusive
  <1>3. /\ table' \in [Keys -> Maybe] /\ ledger' \in [Keys -> Int] /\ lost' \in [Keys -> Int]
        /\ LedgerAgrees' /\ gaveUp \subseteq gaveUp'
    BY DEF IInv, TypeOK, LedgerAgrees, told
  <1> QED  BY <1>2, <1>3, OneSession

(* A session that ends without a commit.                                   *)
LEMMA SessionEnds ==
    ASSUME IInv, NEW s \in Sessions, sess' = [sess EXCEPT ![s] = Fresh],
           UNCHANGED <<table, gen, ignored, told>>
    PROVE  IInv'
  <1>1. Fresh.writes = NoWrites /\ Fresh.stmt = "none"
    BY DEF Fresh
  <1> QED  BY <1>1, FreshType, FreshSound, QuietSession

(* A session that ends with one, or under a deadline.                      *)
LEMMA SessionDone ==
    ASSUME IInv, NEW s \in Sessions, sess' = [sess EXCEPT ![s] = Fresh],
           table' \in [Keys -> Maybe], gen' = gen, ignored' = ignored,
           ledger' \in [Keys -> Int], lost' \in [Keys -> Int],
           LedgerAgrees', gaveUp \subseteq gaveUp',
           \A o \in Sessions : o # s =>
               \A k \in Keys : k \in DOMAIN sess[o].writes => table'[k] = table[k]
    PROVE  IInv'
  <1>1. PICK rec \in Records : rec = Fresh
    BY FreshType
  <1>2. Sound(s[1], rec, table') /\ rec.stmt = "none" /\ DOMAIN rec.writes = {}
    BY <1>1, FreshSound DEF Fresh, NoWrites
  <1>3. sess' = [sess EXCEPT ![s] = rec]
    BY <1>1
  <1>4. \A o \in Sessions : o # s =>
           /\ DOMAIN rec.writes \cap DOMAIN sess[o].writes = {}
           /\ \A k \in Keys : k \in DOMAIN sess[o].writes => table'[k] = table[k]
    BY <1>2
  <1>5. (rec = Fresh \/ ~(s[2] > gen[s[1]])) /\ (Abandoned(s) => rec.stmt # "running")
    BY <1>1, <1>2
  <1>6. rec \in Records /\ Sound(s[1], rec, table')
    BY <1>2
  <1> QED  BY <1>3, <1>4, <1>5, <1>6, OneSession

(* Only a session that has been reached is at work.                        *)
LEMMA InUse ==
    ASSUME IInv, NEW s \in Sessions, sess[s].stmt # "none" \/ s[2] = gen[s[1]]
    PROVE  ~(s[2] > gen[s[1]])
  <1>1. s[1] \in Clients /\ s[2] \in 0..MaxGen /\ gen[s[1]] \in 0..MaxGen
    BY DEF IInv, TypeOK, Sessions
  <1>2. CASE s[2] = gen[s[1]]
    BY <1>1, <1>2
  <1>3. CASE sess[s].stmt # "none"
    BY <1>3 DEF IInv, Unused, Fresh
  <1> QED  BY <1>2, <1>3

LEMMA MineIs ==
    ASSUME IInv, NEW c \in Clients
    PROVE  /\ Mine(c) \in Sessions /\ Mine(c)[1] = c /\ Mine(c)[2] = gen[c]
           /\ sess[Mine(c)] \in Records /\ ~(Mine(c)[2] > gen[Mine(c)[1]])
           /\ ~Abandoned(Mine(c))
  <1>1. Mine(c) \in Sessions /\ Mine(c)[1] = c /\ Mine(c)[2] = gen[c]
    BY DEF IInv, TypeOK, Sessions, Mine
  <1> QED  BY <1>1, InUse DEF IInv, TypeOK, Abandoned

-----------------------------------------------------------------------------
(* The invariant: initially, and at each action.                           *)
LEMMA InitInv == Init => IInv
  <1> SUFFICES ASSUME Init PROVE IInv
    OBVIOUS
  <1>1. TypeOK
    BY FreshType, CrudConstants DEF Init, TypeOK, Maybe, NoCount
  <1>2. \A s \in Sessions : sess[s] = Fresh
    BY DEF Init
  <1>3. Exclusive /\ Unused /\ LeftBehind
    <2>1. DOMAIN Fresh.writes = {} /\ Fresh.stmt = "none"
      BY DEF Fresh, NoWrites
    <2> QED  BY <1>2, <2>1 DEF Exclusive, Unused, LeftBehind
  <1>4. LedgerAgrees
    BY DEF Init, LedgerAgrees, NoCount
  <1>5. \A s \in Sessions : Sound(s[1], sess[s], table)
    BY <1>2, FreshSound
  <1> QED  BY <1>1, <1>3, <1>4, <1>5 DEF IInv

LEMMA BeginInv == ASSUME IInv, NEW c \in Clients, Begin(c), UNCHANGED ignored PROVE IInv'
  <1> DEFINE s == Mine(c)
             me == sess[s]
             rec == [me EXCEPT !.tx = "open"]
  <1>1. s \in Sessions /\ me \in Records /\ ~(s[2] > gen[s[1]]) /\ ~Abandoned(s)
    BY MineIs
  <1>2. Tidy(me)
    BY <1>1 DEF IInv, Sound
  <1>3. me.tx = "none" /\ me.stmt = "none"
    BY DEF Begin
  <1>4. rec \in Records
    BY <1>1 DEF Records
  <1>5. sess' = [sess EXCEPT ![s] = rec]
    BY <1>1 DEF Begin
  <1>6. Tidy(rec) /\ Doomed(rec) /\ rec.told = NoCount /\ rec.writes = NoWrites
    BY <1>1, <1>2, <1>3 DEF Tidy, Doomed, Told, Records
  <1>7. Sound(s[1], rec, table)
    BY <1>4, <1>6, EmptySound DEF IInv, TypeOK
  <1> QED  BY <1>1, <1>4, <1>5, <1>6, <1>7, QuietSession DEF Begin

LEMMA CallInv ==
    ASSUME IInv, NEW c \in Clients, NEW call \in Calls, Call(c, call), UNCHANGED ignored
    PROVE  IInv'
  <1> DEFINE s == Mine(c)
             me == sess[s]
             rec == [me EXCEPT !.stmt = "running", !.call = call]
  <1>1. s \in Sessions /\ me \in Records /\ ~(s[2] > gen[s[1]]) /\ ~Abandoned(s)
    BY MineIs
  <1>2. Sound(s[1], me, table) /\ me.stmt = "none"
    BY <1>1 DEF IInv, Call
  <1>3. rec \in Records
    BY <1>1 DEF Records
  <1>4. sess' = [sess EXCEPT ![s] = rec]
    BY <1>1 DEF Call
  <1>5. /\ rec.writes = me.writes /\ rec.tx = me.tx /\ rec.told = me.told
        /\ rec.failed = me.failed /\ rec.free = me.free
        /\ rec.stmt = "running" /\ rec.call = call
    BY <1>1 DEF Records
  <1> HIDE DEF rec
  <1>6. Tidy(rec) /\ Doomed(rec)
    BY <1>2, <1>5 DEF Sound, Tidy, Doomed, Told
  <1>7. \A k \in Keys : Sees(rec, table, k) = Sees(me, table, k)
    BY <1>5 DEF Sees
  <1>8. Sound(s[1], rec, table)
    BY <1>2, <1>5, <1>6, <1>7 DEF Sound, Account, Licensed
  <1> QED  BY <1>1, <1>3, <1>4, <1>5, <1>8, QuietSession DEF Call

LEMMA AnswerInv == ASSUME IInv, NEW c \in Clients, Answer(c), UNCHANGED ignored PROVE IInv'
  <1> DEFINE s == Mine(c)
             me == sess[s]
             failed == me.tx # "none" /\ (me.failed \/ Result(me.call, me.out) \in Dooming)
             rec == [me EXCEPT !.stmt = "none", !.call = NoCall, !.out = "0", !.failed = failed]
  <1>1. s \in Sessions /\ me \in Records /\ ~(s[2] > gen[s[1]])
    BY MineIs
  <1>2. Sound(s[1], me, table) /\ me.stmt = "done"
    BY <1>1 DEF IInv, Answer
  <1>3. rec \in Records
    BY <1>1 DEF Records
  <1>4. sess' = [sess EXCEPT ![s] = rec]
    BY <1>1 DEF Answer, Records
  <1>5. /\ rec.writes = me.writes /\ rec.tx = me.tx /\ rec.told = me.told
        /\ rec.failed = failed /\ rec.free = me.free /\ rec.stmt = "none"
    BY <1>1 DEF Records
  <1> HIDE DEF rec
  <1>6. Tidy(rec) /\ Doomed(rec)
    BY <1>2, <1>5 DEF Sound, Tidy, Doomed, Told
  <1>7. \A k \in Keys : Sees(rec, table, k) = Sees(me, table, k)
    BY <1>5 DEF Sees
  <1>8. Sound(s[1], rec, table)
    BY <1>2, <1>5, <1>6, <1>7 DEF Sound, Account, Licensed
  <1> QED  BY <1>1, <1>3, <1>4, <1>5, <1>8, QuietSession DEF Answer

LEMMA DeadlineInv == ASSUME IInv, NEW c \in Clients, Deadline(c), UNCHANGED ignored PROVE IInv'
  <1> DEFINE me == sess[Mine(c)]
             k == me.call.key
             leave == me.stmt = "running" /\ c \in Leavers /\ gen[c] < MaxGen
             net == IF me.tx = "none" /\ me.stmt = "done" THEN Tally(me.call, me.out) ELSE 0
  <1>a. Mine(c) \in Sessions /\ me.stmt # "none" /\ me.call \in Calls /\ k \in Keys
    BY MineIs DEF Deadline, IInv, Sound, Tidy, Calls
  <1>b. net \in Int /\ (net > 0 => me.call.op = "create") /\ (net < 0 => me.call.op = "delete")
    BY <1>a, TallyIs
  <1>c. /\ table' = table /\ ledger' = [ledger EXCEPT ![k] = @ - net]
        /\ lost' = [lost EXCEPT ![k] = @ + net]
        /\ gaveUp' = IF /\ leave \/ net # 0
                        /\ me.tx = "none" /\ me.call.op \in {"create", "delete"}
                     THEN gaveUp \cup {<<me.call.op, k>>} ELSE gaveUp
        /\ IF leave THEN gen' = [gen EXCEPT ![c] = @ + 1] /\ UNCHANGED sess
                    ELSE sess' = [sess EXCEPT ![Mine(c)] = Fresh] /\ UNCHANGED gen
    BY DEF Deadline
  <1>d. gaveUp \subseteq gaveUp' /\ (net # 0 => me.tx = "none")
    BY <1>c
  <1> HIDE DEF net
  <1>e. /\ ledger' \in [Keys -> Int] /\ lost' \in [Keys -> Int]
        /\ ledger'[k] = ledger[k] - net /\ lost'[k] = lost[k] + net
        /\ \A j \in Keys : j # k => ledger'[j] = ledger[j] /\ lost'[j] = lost[j]
    BY <1>a, <1>b, <1>c DEF IInv, TypeOK
  <1>f. LedgerAgrees'
    <2>1. ASSUME NEW j \in Keys
          PROVE  /\ ledger'[j] + lost'[j] = IF table'[j] = NoRow THEN 0 ELSE 1
                 /\ lost'[j] > 0 => <<"create", j>> \in gaveUp'
                 /\ lost'[j] < 0 => <<"delete", j>> \in gaveUp'
      <3>1. /\ ledger[j] \in Int /\ lost[j] \in Int
            /\ ledger[j] + lost[j] = IF table[j] = NoRow THEN 0 ELSE 1
            /\ lost[j] > 0 => <<"create", j>> \in gaveUp
            /\ lost[j] < 0 => <<"delete", j>> \in gaveUp
        BY DEF IInv, TypeOK, LedgerAgrees
      <3>2. CASE j # k
        BY <1>c, <1>d, <1>e, <3>1, <3>2
      <3>3. CASE j = k
        <4>1. net > 0 => <<"create", k>> \in gaveUp'
          BY <1>b, <1>c, <1>d
        <4>2. net < 0 => <<"delete", k>> \in gaveUp'
          BY <1>b, <1>c, <1>d
        <4>3. ledger'[k] + lost'[k] = ledger[k] + lost[k]
          BY <1>b, <1>e, <3>1, <3>3
        <4>4. (lost'[k] > 0 => lost[k] > 0 \/ net > 0) /\ (lost'[k] < 0 => lost[k] < 0 \/ net < 0)
          BY <1>b, <1>e, <3>1, <3>3
        <4> QED  BY <1>c, <1>d, <3>1, <3>3, <4>1, <4>2, <4>3, <4>4
      <3> QED  BY <3>2, <3>3
    <2> QED  BY <2>1 DEF LedgerAgrees
  <1>1. CASE sess' = [sess EXCEPT ![Mine(c)] = Fresh] /\ UNCHANGED gen
    <2>1. table' \in [Keys -> Maybe] /\ table' = table
      BY <1>c DEF IInv, TypeOK
    <2> QED  BY <1>1, <1>a, <1>d, <1>e, <1>f, <2>1, SessionDone
  <1>2. CASE leave /\ gen' = [gen EXCEPT ![c] = @ + 1] /\ UNCHANGED sess
    <2>1. gen[c] \in 0..MaxGen /\ MaxGen \in Nat
      BY CrudConstants DEF IInv, TypeOK
    <2>2. UNCHANGED <<table, ignored, sess>>
      BY <1>2, <1>c
    <2>3. TypeOK' /\ Exclusive'
      BY <1>2, <1>e, <2>1, <2>2 DEF IInv, TypeOK, Exclusive
    <2>5. LeftBehind'
      <3>1. ASSUME NEW s \in Sessions, Abandoned(s)'
            PROVE  Abandoned(s) \/ s = Mine(c)
        <4>1. s = <<s[1], s[2]>> /\ s[1] \in Clients /\ s[2] \in 0..MaxGen /\ gen[s[1]] \in 0..MaxGen
          BY DEF IInv, TypeOK, Sessions
        <4>2. s[1] # c => gen'[s[1]] = gen[s[1]]
          BY <1>2, <4>1 DEF IInv, TypeOK
        <4>3. s[1] = c => gen'[c] = gen[c] + 1
          BY <1>2, <4>1 DEF IInv, TypeOK
        <4>4. s[2] < gen'[s[1]]
          BY <3>1 DEF Abandoned
        <4>5. s[2] < gen[s[1]] \/ (s[1] = c /\ s[2] = gen[c])
          BY <2>1, <4>1, <4>2, <4>3, <4>4
        <4> QED  BY <4>1, <4>5 DEF Abandoned, Mine
      <3>2. me.tx = "none" /\ me.call.op \in {"create", "delete"} => <<me.call.op, k>> \in gaveUp'
        BY <1>2, <1>c
      <3> QED  BY <1>d, <2>2, <3>1, <3>2 DEF IInv, LeftBehind
    <2>4. ASSUME NEW s \in Sessions, s[2] > gen'[s[1]] PROVE sess'[s] = Fresh
      <3>1. s[1] \in Clients /\ s[2] \in 0..MaxGen /\ gen[s[1]] \in 0..MaxGen
        BY DEF IInv, TypeOK, Sessions
      <3>2. gen'[s[1]] = gen[s[1]] \/ gen'[s[1]] = gen[s[1]] + 1
        BY <1>2, <3>1 DEF IInv, TypeOK
      <3>3. s[2] > gen[s[1]]
        BY <2>1, <2>4, <3>1, <3>2
      <3> QED  BY <2>2, <3>3 DEF IInv, Unused
    <2> QED  BY <1>f, <2>2, <2>3, <2>4, <2>5 DEF IInv, Unused
  <1> QED  BY <1>1, <1>2, <1>c

LEMMA CommitInv == ASSUME IInv, NEW c \in Clients, Commit(c), UNCHANGED ignored PROVE IInv'
  <1> DEFINE s == Mine(c)
             me == sess[s]
  <1>1. s \in Sessions /\ me \in Records /\ Sound(s[1], me, table)
    BY MineIs DEF IInv
  <1>2. sess' = [sess EXCEPT ![s] = Fresh] /\ UNCHANGED <<gen, ignored>>
    BY DEF Commit
  <1>3. CASE me.tx # "open"
    BY <1>1, <1>2, <1>3, SessionEnds DEF Commit, told
  <1>4. CASE me.tx = "open"
    <2>1. Publish(s)
      BY <1>4 DEF Commit
    <2>2. \A k \in Keys : View(s, k) = Sees(me, table, k) /\ Sees(me, table, k) \in Maybe
      BY <1>1, SeesType DEF View, Sees, IInv, TypeOK
    <2>3. table' \in [Keys -> Maybe] /\ \A k \in Keys : table'[k] = Sees(me, table, k)
      BY <2>1, <2>2 DEF Publish
    <2>7. UNCHANGED <<lost, gaveUp>> /\ lost' \in [Keys -> Int]
      BY DEF Commit, IInv, TypeOK
    <2>4. ledger' \in [Keys -> Int] /\ LedgerAgrees'
      <3>1. \A k \in Keys : /\ me.told[k] = Has(Sees(me, table, k)) - Has(table[k])
                            /\ ledger[k] + lost[k] = Has(table[k])
                            /\ ledger'[k] = ledger[k] + me.told[k] /\ lost'[k] = lost[k]
        BY <1>1, <1>4, <2>1, <2>7 DEF Sound, Account, Publish, IInv, LedgerAgrees, Has
      <3>2. \A k \in Keys : /\ Has(Sees(me, table, k)) \in Int /\ Has(table[k]) \in Int
                            /\ ledger[k] \in Int /\ lost[k] \in Int
        BY DEF Has, IInv, TypeOK
      <3>3. \A k \in Keys : ledger'[k] + lost'[k] = Has(table'[k])
        BY <2>3, <3>1, <3>2
      <3>4. ledger' \in [Keys -> Int]
        BY <1>1, <2>1 DEF Publish, IInv, TypeOK, Records
      <3> QED  BY <2>7, <3>3, <3>4 DEF LedgerAgrees, Has, IInv
    <2>5. ASSUME NEW o \in Sessions, o # s, NEW k \in Keys, k \in DOMAIN sess[o].writes
          PROVE  table'[k] = table[k]
      <3>1. k \notin DOMAIN me.writes
        BY <1>1, <2>5 DEF IInv, Exclusive
      <3> QED  BY <2>3, <3>1 DEF Sees
    <2> HIDE DEF s, me
    <2> QED  BY <1>1, <1>2, <2>3, <2>4, <2>5, <2>7, SessionDone
  <1> QED  BY <1>3, <1>4

(* A statement that fails: the record of it, before an open transaction    *)
(* is aborted.                                                             *)
Failed(r, out) == [r EXCEPT !.stmt = "done", !.out = out]

LEMMA FailedSound ==
    ASSUME NEW c, NEW r \in Records, NEW T \in [Keys -> Maybe], Tidy(r),
           NEW out \in Codes, Result(r.call, out) \in Dooming, r.stmt = "running"
    PROVE  /\ Aborts(Failed(r, out)) \in Records /\ Sound(c, Aborts(Failed(r, out)), T)
           /\ Aborts(Failed(r, out)).writes = NoWrites /\ Aborts(Failed(r, out)).stmt = "done"
           /\ r.tx = "aborted" => Aborts(Failed(r, out)) = Failed(r, out)
  <1> DEFINE a == Aborts(Failed(r, out))
  <1>1. /\ a.tx = (IF r.tx = "open" THEN "aborted" ELSE r.tx) /\ a.stmt = "done"
        /\ a.call = r.call /\ a.out = out /\ a.writes = NoWrites
        /\ a.told = r.told /\ a.failed = r.failed /\ a.free = r.free
    BY DEF Aborts, Failed, Records
  <1>2. NoWrites \in Writes
    BY FreshType DEF Fresh, Records
  <1>3. a \in Records
    BY <1>2 DEF Aborts, Failed, Records
  <1>4. r.tx = "aborted" => a = Failed(r, out)
    BY DEF Aborts, Failed, Records, Tidy
  <1> HIDE DEF a
  <1>5. Tidy(a)
    BY <1>1 DEF Tidy
  <1>6. Doomed(a) /\ a.tx # "open"
    BY <1>1 DEF Doomed, Told, Records
  <1> QED  BY <1>1, <1>3, <1>4, <1>5, <1>6, EmptySound DEF a

LEMMA BreakDeadlockInv ==
    ASSUME IInv, NEW s \in Sessions, BreakDeadlock(s), UNCHANGED ignored PROVE IInv'
  <1> DEFINE me == sess[s]
             rec == Aborts(Failed(me, "40P01"))
  <1>1. me \in Records /\ Tidy(me) /\ me.stmt = "running"
    BY DEF IInv, TypeOK, Sound, BreakDeadlock, Deadlocked, WaitsFor
  <1>2. me.call \in Calls
    BY <1>1 DEF Tidy
  <1>3. Result(me.call, "40P01") \in Dooming
    BY <1>2, FailureIsInternal
  <1>4. rec \in Records /\ Sound(s[1], rec, table) /\ rec.writes = NoWrites /\ rec.stmt = "done"
    BY <1>1, <1>3, FailedSound DEF Codes, IInv, TypeOK
  <1>5. \/ sess' = [sess EXCEPT ![s] = Fresh]
        \/ sess' = [sess EXCEPT ![s] = rec]
    BY DEF BreakDeadlock, Failed, IInv, TypeOK
  <1>6. ~(s[2] > gen[s[1]])
    BY <1>1, InUse
  <1> HIDE DEF rec
  <1> QED  BY <1>4, <1>5, <1>6, SessionEnds, QuietSession DEF BreakDeadlock

(* A statement that waits for nobody leaves the rows others have written.  *)
LEMMA NotBlocked ==
    ASSUME IInv, NEW s \in Sessions, NEW o \in Sessions, o # s,
           sess[s].stmt = "running", sess[s].tx # "aborted", ~Blocked(s),
           sess[s].call.key \in DOMAIN sess[o].writes,
           NEW row \in Maybe, row = View(s, sess[s].call.key),
           NEW e, e = Effect(row, sess[s].call, s[1])
    PROVE  e.row = row /\ ~Writing(sess[s], e)
  <1> DEFINE call == sess[s].call
  <1>1. call \in Calls /\ s[1] \in Clients
    BY DEF IInv, Sound, Tidy, Sessions
  <1>2. ~WaitsFor(s, o)
    BY DEF Blocked
  <1>3. call.op \in {"get", "create", "update", "delete"}
    BY <1>1 DEF Calls
  <1>4. \/ call.op = "get"
        \/ call.op = "create" /\ call.key \in ignored
        \/ call.op \in {"update", "delete"} /\ ~Matches(row, call, s[1])
    BY <1>2, <1>3 DEF WaitsFor, Touches
  <1> QED  BY <1>1, <1>4, QuietEffect DEF Writing

LEMMA ExecuteInv ==
    ASSUME IInv, NEW s \in Sessions, Execute(s), UNCHANGED ignored PROVE IInv'
  <1> DEFINE me == sess[s]
             k == me.call.key
             row == View(s, k)
             e == Effect(row, me.call, s[1])
             done == [me EXCEPT !.stmt = "done", !.out = e.out]
             Becomes(rec) == sess' = [sess EXCEPT ![s] = IF Abandoned(s) THEN Fresh ELSE rec]
  <1>1. /\ me \in Records /\ me.stmt = "running" /\ ~Blocked(s) /\ Sound(s[1], me, table)
        /\ table \in [Keys -> Maybe] /\ s[1] \in Clients
    BY DEF IInv, TypeOK, Execute, Sessions
  <1>2. me.call \in Calls /\ k \in Keys
    BY <1>1 DEF Sound, Tidy, Calls
  <1>3. row = Sees(me, table, k) /\ row \in Maybe
    BY <1>1, <1>2, SeesType DEF View, Sees
  <1>4. /\ e.out \in {"0", "1", "23505"} /\ e.row \in Maybe
        /\ e.out = "23505" <=> Result(me.call, e.out) \in Dooming
        /\ e.out # "23505" => Tally(me.call, e.out) = Has(e.row) - Has(row)
    BY <1>1, <1>2, <1>3, EffectIs
  <1>5. ~(s[2] > gen[s[1]]) /\ UNCHANGED <<gen, ignored, gaveUp>>
    BY <1>1, InUse DEF Execute
  <1>e. e = Effect(row, me.call, s[1]) /\ row = View(s, k)
    OBVIOUS
  <1> HIDE DEF e, row
  <1>6. CASE me.tx = "aborted" /\ Becomes([done EXCEPT !.out = "25P02"])
             /\ UNCHANGED <<table, ledger, lost>>
    <2> DEFINE rec == Failed(me, "25P02")
    <2>1. Result(me.call, "25P02") \in Dooming
      BY <1>2, FailureIsInternal
    <2>2. rec \in Records /\ Sound(s[1], rec, table) /\ rec.writes = NoWrites /\ rec.stmt = "done"
      BY <1>1, <1>6, <2>1, FailedSound DEF Codes, Sound
    <2>3. [done EXCEPT !.out = "25P02"] = rec
      BY <1>1 DEF Failed, Records
    <2> HIDE DEF rec
    <2> QED  BY <1>5, <1>6, <2>2, <2>3, SessionEnds, QuietSession DEF told
  <1>7. CASE me.tx # "aborted" /\ e.out \in Codes /\ Becomes(Aborts(done))
             /\ UNCHANGED <<table, ledger, lost>>
    <2> DEFINE rec == Aborts(done)
    <2>1. Result(me.call, e.out) \in Dooming
      BY <1>4, <1>7 DEF Codes
    <2>2. rec \in Records /\ Sound(s[1], rec, table) /\ rec.writes = NoWrites /\ rec.stmt = "done"
      BY <1>1, <1>7, <2>1, FailedSound DEF Failed, Sound
    <2>3. \/ sess' = [sess EXCEPT ![s] = Fresh]
          \/ sess' = [sess EXCEPT ![s] = rec]
      BY <1>7
    <2>4. UNCHANGED <<table, gen, ignored, told>>
      BY <1>5, <1>7 DEF told
    <2> HIDE DEF rec
    <2> QED  BY <1>5, <2>2, <2>3, <2>4, SessionEnds, QuietSession
  <1>8. CASE /\ me.tx = "open" /\ e.out \notin Codes
             /\ Becomes([done EXCEPT
                   !.told[k] = @ + Tally(me.call, e.out),
                   !.free = IF e.out = "1" THEN @ \cup Unscoped(me.call) ELSE @,
                   !.writes = IF e.out = "1" /\ me.call.op # "get" THEN Put(@, k, e.row) ELSE @])
             /\ UNCHANGED <<table, ledger, lost>>
    <2> DEFINE rec == Worked(me, e)
    <2>1. /\ rec \in Records /\ Sound(s[1], rec, table)
          /\ rec.writes = IF Writing(me, e) THEN Put(me.writes, k, e.row) ELSE me.writes
      <3>1. e = Effect(Sees(me, table, k), me.call, s[1])
        BY <1>3, <1>e
      <3> QED  BY <1>1, <1>8, <3>1, WorkedSound
    <2>2. sess' = [sess EXCEPT ![s] = IF Abandoned(s) THEN Fresh ELSE rec]
      BY <1>8 DEF Worked
    <2>3. ASSUME NEW o \in Sessions, o # s
          PROVE  DOMAIN rec.writes \cap DOMAIN sess[o].writes = {}
      <3>1. DOMAIN me.writes \cap DOMAIN sess[o].writes = {}
        BY <2>3 DEF IInv, Exclusive
      <3>2. CASE ~Writing(me, e)
        BY <2>1, <3>1, <3>2
      <3>3. CASE Writing(me, e)
        <4>1. k \notin DOMAIN sess[o].writes
          BY <1>1, <1>3, <1>8, <1>e, <2>3, <3>3, NotBlocked
        <4>2. DOMAIN rec.writes = DOMAIN me.writes \cup {k}
          BY <2>1, <3>3 DEF Put
        <4> QED  BY <3>1, <4>1, <4>2
      <3> QED  BY <3>2, <3>3
    <2> HIDE DEF rec
    <2>4. /\ table' \in [Keys -> Maybe] /\ ledger' \in [Keys -> Int] /\ lost' \in [Keys -> Int]
          /\ LedgerAgrees' /\ gaveUp \subseteq gaveUp'
      BY <1>5, <1>8 DEF IInv, TypeOK, LedgerAgrees
    <2>5. UNCHANGED <<table, gen, ignored, told>>
      BY <1>5, <1>8 DEF told
    <2>6. CASE Abandoned(s)
      BY <2>2, <2>5, <2>6, SessionEnds
    <2>7. CASE ~Abandoned(s)
      <3>1. sess' = [sess EXCEPT ![s] = rec]
        BY <2>2, <2>7
      <3> QED  BY <1>5, <2>1, <2>3, <2>4, <2>5, <2>7, <3>1, OneSession
    <2> QED  BY <2>6, <2>7
  <1>9. CASE /\ me.tx = "none" /\ e.out \notin Codes /\ Becomes(done)
             /\ table' = [table EXCEPT ![k] = e.row]
             /\ IF Abandoned(s)
                THEN lost' = [lost EXCEPT ![k] = @ + Tally(me.call, e.out)] /\ UNCHANGED ledger
                ELSE ledger' = [ledger EXCEPT ![k] = @ + Tally(me.call, e.out)] /\ UNCHANGED lost
    <2>1. me.writes = NoWrites /\ row = table[k]
      BY <1>1, <1>3, <1>9 DEF Sound, Tidy, Sees, NoWrites
    <2>2. table' \in [Keys -> Maybe] /\ table'[k] = e.row
          /\ \A j \in Keys : j # k => table'[j] = table[j]
      BY <1>1, <1>2, <1>4, <1>9
    <2>3. ledger' \in [Keys -> Int] /\ lost' \in [Keys -> Int] /\ LedgerAgrees'
      <3> DEFINE net == Tally(me.call, e.out)
      <3>1. /\ net = Has(e.row) - Has(table[k]) /\ net \in Int
            /\ (net > 0 => me.call.op = "create") /\ (net < 0 => me.call.op = "delete")
        BY <1>2, <1>4, <1>9, <2>1, TallyIs DEF Codes
      <3> HIDE DEF net
      <3>2. /\ Has(e.row) \in Int /\ Has(table[k]) \in Int
            /\ ledger \in [Keys -> Int] /\ lost \in [Keys -> Int]
        BY DEF Has, IInv, TypeOK
      <3>3. /\ ledger[k] + lost[k] = Has(table[k])
            /\ lost[k] > 0 => <<"create", k>> \in gaveUp
            /\ lost[k] < 0 => <<"delete", k>> \in gaveUp
        BY <1>2 DEF IInv, LedgerAgrees, Has
      <3>4. /\ ledger' \in [Keys -> Int] /\ lost' \in [Keys -> Int]
            /\ \A j \in Keys : j # k => ledger'[j] = ledger[j] /\ lost'[j] = lost[j]
            /\ \/ Abandoned(s) /\ lost'[k] = lost[k] + net /\ ledger'[k] = ledger[k]
               \/ ledger'[k] = ledger[k] + net /\ lost'[k] = lost[k]
        BY <1>2, <1>9, <3>1, <3>2 DEF net
      <3>5. ledger'[k] + lost'[k] = Has(e.row)
        BY <1>2, <3>1, <3>2, <3>3, <3>4
      <3>6. /\ lost'[k] > 0 => <<"create", k>> \in gaveUp
            /\ lost'[k] < 0 => <<"delete", k>> \in gaveUp
        <4>1. Abandoned(s) /\ net # 0 => <<me.call.op, k>> \in gaveUp
          BY <1>1, <1>9, <3>1 DEF IInv, LeftBehind
        <4>2. lost[k] \in Int
          BY <1>2, <3>2
        <4> QED  BY <3>1, <3>3, <3>4, <4>1, <4>2
      <3> QED  BY <1>5, <2>2, <3>4, <3>5, <3>6 DEF IInv, LedgerAgrees, Has
    <2>4. done \in Records /\ done.writes = NoWrites /\ done.tx = "none" /\ done.stmt = "done"
      BY <1>1, <1>4, <1>9, <2>1 DEF Records, Codes
    <2>5. Tidy(done) /\ Doomed(done)
      BY <1>1, <1>2, <1>9, <2>4 DEF Sound, Tidy, Doomed, Records
    <2>6. Sound(s[1], done, table')
      BY <2>2, <2>4, <2>5, EmptySound
    <2>7. ASSUME NEW o \in Sessions, o # s, NEW j \in Keys, j \in DOMAIN sess[o].writes
          PROVE  table'[j] = table[j]
      <3>1. CASE j = k
        <4>1. me.tx # "aborted" /\ k \in DOMAIN sess[o].writes
          BY <1>9, <2>7, <3>1
        <4>2. e.row = row
          BY <1>1, <1>3, <1>e, <2>7, <4>1, NotBlocked
        <4> QED  BY <2>1, <2>2, <3>1, <4>2
      <3> QED  BY <2>2, <3>1
    <2>8. DOMAIN NoWrites = {} /\ Fresh.writes = NoWrites
      BY DEF NoWrites, Fresh
    <2> HIDE DEF done
    <2>9. PICK rec \in {Fresh, done} : sess' = [sess EXCEPT ![s] = rec]
      BY <1>9 DEF done
    <2>11. rec.stmt # "running"
      BY <2>4, <2>9 DEF Fresh
    <2>10. rec \in Records /\ Sound(s[1], rec, table') /\ rec.writes = NoWrites
      BY <2>4, <2>6, <2>8, <2>9, FreshType, FreshSound
    <2> QED  BY <1>5, <2>2, <2>3, <2>7, <2>8, <2>9, <2>10, <2>11, OneSession
  <1> QED  BY <1>6, <1>7, <1>8, <1>9 DEF Execute, Alone, e, row

LEMMA StutterInv == ASSUME IInv, UNCHANGED vars PROVE IInv'
  BY DEF IInv, TypeOK, Exclusive, Unused, LeftBehind, Abandoned, LedgerAgrees, vars, told

LEMMA NextInv == ASSUME IInv, [Next]_vars PROVE IInv'
  <1>1. CASE UNCHANGED vars
    BY <1>1, StutterInv
  <1>2. CASE Next
    <2>0. UNCHANGED ignored
      BY <1>2 DEF Next
    <2>1. ASSUME NEW s \in Sessions, Execute(s) PROVE IInv'
      BY <2>0, <2>1, ExecuteInv
    <2>2. ASSUME NEW s \in Sessions, BreakDeadlock(s) PROVE IInv'
      BY <2>0, <2>2, BreakDeadlockInv
    <2>3. ASSUME NEW s \in Sessions, Discard(s) PROVE IInv'
      BY <2>0, <2>3, SessionEnds DEF Discard
    <2>4. ASSUME NEW c \in Clients, Begin(c) PROVE IInv'
      BY <2>0, <2>4, BeginInv
    <2>5. ASSUME NEW c \in Clients, NEW call \in Calls, Call(c, call) PROVE IInv'
      BY <2>0, <2>5, CallInv
    <2>6. ASSUME NEW c \in Clients, Answer(c) PROVE IInv'
      BY <2>0, <2>6, AnswerInv
    <2>7. ASSUME NEW c \in Clients, Deadline(c) PROVE IInv'
      BY <2>0, <2>7, DeadlineInv
    <2>8. ASSUME NEW c \in Clients, Commit(c) PROVE IInv'
      BY <2>0, <2>8, CommitInv
    <2>9. ASSUME NEW c \in Clients, Rollback(c) PROVE IInv'
      BY <2>0, <2>9, MineIs, SessionEnds DEF Rollback
    <2> QED  BY <1>2, <2>1, <2>2, <2>3, <2>4, <2>5, <2>6, <2>7, <2>8, <2>9 DEF Next
  <1> QED  BY <1>1, <1>2

(* The invariant holds of every behaviour of the helpers.                  *)
THEOREM Inductive == Spec => []IInv
  <1>1. IInv /\ [Next]_vars => IInv'
    BY NextInv
  <1> QED  BY InitInv, <1>1, PTL DEF Spec

(* LedgerAgrees, for any number of clients, keys and sessions: what the    *)
(* helpers report as stored and as removed is what the table holds, but    *)
(* for creates and deletes that were given up and took effect.             *)
THEOREM BooksBalance == Spec => []LedgerAgrees
  <1>1. IInv => LedgerAgrees
    BY DEF IInv
  <1> QED  BY Inductive, <1>1, PTL

(* DoomedExactlyWhenTold: a caller that looks at what the helpers return   *)
(* knows whether its transaction can still commit.                         *)
THEOREM CallerKnows == Spec => []DoomedExactlyWhenTold
  <1>1. ASSUME IInv PROVE DoomedExactlyWhenTold
    <2> SUFFICES ASSUME NEW c \in Clients, sess[Mine(c)].tx # "none",
                        sess[Mine(c)].stmt = "none"
                 PROVE  sess[Mine(c)].tx = "aborted" <=> sess[Mine(c)].failed
      BY DEF DoomedExactlyWhenTold
    <2>1. Sound(Mine(c)[1], sess[Mine(c)], table)
      BY <1>1, MineIs DEF IInv
    <2> QED  BY <2>1 DEF Sound, Doomed, Told
  <1>2. IInv => DoomedExactlyWhenTold
    BY <1>1
  <1> QED  BY Inductive, <1>2, PTL

-----------------------------------------------------------------------------
(* Which steps change the table: a commit, and a statement by itself.      *)
Commits(s) == /\ sess[s].tx = "open" /\ sess[s].stmt = "none"
              /\ \A k \in Keys : table'[k] = Sees(sess[s], table, k)
              /\ sess'[s] = Fresh
AutoCommits(s) ==
    LET call == sess[s].call IN
    /\ sess[s].tx = "none" /\ call \in Calls
    /\ \A k \in Keys : k # call.key => table'[k] = table[k]
    /\ table'[call.key] = Effect(table[call.key], call, s[1]).row

LEMMA TableChanges ==
    ASSUME IInv, [Next]_vars, table' # table, NEW s \in Sessions, sess'[s] # sess[s]
    PROVE  Commits(s) \/ AutoCommits(s)
  <1>1. \/ \E x \in Sessions : Execute(x)
        \/ \E c \in Clients : Commit(c)
    BY DEF Next, vars, BreakDeadlock, Discard, Begin, Call, Answer, Deadline, Rollback
  <1>2. ASSUME NEW c \in Clients, Commit(c) PROVE Commits(s)
    <2> DEFINE x == Mine(c)
    <2>1. x \in Sessions
      BY MineIs
    <2>2. sess[x].tx = "open" /\ sess[x].stmt = "none" /\ Publish(x)
          /\ sess' = [sess EXCEPT ![x] = Fresh]
      BY <1>2 DEF Commit
    <2>3. sess'[x] = Fresh /\ x = s
      BY <2>1, <2>2 DEF IInv, TypeOK
    <2>4. \A k \in Keys : table'[k] = Sees(sess[x], table, k)
      BY <2>2 DEF Publish, View, Sees
    <2> QED  BY <2>2, <2>3, <2>4 DEF Commits
  <1>3. ASSUME NEW x \in Sessions, Execute(x) PROVE AutoCommits(s)
    <2>0. \E rec : sess' = [sess EXCEPT ![x] = rec]
      BY <1>3 DEF Execute
    <2>1. x = s
      BY <2>0 DEF IInv, TypeOK
    <2> DEFINE me == sess[s]
               k == me.call.key
               e == Effect(View(s, k), me.call, s[1])
    <2>2. me.tx = "none" /\ me.stmt = "running" /\ table' = [table EXCEPT ![k] = e.row]
      BY <1>3, <2>1 DEF Execute, Alone
    <2>3. me.call \in Calls /\ k \in Keys /\ View(s, k) = table[k]
      BY <2>2 DEF IInv, Sound, Tidy, Calls, View, NoWrites
    <2>4. table'[k] = Effect(table[k], me.call, s[1]).row
      BY <2>2, <2>3 DEF IInv, TypeOK
    <2>5. \A j \in Keys : j # k => table'[j] = table[j]
      BY <2>2 DEF IInv, TypeOK
    <2> QED  BY <2>2, <2>3, <2>4, <2>5 DEF AutoCommits
  <1> QED  BY <1>1, <1>2, <1>3

(* TransactionsAtomic: nothing of a transaction shows before its commit,   *)
(* and nothing at all once one of its helpers has failed.                  *)
THEOREM NothingHalfDone == Spec => TransactionsAtomic
  <1>1. ASSUME IInv, [Next]_vars PROVE PublishedByCommit
    <2> SUFFICES ASSUME NEW s \in Sessions, Steps(s), sess[s].tx # "none", table' # table
                 PROVE  sess'[s] = Fresh /\ ~sess[s].failed
      BY DEF PublishedByCommit
    <2>1. Commits(s)
      BY <1>1, TableChanges DEF Steps, AutoCommits
    <2>2. Doomed(sess[s]) /\ sess[s].failed \in BOOLEAN
      BY <1>1 DEF IInv, Sound, TypeOK, Records
    <2> QED  BY <2>1, <2>2 DEF Commits, Doomed, Told
  <1>2. IInv /\ [Next]_vars => [PublishedByCommit]_vars
    BY <1>1
  <1> QED  BY Inductive, <1>2, PTL DEF Spec, TransactionsAtomic

(* OwnershipKept: no interleaving and no statement left behind takes a row *)
(* from its owner where the call named the owner.                          *)
THEOREM OwnersKeepTheirs == Spec => OwnershipKept
  <1>1. ASSUME IInv, [Next]_vars PROVE OwnersRespected
    <2> SUFFICES ASSUME NEW k \in Keys, NEW s \in Sessions, Steps(s),
                        table[k] # NoRow, table'[k] # table[k]
                 PROVE  /\ s[1] = table[k].owner \/ Licence(s) # {}
                        /\ table'[k] # NoRow /\ table'[k].owner # table[k].owner
                               => "owner" \in Licence(s)
      BY DEF OwnersRespected
    <2>0. table' # table
      OBVIOUS
    <2>1. Commits(s) \/ AutoCommits(s)
      BY <1>1, <2>0, TableChanges DEF Steps
    <2>2. Sound(s[1], sess[s], table) /\ table[k] \in Maybe /\ s[1] \in Clients
      BY <1>1 DEF IInv, TypeOK, Sessions
    <2>3. CASE Commits(s)
      BY <2>2, <2>3 DEF Commits, Sound, Licensed, Licence
    <2>4. CASE AutoCommits(s)
      <3>1. sess[s].call.key = k /\ sess[s].call \in Calls /\ sess[s].tx = "none"
            /\ table'[k] = Effect(table[k], sess[s].call, s[1]).row
        BY <2>4 DEF AutoCommits
      <3>2. Unscoped(sess[s].call) \subseteq Licence(s)
        BY <3>1 DEF Licence
      <3>3. /\ table[k].owner = s[1] \/ Unscoped(sess[s].call) # {}
            /\ table'[k] # NoRow /\ table'[k].owner # table[k].owner
                   => "owner" \in Unscoped(sess[s].call)
        BY <2>2, <3>1, EffectIs
      <3> QED  BY <3>2, <3>3
    <2> QED  BY <2>1, <2>3, <2>4
  <1>2. IInv /\ [Next]_vars => [OwnersRespected]_vars
    BY <1>1
  <1> QED  BY Inductive, <1>2, PTL DEF Spec, OwnershipKept
=============================================================================
