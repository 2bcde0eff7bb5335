-------------------------------- MODULE Crud --------------------------------
(***************************************************************************)
(* The helpers of src/crud/crud.go, called by concurrent resolvers on one  *)
(* table, alone or inside a transaction, with deadlines that give a        *)
(* statement up while Postgres still runs it; and what PresentError lets   *)
(* out of their results (src/luimaerr/errors.go).                          *)
(*                                                                         *)
(* Postgres is not part of the repository.  It is modelled from what the   *)
(* helpers rely on: READ COMMITTED, a writer of a row waits for the other  *)
(* session that wrote it, an error aborts the transaction it happens in, a *)
(* cycle of waits ends with an error for one of them.  A session whose     *)
(* client has given up runs on (src/db/db.go, lines 402-453).              *)
(***************************************************************************)
EXTENDS Integers, FiniteSets

CONSTANTS Clients,   \* resolvers; each acts for an owner of the same name
          Keys,      \* primary keys
          Triggers,  \* the sets of keys a BEFORE INSERT trigger may answer with NULL
          Leavers,   \* clients that may leave a session running behind them
          NoRow,     \* the absence of a row
          MaxCalls,  \* bound: helper calls per client
          MaxGen     \* bound: sessions such a client leaves behind

ASSUME CrudConstants ==
    /\ Triggers \subseteq SUBSET Keys /\ Leavers \subseteq Clients
    /\ NoRow \notin [owner : Clients, note : Clients]
    /\ MaxCalls \in Nat /\ MaxGen \in Nat

Sessions == Clients \X (0 .. MaxGen)
Codes    == {"23505", "25P02", "40P01"}     \* unique, aborted transaction, deadlock

(* A call of a helper.  "scoped" is the ownership predicate, "column" a    *)
(* q.Column("note"), "ignore" is ON CONFLICT DO NOTHING.                   *)
Calls == [op : {"get", "delete"}, key : Keys, opt : {"none", "scoped"}]
         \cup [op : {"update"}, key : Keys, opt : {"none", "scoped", "column"}]
         \cup [op : {"create"}, key : Keys, opt : {"none", "ignore"}]

VARIABLES
    ignored, \* the keys a BEFORE INSERT trigger answers with NULL
    table,   \* the committed rows
    sess,    \* sess[s]: a database session
    gen,     \* gen[c]: the session client c uses now
    calls,   \* calls[c]: how many helpers c has called
    ledger,  \* history: creates less deletes whose committed work a helper reports
    lost,    \* history: those committed for a caller told only of a deadline
    gaveUp   \* history: the creates and deletes given up outside a transaction
             \* while they ran on, or with their work done, and their keys

told == <<ledger, lost, gaveUp>>
vars == <<ignored, table, sess, gen, calls, told>>

NoWrites == [k \in {} |-> NoRow]
NoCount  == [k \in Keys |-> 0]
NoCall   == [op |-> "none"]

(* tx: the transaction; stmt: the statement; out: rows affected or a code; *)
(* writes: what the session has written but not committed, which is also   *)
(* what it has locked; told, failed, free: history of what the session     *)
(* reported: creates less deletes, an error that dooms a transaction, and  *)
(* the columns it has written without an ownership predicate.              *)
Fresh == [tx |-> "none", stmt |-> "none", call |-> NoCall, out |-> "0",
          writes |-> NoWrites, told |-> NoCount, failed |-> FALSE, free |-> {}]

Mine(c) == <<c, gen[c]>>

Init == /\ ignored \in Triggers
        /\ table = [k \in Keys |-> NoRow]
        /\ sess = [s \in Sessions |-> Fresh]
        /\ gen = [c \in Clients |-> 0]
        /\ calls = [c \in Clients |-> 0]
        /\ ledger = NoCount /\ lost = NoCount /\ gaveUp = {}

-----------------------------------------------------------------------------
(* What a session sees, and whom it waits for.                             *)
View(s, k) == IF k \in DOMAIN sess[s].writes THEN sess[s].writes[k] ELSE table[k]

(* WherePK and the option's predicate.  The variant forgets the predicate. *)
MatchesKeyOnly(row, call, c) == row # NoRow
Matches(row, call, c) == row # NoRow /\ (call.opt = "scoped" => row.owner = c)

Touches(s, k) == k \in DOMAIN sess[s].writes

WaitsFor(s, o) ==
    LET call == sess[s].call IN
    /\ s # o /\ sess[s].stmt = "running" /\ sess[s].tx # "aborted"
    /\ call.op \in {"create", "update", "delete"} /\ Touches(o, call.key)
    /\ call.op = "create" => call.key \notin ignored
    /\ call.op # "create" => Matches(View(s, call.key), call, s[1])
Blocked(s) == \E o \in Sessions : WaitsFor(s, o)

-----------------------------------------------------------------------------
(* The statement of each helper: the rows it affects or its error, and the *)
(* row it leaves (RETURNING reads that row back).                          *)
NewRow(c) == [owner |-> c, note |-> c]

(* A create, its suppression by the trigger or by ON CONFLICT DO NOTHING,  *)
(* and its unique violation.  The variant overwrites on a conflict.        *)
Upserted(row, call, c) ==
    IF call.key \in ignored THEN [out |-> "0", row |-> row]
    ELSE IF row = NoRow \/ call.opt = "ignore" THEN [out |-> "1", row |-> NewRow(c)]
    ELSE [out |-> "23505", row |-> row]
Inserted(row, call, c) ==
    IF call.key \in ignored THEN [out |-> "0", row |-> row]
    ELSE IF row = NoRow THEN [out |-> "1", row |-> NewRow(c)]
    ELSE [out |-> IF call.opt = "ignore" THEN "0" ELSE "23505", row |-> row]

(* A full replace, or the named column alone.  The variant ignores the     *)
(* option.                                                                 *)
ReplacedWhole(row, call, c) ==
    IF ~Matches(row, call, c) THEN [out |-> "0", row |-> row]
    ELSE [out |-> "1", row |-> NewRow(c)]
Replaced(row, call, c) ==
    IF ~Matches(row, call, c) THEN [out |-> "0", row |-> row]
    ELSE [out |-> "1", row |-> IF call.opt = "column" THEN [row EXCEPT !.note = c] ELSE NewRow(c)]

Removed(row, call, c) ==
    IF Matches(row, call, c) THEN [out |-> "1", row |-> NoRow] ELSE [out |-> "0", row |-> row]

Selected(row, call, c) == [out |-> IF Matches(row, call, c) THEN "1" ELSE "0", row |-> row]

Effect(row, call, c) == CASE call.op = "get"    -> Selected(row, call, c)
                          [] call.op = "create" -> Inserted(row, call, c)
                          [] call.op = "update" -> Replaced(row, call, c)
                          [] call.op = "delete" -> Removed(row, call, c)

(* What each helper returns.  "row" and "nil" are a model and (nil, nil);  *)
(* an upper-case code is an error as PresentError answers it, where an     *)
(* error that is no CustomError becomes INTERNAL_SERVER_ERROR.  The         *)
(* variants of Create do not check the row count, and take a unique        *)
(* violation for an insert that was suppressed.                            *)
Internal == "INTERNAL_SERVER_ERROR"

GetResult(out)    == CASE out = "1" -> "row"  [] out = "0" -> "nil" [] OTHER -> Internal
CreateUnchecked(out) == CASE out \in {"0", "1"} -> "row"
                          [] out = "23505" -> "CONFLICT" [] OTHER -> Internal
CreateAbsent(out) == CASE out = "1" -> "row"  [] out \in {"0", "23505"} -> "nil"
                       [] OTHER -> Internal
CreateResult(out) == CASE out = "1" -> "row"  [] out = "0" -> "nil"
                       [] out = "23505" -> "CONFLICT" [] OTHER -> Internal
UpdateResult(out) == CASE out = "1" -> "row"  [] out = "0" -> "NOT_FOUND" [] OTHER -> Internal
DeleteResult(out) == CASE out = "1" -> "true" [] out = "0" -> "false" [] OTHER -> Internal

Result(call, out) == CASE call.op = "get"    -> GetResult(out)
                       [] call.op = "create" -> CreateResult(out)
                       [] call.op = "update" -> UpdateResult(out)
                       [] call.op = "delete" -> DeleteResult(out)

Put(w, k, row) == [x \in DOMAIN w \cup {k} |-> IF x = k THEN row ELSE w[x]]

(* What the caller may conclude: a row stored, a row gone.                 *)
Tally(call, out) == LET v == Result(call, out) IN
    IF call.op = "create" /\ v = "row" THEN 1
    ELSE IF call.op = "delete" /\ v = "true" THEN -1 ELSE 0

Unscoped(call) == IF call.op \in {"get", "create"} \/ call.opt = "scoped" THEN {}
                  ELSE IF call.opt = "column" THEN {"note"} ELSE {"note", "owner"}

(* Without a transaction around it a statement commits by itself.  The     *)
(* variant is a helper that runs on the pool and not on its transaction.   *)
AlwaysAlone(tx) == tx # "aborted"
Alone(tx)       == tx = "none"

(* A session its client has left; it ends, rolling back what is open, once *)
(* it comes to report to a client that is gone.                            *)
Abandoned(s) == s[2] < gen[s[1]]

(* An error aborts an open transaction, and releases what it had locked.   *)
Aborts(rec) == [rec EXCEPT !.tx = IF @ = "open" THEN "aborted" ELSE @, !.writes = NoWrites]

(* Postgres runs the statement of session s.  Outside a transaction the    *)
(* statement is one, so what it writes is committed with it.               *)
Execute(s) ==
    LET me   == sess[s]
        k    == me.call.key
        e    == Effect(View(s, k), me.call, s[1])
        net  == Tally(me.call, e.out)
        done == [me EXCEPT !.stmt = "done", !.out = e.out]
        Becomes(rec) == sess' = [sess EXCEPT ![s] = IF Abandoned(s) THEN Fresh ELSE rec]
    IN
    /\ me.stmt = "running" /\ ~Blocked(s)
    /\ \/ /\ me.tx = "aborted"
          /\ Becomes([done EXCEPT !.out = "25P02"])
          /\ UNCHANGED <<table, ledger, lost>>
       \/ /\ me.tx # "aborted" /\ e.out \in Codes
          /\ Becomes(Aborts(done))
          /\ UNCHANGED <<table, ledger, lost>>
       \/ /\ me.tx = "open" /\ ~Alone(me.tx) /\ e.out \notin Codes
          /\ Becomes([done EXCEPT
                !.told[k] = @ + net,
                !.free = IF e.out = "1" THEN @ \cup Unscoped(me.call) ELSE @,
                !.writes = IF e.out = "1" /\ me.call.op # "get" THEN Put(@, k, e.row) ELSE @])
          /\ UNCHANGED <<table, ledger, lost>>
       \/ /\ Alone(me.tx) /\ e.out \notin Codes
          /\ Becomes(done)
          /\ table' = [table EXCEPT ![k] = e.row]
          /\ IF Abandoned(s)
             THEN lost' = [lost EXCEPT ![k] = @ + net] /\ UNCHANGED ledger
             ELSE ledger' = [ledger EXCEPT ![k] = @ + net] /\ UNCHANGED lost
    /\ UNCHANGED <<gen, calls, gaveUp>>

(* A cycle of waits: Postgres makes one of its statements fail.            *)
Deadlocked(s) == \E o \in Sessions : WaitsFor(s, o) /\ WaitsFor(o, s)
BreakDeadlock(s) ==
    /\ Deadlocked(s)
    /\ sess' = [sess EXCEPT ![s] = IF Abandoned(s) THEN Fresh ELSE
                  Aborts([@ EXCEPT !.stmt = "done", !.out = "40P01"])]
    /\ UNCHANGED <<table, gen, calls, told>>

-----------------------------------------------------------------------------
(* The results after which, in Postgres, a transaction cannot commit.      *)
Dooming == {Internal, "CONFLICT"}

-----------------------------------------------------------------------------
(* The resolvers.                                                          *)
Begin(c) == /\ sess[Mine(c)].tx = "none" /\ sess[Mine(c)].stmt = "none"
            /\ calls[c] < MaxCalls
            /\ sess' = [sess EXCEPT ![Mine(c)].tx = "open"]
            /\ UNCHANGED <<table, gen, calls, told>>

Call(c, call) == /\ sess[Mine(c)].stmt = "none" /\ calls[c] < MaxCalls
                 /\ calls' = [calls EXCEPT ![c] = @ + 1]
                 /\ sess' = [sess EXCEPT ![Mine(c)].stmt = "running", ![Mine(c)].call = call]
                 /\ UNCHANGED <<table, gen, told>>

Answer(c) == LET me == sess[Mine(c)] IN
             /\ me.stmt = "done"
             /\ sess' = [sess EXCEPT ![Mine(c)].stmt = "none", ![Mine(c)].call = NoCall,
                                     ![Mine(c)].out = "0",
                                     ![Mine(c)].failed = me.tx # "none" /\ 
                                        (@ \/ Result(me.call, me.out) \in Dooming)]
             /\ UNCHANGED <<table, gen, calls, told>>

(* The deadline of a call passes first: the driver closes the connection   *)
(* and reports a bare error, of a statement that is done too.  One still   *)
(* running is left behind with its session, or, once MaxGen have been,     *)
(* ends at once.                                                           *)
Deadline(c) ==
    LET me    == sess[Mine(c)]
        k     == me.call.key
        leave == me.stmt = "running" /\ c \in Leavers /\ gen[c] < MaxGen
        net   == IF me.tx = "none" /\ me.stmt = "done" THEN Tally(me.call, me.out) ELSE 0
    IN
    /\ me.stmt # "none"
    /\ IF leave THEN gen' = [gen EXCEPT ![c] = @ + 1] /\ UNCHANGED sess
                ELSE sess' = [sess EXCEPT ![Mine(c)] = Fresh] /\ UNCHANGED gen
    /\ ledger' = [ledger EXCEPT ![k] = @ - net] /\ lost' = [lost EXCEPT ![k] = @ + net]
    /\ gaveUp' = IF /\ leave \/ net # 0
                    /\ me.tx = "none" /\ me.call.op \in {"create", "delete"}
                 THEN gaveUp \cup {<<me.call.op, k>>} ELSE gaveUp
    /\ UNCHANGED <<table, calls>>

(* COMMIT publishes what an open transaction wrote; of an aborted one, or  *)
(* by ROLLBACK, nothing.                                                   *)
Publish(s) == /\ table' = [k \in Keys |-> View(s, k)]
              /\ ledger' = [k \in Keys |-> ledger[k] + sess[s].told[k]]

Commit(c) == LET s == Mine(c) IN
             /\ sess[s].tx # "none" /\ sess[s].stmt = "none"
             /\ IF sess[s].tx = "open" THEN Publish(s) ELSE UNCHANGED <<table, ledger>>
             /\ sess' = [sess EXCEPT ![s] = Fresh]
             /\ UNCHANGED <<gen, calls, lost, gaveUp>>

Rollback(c) == LET s == Mine(c) IN
               /\ sess[s].tx # "none" /\ sess[s].stmt = "none"
               /\ sess' = [sess EXCEPT ![s] = Fresh]
               /\ UNCHANGED <<table, gen, calls, told>>

(* A statement left behind may also never reach Postgres.                  *)
Discard(s) == /\ Abandoned(s) /\ sess[s].stmt = "running" /\ ~Blocked(s)
              /\ sess' = [sess EXCEPT ![s] = Fresh]
              /\ UNCHANGED <<table, gen, calls, told>>

Next == /\ \/ \E s \in Sessions : Execute(s) \/ BreakDeadlock(s) \/ Discard(s)
           \/ \E c \in Clients : \/ Begin(c) \/ Answer(c) \/ Deadline(c)
                                 \/ Commit(c) \/ Rollback(c)
                                 \/ \E call \in Calls : Call(c, call)
        /\ UNCHANGED ignored

Spec == Init /\ [][Next]_vars

-----------------------------------------------------------------------------
(* Over all clients and transactions, the creates reported as stored less  *)
(* the deletes reported as done account for the rows that exist, but for   *)
(* what was committed for callers told only of a deadline: no Create       *)
(* overwrites, and no report is of a write that was rolled back.  A row is *)
(* stored without a report only where a create of it was given up outside  *)
(* a transaction, and removed without one only where a delete was.         *)
LedgerAgrees == \A k \in Keys :
    /\ ledger[k] + lost[k] = IF table[k] = NoRow THEN 0 ELSE 1
    /\ lost[k] > 0 => <<"create", k>> \in gaveUp
    /\ lost[k] < 0 => <<"delete", k>> \in gaveUp

(* A CONFLICT or an internal error dooms the transaction around the helper, *)
(* and nothing else does: an absent row, a suppressed insert or a          *)
(* NOT_FOUND leaves it able to commit.                                     *)
DoomedExactlyWhenTold ==
    \A c \in Clients : LET me == sess[Mine(c)] IN
        (me.tx # "none" /\ me.stmt = "none") => (me.tx = "aborted" <=> me.failed)

(* The session a step belongs to is the only one it changes.               *)
Steps(s) == sess'[s] # sess[s]

(* What a transaction wrote is published by its commit and not before, and *)
(* never once a helper in it has failed.                                   *)
PublishedByCommit ==
    \A s \in Sessions : (Steps(s) /\ sess[s].tx # "none" /\ table' # table) =>
        sess'[s] = Fresh /\ ~sess[s].failed
TransactionsAtomic == [][PublishedByCommit]_vars

(* A committed row is changed or removed only by its owner or by a write   *)
(* that carried no ownership predicate, and its owner column only by one   *)
(* that also named no columns: also after waiting for another transaction  *)
(* that changed the row in between.                                        *)
Licence(s) == sess[s].free \cup IF sess[s].tx = "none" THEN Unscoped(sess[s].call) ELSE {}

OwnersRespected ==
    \A k \in Keys, s \in Sessions :
        (Steps(s) /\ table[k] # NoRow /\ table'[k] # table[k]) =>
            /\ s[1] = table[k].owner \/ Licence(s) # {}
            /\ table'[k] # NoRow /\ table'[k].owner # table[k].owner => "owner" \in Licence(s)
OwnershipKept == [][OwnersRespected]_vars
=============================================================================
