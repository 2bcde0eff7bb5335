# luima in TLA+

This directory is the formal model of [luima](../src): a Go library that mounts a gqlgen GraphQL server on Fiber with
the pieces a production service needs (rate limiter, CORS, health routes, graceful shutdown, query limits, error
redaction, bun-based CRUD helpers over PostgreSQL) and `luimagen`, which generates a table's schema, model and
resolvers. It holds TLA+ modules translated from the Go source, TLC configurations that check them on small
instances, and TLAPS proofs of what can be proved for every instance. `PROJECT.json` maps each definition to the
source lines it models, and lists the runs, the variants, the hazards and the theorems.

## 1. The system

| Component | State it keeps | Operations | Interacts with | What makes it correct |
|---|---|---|---|---|
| Rate limiter (`server/middleware.go`, `RateLimit`) | one map of counters, one window end, a mutex | one handler, run concurrently by every request | the clock; the next handler | at most n per key and window, 2n in any interval of that width, no needless 429, a bounded map, an honest Retry-After, an answer for everyone |
| CORS (`server/middleware.go`, `CORS`) | the response headers | one handler | shared caches, browsers | a browser may read a response exactly if its origin is listed, whichever request the response was made for |
| Server lifecycle (`server/server.go`, `Run`) | a socket, a listener goroutine, a channel, two contexts | start, wait, drain, close, collect | fasthttp's `Serve`/`Shutdown`, the clients | nil means drained and gone; a failed listener is reported; Run returns |
| Liveness route (`server/server.go`, in `Mount`) | per probe: a context, a channel, a goroutine | probe, check, deadline | the consumer's `HealthCheck` | an answer within two seconds that the check earned; no goroutine left at its send |
| Query limits (`server/depth.go`) | two recursive walks with a map of fragments | `selectionDepth`, `introspects` | gqlparser's documents | the depth of the written-out query; introspection found wherever it is; both end, on cycles too |
| Error presentation (`luimaerr/errors.go`) | none of its own; error values are shared between requests | `PresentError`, `answeredAt`, `SQLState` | gqlgen, which writes into error values in place | redacted what, exact where, and only this request's where |
| CRUD helpers (`crud/crud.go`) | the table | `Get`, `List`, `Create`, `Update`, `Delete`, in and out of transactions | PostgreSQL; deadlines that give up statements which run on | what is reported is what is stored; ownership predicates hold under races |
| Database connection (`db/db.go`) | a driver config, a pool | `Connect`, `ConnectWith`, `StatementTimeout` | pgdriver, PostgreSQL, the tune callback | a proven handle or an error and no pool, within one deadline, telling no secret |
| luimagen (`luimagen/*.go`) | the files of a gqlgen module | `Generate`: build, plan, write model, append schema, run gqlgen, patch stubs | gqlgen, the developer's edits, kills | refusals touch nothing, schemas still validate, hand-written work is never replaced, success is whole |
| Configuration, `Mount` (`server/server.go`) | the gqlgen server, the chain around it, the routes | `New`, `Mount`, one request at a time through the result | the consumer's `Configure` and `HTTPMiddleware`, gqlgen, Fiber | every configured limit serves, the first transport and the first route are the intended ones, each layer reads the context it should |
| Request deadline, request context (`server/server.go`) | a context per request, a handler that may outlive it | `RequestTimeout`, `fiberContext`, `withFiberContext` | the pool, pgdriver, PostgreSQL's `statement_timeout`, `Run` | every client is answered while the process lives, nothing begins after a 408, each wait keeps to its bounds, `Run` leaves only what was given up |
| Quickstart (`examples/quickstart`) | the executor gqlgen generated; a pool that `main` closes | `_Query`, `_Mutation`, the field functions | gqlgen's runtime, the helpers | a null comes to rest where the schema lets it, mutations run one after the other |
| Facade, command line, tests | none | re-exports, flags | - | not modelled: no control of their own |

What is hard here: requests that interleave inside one mutex with a moving clock; a cancellation that races a
listener that has not registered yet; goroutines that outlive their handlers; statements that outlive their callers;
transactions that wait for each other; values and cached responses used by a request other than the one they were
made for; deadlines nested in each other that end a wait and not the work; statements of set-up code whose order
decides which of two settings serves; tables in generated code that must agree; pipelines that are killed half way, repeated and edited by hand in between; and arithmetic on time at zero
and below a unit. `PROJECT.json` lists these hazards one by one at their lines.

## 2. The modules

An `MCx` module gives `x` the definitions its configuration needs; `x.cfg` is its run. Definitions that end as
"variant" in a comment are not used by a model: each is the form that a plausible mistake would give the definition
right after it, and substituting it must break the property that `PROJECT.json` names beside it.
A type invariant is the first conjunct of each inductive invariant: in `RateLimit`, `ServerRun` and `HealthProbe` beside
the model, for the others in their proof modules.

* **Quota** is the abstract limiter: a period, what each key has spent, a verdict per request.
  **RateLimit** is the code: one action per step of the handler (`Lock`, `ReadClock`, `Sweep`, `Hit` with the unlock,
  `Answer`), the clock ticking between any two of them. `Book == INSTANCE Quota WITH ...` is the refinement mapping and
  `KeepsBook` says that each step is a step of Quota or a stutter. `window` and `win` are history. The map, its sweep,
  the boundary `now > windowEnd`, the rounding of Retry-After and the counter that goes on past n are as in the code.
* **ServerRun** is `Run`, its listener goroutine, the caller's context, the drain window and the connections. fasthttp's
  `Serve` and `Shutdown` are external, modelled from what the comment at `server.go:339-346` relies on: `Shutdown`
  returns nil at once when no listener is registered, and `Serve` does not wait for what it accepted.
* **Serving** composes ServerRun with the requests inside it. A handler queues for a slot of the pool and then waits, one
  wait after the other, for the dial, the startup and the SETs of a new connection, for the write of its one statement,
  and for the reply: an Exec's at once, a query's up to the row description and then its rows, which are drained if
  something cuts them short. Each wait has pgdriver's timeout for it; those up to the row description end with the
  request's context as well, the rows and the drain do not (`db.go:68-87`, `server.go:83-104`). So a slot is held for the
  sum of several waits, which may exceed `ReadTimeout` and the deadline. Beside them run the 408 of `RequestTimeout`, the
  backend with its `statement_timeout`, and `Run`, which drains or gives up; then `main` closes the pool and the process
  exits, with whatever is left in it (`main.go:71`, `143-147`). The pool's own opener, which dials for those who queue,
  is one step of any length. Every step of a request is a step of the server's connections or leaves them alone.
* **HealthProbe** is the liveness handler: probes overlap, each with a check goroutine, a channel with room for one
  value, a context and a `select` whose two cases may both be ready. A check may return at any time or never.
* **Mount** is `New` and `Mount` statement by statement (defaults, mutators, `Configure`, transports, middleware, the
  adaptor, the timeout, the routes), then requests and probes through what they built, layer by layer. It extends
  HealthProbe, whose probes arrive on the route that was registered, if one was and nothing shadows it. gqlgen, Fiber
  and its adaptor are external.
* **Crud** is the four statements and their results, by concurrent clients, alone or in transactions. PostgreSQL is
  external: READ COMMITTED, row locks, aborted transactions, broken deadlocks. A deadline gives a running statement up;
  its session runs on and takes effect late, or never.
  An error aborts an open transaction and releases its rows at once. `ledger` is history: creates less deletes as the
  callers were told; `lost` is the same sum for what was committed for a caller told only of a deadline, in a statement
  left behind or in one whose answer came too late, and `gaveUp` names those calls.
* **PresentError** is the presenter and `answeredAt` with gqlgen around it, which fills the location and the path of an
  error value in place, once: a value that resolvers share carries what the first request wrote. What is passed through
  is read when the response is encoded, not when it is presented.
* **QueryLimits** runs both walks with an explicit stack of their recursion over every small document: a graph of
  selection sets with shared fragments, inline fragments, undefined spreads and cycles. `Heights` is the reference: the
  measure of the sets that can be reached, each from those below it.
* **Cors** is the middleware with an external shared cache in front of it, which honours `Vary`.
* **Connect** is `ConnectWith`: guards, parse and redaction, corrections, tune, pool, and the boot round trip stage by
  stage under one context deadline, with a peer that answers, refuses or stays silent. `StatementTimeout` is computed.
* **Generate** is the luimagen pipeline as a sequence of stages, each of which may fail or be killed, run after run,
  with edits by hand in between. Files are known by what they declare. gqlgen is external.
  **Fields** is what `Generate` takes as "the fields are valid": the single pass of `tableFromFields`, the derived
  names, gqlgen's re-casing, and the names the spliced literal reads. **Splice** goes on from an accepted table to the
  resolver file: which stubs are replaced, by which body, and the rewrite of the import block, entry by entry.
* **Execute** is the executor gqlgen generated for the quickstart: how each field of each type marshals a null, whose
  nulls each object counts, which fields run on goroutines of their own, and the response handler, which a transport may
  call again. The two tables are in different functions of the file; the properties say that they agree.

The proofs are in modules of their own. `ConnectProofs`, `CrudProofs` and `GenerateProofs` are about the module they are
named after; `LimitsProofs` is about RateLimit and QueryLimits, `MountProofs` about HealthProbe and Mount,
`ResponseProofs` about Cors, PresentError and Execute, `ServingProofs` about ServerRun and Serving, `SpliceProofs` about
Fields and Splice.

## 3. The runs

| Run | Bounds | What it shows |
|---|---|---|
| `limiter` | 3 requests, 2 keys, n = 1, windows of 2 ticks, 5 ticks | `BudgetExact` (n in a window, and a refusal only once they are spent), `TwiceInAnyWidth`, the swept map, Retry-After, refinement of Quota, everyone answered |
| `serving` | 2 clients with a request each, 1 slot, two settings of the five timeouts | `ExitHonest` (what a nil of `Run` means), `RunEnds`, and with requests inside: what a client is told of its statement is so, each wait keeps to its bounds, nothing begins after a 408, only abandoned handlers outlive `Run`, and while the process lives everyone is answered and every slot comes back |
| `mount` | 50 configurations, 13 requests, 2 overlapping probes | `WhatServes` (each limit, transport and presenter), `RequestPath` (what each layer sees), and that probes are answered, with an answer their check earned, and leave no goroutine at its send |
| `crud` | 2 clients, 2 calls each, 2 rows, one statement left behind | the ledger but for what a deadline hides, atomicity, doomed exactly when told, ownership under races |
| `generate` | 2 types, 3 schema files, 2 runs, 1 edit | `SchemaKept` (no run breaks a schema or declares a name twice), hand work kept, and `OutcomeHonest`: success is whole, a refusal touched nothing, a failure after the patch keeps what was spliced |
| `splice` | every table of up to 3 fields over 9 names, every file of up to 3 imports over 4 paths and 4 aliases | the verdict on a table is exact, on sight of a field and at the end, a body reads names that are there, and the filled file compiles with no live import lost |
| `fields_own_input` | a table whose columns differ in case alone | **violated**, see section 6 |
| `present_error` | 2 requests, 3 paths, 1 argument, a value with or without a cause | redaction, and where the answer is |
| `execute` | every path of up to 3 fields, introspection included, with each failure at its end, beside a second field; mutations of 3 root fields; 2 calls of the response handler | `NullsRest` (where a null comes to rest and that it is reported once), `InTurn` (mutations one after the other, queries beside each other) |
| `query_limits` | 2 fragments, 1 nested set, up to 2 selections per set | exact depth, introspection found, both walks end |
| `cors` | 4 requests, 3 origins and none, 3 configurations | every browser reads exactly what it may |
| `connect` | 8 forms of DSN, 480 tunes, silence of any length at any stage | no secret told, handle or nothing, one deadline, the asked bound in force |

Why the bounds are enough. *limiter*: with n = 1, two requests of a key overrun a window, three admissions exceed 2n,
and five ticks hold two ends of a window; the proofs cover every other value. *serving*: with two clients and one slot
one waits for the other, which is all that a pool at its limit does, one watches its context and one does not, and of
the connections one may drain and the other not; a client sends one request, because a second would begin where the
first began. The settings are the quickstart's timeouts in their order (statement, dial and write below read, read below
the request), and a server that has neither of the two that can be left off; the proofs cover the others. The startup
is one wait, as are the SETs, the rows and the drain: each read in them has the same timeout anew. *mount*: each setting is zero, disabled and set, the settings that meet (a limit with
another, `ReadTimeout` with Fiber's, `Configure` with what it may override) in every combination, and each request is
one on the other side of one limit; requests do not overlap, because they share nothing once `Mount` is done, and
probes do (`NoProbeYet`: a request for the health path becomes a probe that has not arrived before). *crud*: two calls
in each of two transactions on two rows is the smallest deadlock, and one abandoned statement against two later calls
the smallest late effect; one client alone (`Leavers`) abandons, which keeps the instance finite in minutes.
*generate*: two runs are a failure and its repetition, one edit is each way a person can change the files between
them. *splice*: the rules compare entries in pairs, and three entries let a third be the one that a removal or an early
return would skip; the aliases are none, a fresh one, one that is a needed package's name and one that is its own
name. *execute*: three fields are the shortest path on which a null can pass an object that may not be null and rest at
one that may; a second field sees what happens beside it, a third what comes after a mutation that failed; the second
call of the handler is the one that must answer nothing. *query_limits*: with two fragments and a nested set there are
sharing, nesting and cycles through either. *cors*: one request stores, one is served from the store, and two more are
in the server together. *connect*: the clock runs beyond the largest deadline, so a boot that overstays is seen to.

`CHECK_DEADLOCK FALSE` is in every configuration because every one of these programs really ends: all requests are
answered, `Run` and `ConnectWith` have returned, a file is filled, the runs and edits are used up.

### Fairness

* `limiter`: weak fairness of each goroutine inside its critical section (the Go scheduler) and strong fairness of
  `Lock`, because `sync.Mutex` hands itself over to a waiter that has starved for a millisecond. No request is obliged
  to arrive and the clock is not obliged to move.
* `serving`: both goroutines of `Run`, the drain window's timer, the clock, and the timers that are due (a socket's, the
  timeout middleware's, PostgreSQL's `statement_timeout`), with a resolver that watches its context, for as long as the
  process lives. Another resolver may stay where it is for ever; no dial, write, reply or row need come, no statement
  need finish, no client hang up; and `main` may exit at any time once `Run` has returned, and nothing of the process
  goes on then. So `AnsweredAndFreed` and `RunEnds` promise nothing of what dies with it: a request that is in flight when
  the drain window ends is cut off (`server.go:292-296`). Both are of the form "again and again", which is "in the end"
  for states that are not left again.
* `mount`: the probe's handler, its deadline's timer and the send are scheduled, and a check that watches its context
  gives up once it is done. Any other check may block for ever. `Mount` itself and the requests need not go on.
* `query_limits`: the one sequential program runs on.

`crud`, `generate`, `splice`, `present_error`, `execute`, `cors` and `connect` state safety alone: `BootBounded` bounds the time at which
`ConnectWith` returns, and says nothing of a clock that stands still.

## 4. The proofs

Eight modules of proofs are checked by TLAPS, for every value of the constants. The only assumptions are the named
`ASSUME`s of the modules, which TLC evaluates in the runs: the limits and times of the limiter are naturals and a second
is a positive one; `Watchful`, `Leavers`, `Odd` are subsets of what they are subsets of; the markers for an absent row,
origin, grant, selection set or definition are none of those; timeouts are integers and pgdriver's defaults are positive;
Mount's configurations and requests have the fields they have. Some say more. Execute's
documents have passed gqlparser's validation, as every operation has before the executor sees it: a path names fields of
the types it goes through. The names of Fields are sequences of letters and the paths of PresentError non-empty ones of
names, and a file of Splice may import any of the three packages that the spliced bodies use. A document of QueryLimits
has finitely many selection sets, each nested in one written before it. No set of clients, requests, keys, probes, types,
names, imports or configurations need be finite.

Each follows the same argument: a property speaks of where things have come to rest and is not inductive; the invariant
(`IInv`, or named after the model where a module holds two) adds, as named parts, what the steps in between rely on; one
lemma per action, or per part, shows that it is kept; the theorems follow from it alone.

* **RateLimit.** `BudgetIsExact`, `TwiceAtMost`, `MapSwept`, `RetrySuffices`, `Refinement`. The properties speak of
  requests that were counted, and say nothing of one that holds the mutex with a clock reading that is growing stale, or
  of a map whose counters went past n. `IInv` adds `Mutex` (exactly the holder of the mutex is in the critical
  section), `NotAhead` (the current window has begun), `Swept` (the reading of a request in the critical section is not
  before the window, and past the sweep it lies within it), `Placed` (where a counted request lies relative to the
  current window, given the number of its own), `Ordered` (a later window means a later reading, and two windows on, by
  more than a window's width) and `Books` (finitely many requests were counted; the counter of a key is the number of
  them in this window, of which the first n were admitted; a refused one found its window full). `Refinement` shows
  that the sweep and the count are steps of Quota and that every other step is a stutter.
* **ServerRun.** `ExitIsHonest`. `Stages`: where `Run` stands decides which of the socket, the goroutine and the results
  exist. `Channel`: what is in the channel is what the listener returned, and a nil one means that the socket was closed
  under it. `Drain`: a nil of the shutdown that found a server means that nothing is open, and an error that the drain
  window had ended.
* **Serving.** `Implements`: with the requests hidden it is ServerRun, step by step, so `ServingExitHonest` and the
  whole invariant of ServerRun hold of it. On that rest `WhatIsToldIsSo`, `BoundsHold`, `NobodyWaits` and
  `NoLateStatement`. `Asks`: a connection is active exactly while its handler's client was told nothing, and no handler
  outlives the process. `Statement`: what a handler, and a client, know of a statement is so. `Session`: its backend was
  SET the bound, if there is one, before it ran. `TooLate`: a handler that a 408 left with its statement not yet sent
  finds its context over. `Bounded`: none of the clocks has passed a limit that is due; `Tick` lets no timer be late,
  which is an idealisation, and the bounds are exact up to it. Most steps of the driver are one of two: a call returns
  (`Returns`) or goes on to its next wait (`Proceeds`).
* **HealthProbe.** `OnlyEarnedAnswers` of the route by itself, `MountedAnswersEarned` of the one that `Mount` registers
  under any configuration. `Channel`: the channel holds nothing but the verdict of a check that has returned. `Waiting`:
  until the handler answers, only the deadline ends the context.
* **Mount.** `ServesAsConfigured`, `PassesEveryLayer`. `MInv` says what each statement has left behind when the next one
  runs: `SrvInv` of the server and its mutators, which are compared as a set because their order decides nothing,
  `ChainInv` of the layers. Of a request it says where its three contexts stand after each layer (`ContextsInv`) and what
  was seen of them (`SeenInv`). The first transport that supports a request is the least of its places in the list, so
  the proof begins with the least-number principle. Its first attempt failed, and rightly: for a `QueryCacheSize` below
  -1 the property asked for another cache than the code, which disables every negative size, sets up.
* **QueryLimits.** `DepthMeasured`, `NothingHides`. `Nests`: each call in progress was made for a selection its caller has
  taken. `Reaches`: its set can be reached from that of any call before it, so a spread that is passed over because it is
  on the stack closes a cycle, and a document without cycles has none (`SpreadsLeadOn`). `OnceEach`, `MapIs`: the map of
  selectionDepth holds the spreads on the stack, each once; without that the deletion on return would lose one.
  `Measured`: a call has the depth of what it has done, but for the selection whose call is still running. `Nothing`: there
  is a set of selection sets that introspects is done with and that leads nowhere but into itself and the stack, so that
  at the end it is closed. Recursion is not needed for the reference: `Heights` is chosen among all functions that satisfy
  the equation of depths, and `AllMeasured` shows that one exists, by taking the largest closed set that can be measured
  and, were it not all, one more set whose `Rank`, the number of sets it reaches, is least.
* **Crud.** `BooksBalance`, `CallerKnows`, `NothingHalfDone`, `OwnersKeepTheirs`. `Sound` says of one session what its
  record promises about the committed table: its account is the difference between what it sees and what is committed, what a
  deadline hides is of a call in `gaveUp`,
  a transaction is aborted exactly if its caller was told so, what it wrote it was licensed to. `Exclusive`: no two
  sessions have written a row, so a commit leaves the promises of all others alone (`RowsKept`). `Unused`: sessions
  ahead of their client are untouched. What the helpers make of a row is one lemma, `EffectIs`.
* **Generate.** `NoSchemaBroken`, `HandWorkSurvives`, `AnswersAreSo`. `Planned`: a fragment that waits was planned
  against the schema that is still on disk. `Begun`, `Entire`, `Once`: a declaration is of a run that has begun, a
  fragment stands in its file whole, no two runs declare a name in one file. `Done`: what the stages behind a run left.
* **Connect.** `SecretsKept`, `HandleIsWhole`, `BootIsBounded`, `BoundsInForce`. `Opened`: a pool is open only over a
  DSN that passed every guard, and its config is that DSN, corrected and tuned. `Session`: the settings taken are those
  of the config, and all of them once they are through. `Late`, `RefusedHigh`: what each cause of a failure means. The
  rounding of a bound to milliseconds is the lemma `RoundedIs`.
* **Fields, Splice.** `DescriptionsJudged`, `LiteralsRead`, `FilledFilesCompile`, from `SpliceInv`. `Met`: the two maps
  of the pass hold the names of the fields kept so far, so a field is refused exactly if it cannot stand beside them, and
  no later one could help; `KeyAt`, `ColsAt`: the key and
  the columns of the table are theirs. What gqlgen makes of a name differs from it in case alone (`RecasedLow`), so the
  map by lower-cased name gives an input field of that name (`ReadBack`). `FileRead`: one name for each import, and those
  in use are of the file. `Block`, `NoneLost`, `Dropping`, `Adding`: nothing is bound twice, nothing of the file is lost
  but a dead fmt, and what was added is needed and used; the list is shortened while it is walked, and `Removed` says
  what is left of it.
* **Cors.** `OwnGrantAlways`: every finished response, in a browser or in the cache, varies and grants what the origin it
  was made for is due.
* **PresentError.** `OnlyCustomIsHeard`, `AnsweredWhereItHappened`, from `ErrorInv`. `Reported`: what a field has reported is
  at a point of its own document. `Heard`: what was presented never changes, unless it is passed through, and nothing that
  a field reports is. `Placed`: its place is the field's or an argument's, whatever path a shared value has picked up.
* **Execute.** `NullsRestWhereTheyMay`, `MutationsInTurn`, from `ExecInv`. `TablesAgree` is the fact about the generated
  code: the fields whose null an object's function counts are those whose marshalling reports it. `Walked`: where the null
  of a selection has got to, that every field it has passed may not be null, and whether it was reported. `InOrder`, `Turn`:
  a mutation's field begins when all before it are done, and is in the log once its resolver was called.

Every safety property that a passing run checks is a theorem. Only model-checked is liveness (`Answered`, `RunEnds`, `AnsweredAndFreed`,
`ProbesAnswered`, `NoGoroutineLeft`, `Ends`), because fairness is beyond the prover.

## 5. What is left out

* **Facade**, **command line** and the tests have no control of their own.
* **Mount**: `PlaygroundTitle`, and `WriteTimeout`, which is resolved as `ReadTimeout` is. What gqlgen's and Fiber's own
  code does is modelled from what `Mount` relies on. A `Configure` touches the cache, the presenter, the transports or
  the mutators.
* **Serving**: a request sends one statement; a statement's transaction is Crud's subject, and with it COMMIT and
  ROLLBACK, whose waits are as the rows'. Idle limits of the pool are left out, and so are connections that break by
  themselves.
* **Execute**: a list is the element on the path that is followed; the arguments' own parsing is a failure or none;
  complexity multipliers are not modelled. Each field that may be null is also compared with `graphql.RequiredNull`
  (`generated.go:2159`, `2175`, `2278` and the like); nothing in this schema returns that sentinel, and the branches are
  left out.
* **Crud**: `List` reads rows as `Get` does and changes nothing. A COMMIT is always answered: one that is given up, and
  may yet take effect, is left out. What a transaction stored would then be in the table with nobody told. That every call is answered in the end rests on the
  driver's deadline and on PostgreSQL, and is not claimed.
* **Connect**: the characters of a DSN; a DSN is known by its form. The one shape the guard knowingly lets through, an
  `=` ahead of the `@`, is in the model, and `NoSecretTold` names it. The TLS callback, `$PGPASSWORD`, the sizes of the
  pool and the WriteTimeout, which is treated as the ReadTimeout is, are left out.
* **Generate**: a write of a file is atomic; a kill comes between writes, so no property covers a write cut half way. Option defaults, path rebasing and the text
  of schema and model are not modelled.
* **Splice**: grouping, sorting and rendering of imports; a dot import of fmt; a package is named by the last element of
  its path, which is what the code itself assumes.
* **Fields**: names are over a small alphabet with an initialism; what `checkTag` refuses and the table of types are
  one value each.
* **QueryLimits**: a set's selections are taken in any order, and nested sets are shared between their holders.
* **PresentError**: the code of a CustomError; `SQLState` is a lookup. No property is stated of a shared value that is
  passed through after another request has written into it: the model reaches it, and the code does not guard it.
* **Cors**: the fixed headers and the preflight's max age; and a 408, which is answered without CORS headers
  (`server/middleware.go:44-48`).

## 6. Divergences between the code and its documentation

* `fields_own_input` (violated on purpose). Two columns whose names differ in case alone, `PassWord` and `Password`,
  pass every check, but `inputFieldNames` (`luimagen/patch.go:128`) keys what it read by the lower-cased name, so one
  generated field overwrites the other and both columns are filled from it. The docs promise "Read the names, never
  predict them" (`docs/luimagen.md:220`), and a comment that "reading them is exact" (`luimagen/patch.go:107-108`).
  `ReadsWhatIsThere` shows that this is the only way it goes wrong.

More were met while modelling; the properties state what does hold.

* `Run`'s doc comment says it drains the requests in flight (`server/server.go:287`). Cancelled before fasthttp has
  registered the listener, `Shutdown` finds none, and a request accepted before `ln.Close` is not waited for. So
  `CleanExitDrained` speaks of a Shutdown that found a server; `CleanExitStopped` of every nil.
* `answeredAt` promises "the request's own, and never another request's" (`luimaerr/errors.go:198`). Before any field
  runs it believes the error's own path and locations, which a shared value with a cause brings from another request's
  field. And while a field resolves, it believes a path that goes on with the name of one of the field's arguments: a
  shared value that another request picked up below a child aliased to that name answers there, contrary to
  `errors.go:206-210` and `tests/errors_test.go:258`, whose alias is not an argument's name. `InThisDocument` names
  the two cases and excludes every other.
* `hasUnaliasedImport` "reports whether path is imported under its own package name" (`luimagen/patch.go:593`), but an
  import written with an alias equal to that name does not count, and the rewrite refuses the file. `Compiles` says
  that a refusal is always over a needed name that some import binds, this one included.
* The recovery of `docs/luimagen.md:302-304` from a run that stopped at a hand-written panic ends, every resolver in
  place, in "found no unimplemented stub" (`luimagen/patch.go:215`): the bodies of the first attempt were saved.
  `OutcomeHonest` is the part that holds.

* `isStub` says a body is "still exactly gqlgen's panic(fmt.Errorf(...))" (`luimagen/patch.go:378`). It accepts any
  panic whose argument is a literal that begins with "not implemented", or a call of anything on one; where that is
  another package's function, `errors.New` say, its import is left behind dead, for only fmt is dropped. The stubs of Splice
  are gqlgen's. In Generate a hand-written one ("unready") is replaced by the run for its own type, and `HandWorkKept`
  says that nothing else replaces it.
* `usesIdent` reports any identifier of the name (`luimagen/patch.go:572`), a local variable or a selector included, so
  an import may be added that nothing uses. In Splice the names that are used are package names.
* `Configure` runs after every default "so it can override them" (`server/server.go:211`). That holds of setters; the
  complexity and depth limits are operation mutators, and one that `Configure` adds runs beside luima's, so a limit can
  be lowered that way and not raised. `WhatServes` states the stricter of the two.
* A `Health` path that is equal to the playground's or the endpoint's is registered behind it and never reached
  (`server/server.go:535`); nothing warns. `ProbesAnswered` is about probes the router hands over.
* "Keep d under both", ReadTimeout and the request's deadline, is to let the caller read the 57014 (`db/db.go:430`). A
  request that queued for its slot has spent a part of its deadline by then, and its client may be told 408 all the
  same. `ToldTruth` claims nothing of the statement behind a 408.

## 7. What a later version could add

1. An abstract store of rows with atomic calls that Crud implements: its ledger and atomicity theorems are the parts of
   that refinement which matter to a caller.
2. Several requests per client in Serving, with a transaction that spans two statements and holds its slot.
