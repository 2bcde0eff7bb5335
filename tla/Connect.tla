------------------------------ MODULE Connect ------------------------------
(***************************************************************************)
(* ConnectWith of db/db.go: a DSN becomes a pool that has been proven with *)
(* one round trip, or an error that leaves no pool behind.                 *)
(*                                                                         *)
(* The DSN is read (connector, openConnector, redact), the caller's tune   *)
(* changes the config, the pool is opened, and `select 1' dials, starts    *)
(* up, sends one SET per connection parameter and is answered, all of it   *)
(* under one context deadline.  The peer may answer, refuse or stay silent *)
(* at every one of those steps.                                            *)
(*                                                                         *)
(* A DSN is known by its form: where url.Parse, pgdriver and the guards    *)
(* tell one from another.  What an error says is known by the secrets it   *)
(* quotes.  Times are ticks, bounds of statements microseconds.  The       *)
(* WriteTimeout is corrected and used as the ReadTimeout is, and the two   *)
(* are one here; the TLS callback, $PGPASSWORD and the pool's sizes decide *)
(* nothing of what follows and are left out.                               *)
(***************************************************************************)
EXTENDS Integers, FiniteSets

CONSTANTS
    DSNs,           \* the DSNs a caller may pass: [form, dial, read, params]
    Tunes,          \* the tunes: [dial, read, bound], each a value or Keep
    Keep,           \* a field that the tune leaves alone
    DefaultDial,    \* pgdriver's DialTimeout, and the fallback of ConnectWith
    DefaultRead,    \* pgdriver's ReadTimeout
    MaxSetting,     \* the largest statement_timeout that Postgres takes, in ms
    MaxClock        \* bounds the clock, past every deadline of the code

Setting == "statement_timeout"
Forms == {"plain", "unparsable", "unix", "nouser", "shortPassword",
          "cutShort", "cutInValue"}
Stages == {"dial", "startup", "sets", "select"}

ASSUME ConnectConstants ==
    /\ \A d \in DSNs : /\ d.form \in Forms /\ d.dial \in Int /\ d.read \in Int
                       /\ d.params = [k \in DOMAIN d.params |-> d.params[k]]
    /\ \A t \in Tunes : {t.dial, t.read, t.bound} \subseteq Int \union {Keep}
    /\ Keep \notin Int
    /\ {DefaultDial, DefaultRead, MaxSetting} \subseteq Nat \ {0} /\ MaxClock \in Nat

VARIABLES
    phase,      \* where ConnectWith is
    dsn,        \* its url
    tune,       \* the tune it was called with
    cfg,        \* the pgdriver.Config: [dial, read, params]
    pool,       \* the sql.DB
    clock,      \* since the context of the round trip was made
    began,      \* when the stage under way began
    session,    \* the settings the server has taken on this connection
    outcome,    \* what ConnectWith returns
    cause,      \* what the round trip failed of
    told        \* the secrets that the returned error quotes

vars == <<phase, dsn, tune, cfg, pool, clock, began, session, outcome, cause, told>>

-----------------------------------------------------------------------------
(* Reading the DSN. *)

\* The @ that should end the user info stands past the authority: in the path,
\* in the fragment, or in the query ahead of its first =.  One past that = is
\* taken for a parameter's value, whatever it was.
CutShort(d) == d.form = "cutShort"

\* ?password= would be sent to the server as a SET.  The guards read the DSN
\* only if url.Parse can.
SecretParameter(d) == d.form # "unparsable" /\ "password" \in DOMAIN d.params

\* What url.Parse and pgdriver say of a DSN they refuse, a panic included: a
\* *url.Error quotes the URL and the fragment it rejected, a unix DSN without
\* a path is quoted whole, and a short password may occur in any wording.
DriverRefuses(d) == d.form \in {"unparsable", "unix", "nouser", "shortPassword"}

DriverError(d) ==
    [url    |-> d.form = "unparsable",
     quotes |-> CASE d.form = "unparsable"    -> {"url", "fragment"}
                  [] d.form = "unix"          -> {"url"}
                  [] d.form = "shortPassword" -> {"url", "password"}
                  [] OTHER                    -> {}]

\* The variant cuts the DSN out and looks no further.
CutsOut(e) == e.quotes \ {"url"}

\* redact: of a *url.Error only the reason is kept, without what it quotes; of
\* any other the DSN is cut out, and all of it is withheld if the password is
\* still there.
Redact(e) ==
    IF e.url
    THEN e.quotes \ {"url", "fragment"}
    ELSE LET left == e.quotes \ {"url"}
         IN  IF "password" \in left THEN {} ELSE left

\* The variant keeps what pgdriver made of the DSN.
AsParsed(d) == [dial |-> d.dial, read |-> d.read, params |-> d.params]

\* A DSN's timeout of 0 or less reaches the config as -1, and pgdriver's own
\* default goes back in.
Corrected(d) ==
    [dial   |-> IF d.dial < 0 THEN DefaultDial ELSE d.dial,
     read   |-> IF d.read < 0 THEN DefaultRead ELSE d.read,
     params |-> d.params]

-----------------------------------------------------------------------------
(* The tune. *)

\* Duration.Milliseconds truncates towards zero.
Milliseconds(d) == IF d >= 0 THEN d \div 1000 ELSE -((-d) \div 1000)

\* The variants: without the round-up, and without the clamp.
Truncated(d) == IF Milliseconds(d) > 0 THEN Milliseconds(d) ELSE 0
Unclamped(d) == IF d > 0 /\ Milliseconds(d) = 0 THEN 1 ELSE Milliseconds(d)

\* A bound below a millisecond would reach Postgres as 0, which is no bound,
\* and a negative one would be refused.
Rounded(d) ==
    LET ms == IF Milliseconds(d) > 0 THEN Milliseconds(d) ELSE 0
    IN  IF d > 0 /\ ms = 0 THEN 1 ELSE ms

\* StatementTimeout(d)(c) merges one key over the DSN's parameters.
StatementTimeout(params, d) ==
    [k \in DOMAIN params \union {Setting} |->
        IF k = Setting THEN Rounded(d) ELSE params[k]]

Tuned(c, t) ==
    [dial   |-> IF t.dial = Keep THEN c.dial ELSE t.dial,
     read   |-> IF t.read = Keep THEN c.read ELSE t.read,
     params |-> IF t.bound = Keep THEN c.params
                ELSE StatementTimeout(c.params, t.bound)]

-----------------------------------------------------------------------------
(* The deadlines of the round trip. *)

Forever == MaxClock + 1

Earlier(s, t) == IF s < t THEN s ELSE t

\* The bound of the whole round trip, which the context carries.
Timeout == IF cfg.dial <= 0 THEN DefaultDial ELSE cfg.dial

\* The stage's own bound: net.Dialer's Timeout for the dial, now+ReadTimeout for
\* each read after it.  Zero is none, and a negative one has passed at once.
Own == LET bound == IF phase = "dial" THEN cfg.dial ELSE cfg.read
       IN  IF bound = 0 THEN Forever ELSE began + bound

\* The variant runs the statement without the context.
WithoutContext == Own

\* The socket's deadline: the context's, or the stage's own if it is earlier.
Until == Earlier(Timeout, Own)

InTime == clock < Until

-----------------------------------------------------------------------------
Init ==
    /\ phase = "parse"
    /\ dsn \in DSNs
    /\ tune \in Tunes
    /\ cfg = [dial |-> 0, read |-> 0, params |-> <<>>]
    /\ pool = "none"
    /\ clock = 0
    /\ began = 0
    /\ session = <<>>
    /\ outcome = "none"
    /\ cause = "none"
    /\ told = {}

\* connector refuses the DSN: its own two messages quote nothing, and what
\* pgdriver says goes through redact.
Refuse ==
    /\ phase = "parse"
    /\ CutShort(dsn) \/ SecretParameter(dsn) \/ DriverRefuses(dsn)
    /\ told' = IF CutShort(dsn) \/ SecretParameter(dsn) THEN {}
             ELSE Redact(DriverError(dsn))
    /\ outcome' = "error"
    /\ phase' = "returned"
    /\ UNCHANGED <<dsn, tune, cfg, pool, clock, began, session, cause>>

\* connector, the tune, sql.OpenDB and the context, up to the dial.
Open ==
    /\ phase = "parse"
    /\ ~CutShort(dsn) /\ ~SecretParameter(dsn) /\ ~DriverRefuses(dsn)
    /\ cfg' = Tuned(Corrected(dsn), tune)
    /\ pool' = "open"
    /\ phase' = "dial"
    /\ UNCHANGED <<dsn, tune, clock, began, session, outcome, cause, told>>

(* The round trip.  The stage under way is answered in time, refused, or   *)
(* gives up at its deadline.                                               *)

Connected ==
    /\ phase = "dial"
    /\ InTime
    /\ phase' = "startup"
    /\ began' = clock
    /\ UNCHANGED <<dsn, tune, cfg, pool, clock, session, outcome, cause, told>>

Authenticated ==
    /\ phase = "startup"
    /\ InTime
    /\ phase' = "sets"
    /\ began' = clock
    /\ UNCHANGED <<dsn, tune, cfg, pool, clock, session, outcome, cause, told>>

\* Postgres takes a known parameter in its range; the driver sends the map in
\* any order.
Takes(k, v) ==
    \/ k = "application_name"
    \/ k = Setting /\ v \in 0..MaxSetting

Unsent == DOMAIN cfg.params \ DOMAIN session

Set ==
    /\ phase = "sets"
    /\ InTime
    /\ \E k \in Unsent :
        /\ Takes(k, cfg.params[k])
        /\ session' = [j \in DOMAIN session \union {k} |->
                            IF j = k THEN cfg.params[k] ELSE session[j]]
    /\ began' = clock
    /\ UNCHANGED <<phase, dsn, tune, cfg, pool, clock, outcome, cause, told>>

SetRefused ==
    /\ phase = "sets"
    /\ InTime
    /\ \E k \in Unsent :
        /\ ~Takes(k, cfg.params[k])
        /\ cause' = IF k = Setting THEN Setting ELSE "parameter"
    /\ phase' = "failed"
    /\ UNCHANGED <<dsn, tune, cfg, pool, clock, began, session, outcome, told>>

Ready ==
    /\ phase = "sets"
    /\ Unsent = {}
    /\ phase' = "select"
    /\ began' = clock
    /\ UNCHANGED <<dsn, tune, cfg, pool, clock, session, outcome, cause, told>>

Answered ==
    /\ phase = "select"
    /\ InTime
    /\ phase' = "returned"
    /\ outcome' = "handle"
    /\ UNCHANGED <<dsn, tune, cfg, pool, clock, began, session, cause, told>>

\* The dial is refused, the password is wrong, the connection drops.
PeerRefuses ==
    /\ phase \in Stages
    /\ InTime
    /\ cause' = "peer"
    /\ phase' = "failed"
    /\ UNCHANGED <<dsn, tune, cfg, pool, clock, began, session, outcome, told>>

Expire ==
    /\ phase \in Stages
    /\ ~InTime
    /\ cause' = "late"
    /\ phase' = "failed"
    /\ UNCHANGED <<dsn, tune, cfg, pool, clock, began, session, outcome, told>>

\* A dial error names the host that it dialed, which is a part of the password
\* where the user info was cut short.
DialTells == IF dsn.form \in {"cutShort", "cutInValue"} THEN {"password"} ELSE {}

\* The variant leaves the pool open.
LeftOpen(p) == p

Closed(p) == "closed"

\* db.Close, and the error goes back.
Close ==
    /\ phase = "failed"
    /\ pool' = Closed(pool)
    /\ outcome' = "error"
    /\ told' = DialTells
    /\ phase' = "returned"
    /\ UNCHANGED <<dsn, tune, cfg, clock, began, session, cause>>

Tick ==
    /\ phase \in Stages
    /\ InTime
    /\ clock < MaxClock
    /\ clock' = clock + 1
    /\ UNCHANGED <<phase, dsn, tune, cfg, pool, began, session, outcome, cause, told>>

Next ==
    \/ Refuse \/ Open
    \/ Connected \/ Authenticated \/ Set \/ SetRefused \/ Ready \/ Answered
    \/ PeerRefuses \/ Expire \/ Close
    \/ Tick

Spec == Init /\ [][Next]_vars

-----------------------------------------------------------------------------
\* The doc of ConnectWith: an error quotes neither the DSN nor its password, from
\* whichever of its returns; only an = ahead of the @ passes the guard, as
\* connector's comment says.  And no password goes to the server as a setting.
NoSecretTold ==
    /\ told # {} => dsn.form = "cutInValue" /\ pool = "closed"
    /\ "password" \notin DOMAIN cfg.params

\* ConnectWith returns a handle only over an open pool whose connection has taken
\* every setting of the config, and an error only with no pool left open.
HandleOrNothing ==
    /\ outcome = "handle" => pool = "open" /\ session = cfg.params
    /\ outcome = "error"  => pool # "open"

\* One deadline bounds dial, startup, SETs and query together, however long each
\* of them may wait by itself, and a timeout that is zero, or that the DSN
\* disables, is no timeout of no length: only a tune's own negative one fails the
\* round trip before any time has passed.
BootBounded ==
    pool # "none" =>
        /\ clock <= IF cfg.dial <= 0 THEN DefaultDial ELSE cfg.dial
        /\ cause = "late" /\ clock = 0 =>
              \/ tune.dial # Keep /\ tune.dial < 0
              \/ tune.read # Keep /\ tune.read < 0

\* StatementTimeout(d): a handle's connection is bounded by d, to the millisecond
\* and never by less than one, or by nothing if d asks for nothing; and every
\* other parameter of the DSN is in force beside it.  No bound that Postgres can
\* hold costs the boot: its SET is refused only for a larger one.
BoundInForce ==
    /\ outcome = "handle" /\ tune.bound # Keep =>
          /\ IF tune.bound > 0
             THEN /\ session[Setting] >= 1
                  /\ tune.bound < 1000 * (session[Setting] + 1)
                  /\ tune.bound >= 1000 * session[Setting] \/ session[Setting] = 1
             ELSE session[Setting] = 0
          /\ \A k \in DOMAIN dsn.params \ {Setting} :
                 k \in DOMAIN session /\ session[k] = dsn.params[k]
    /\ cause = Setting /\ tune.bound # Keep => tune.bound >= 1000 * (MaxSetting + 1)
=============================================================================
