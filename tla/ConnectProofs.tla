---------------------------- MODULE ConnectProofs ----------------------------
(***************************************************************************)
(* Proofs about ConnectWith, for every set of DSNs and tunes over integer  *)
(* timeouts, and any positive defaults.  The invariant says what each      *)
(* phase has behind it: a pool is open only over a DSN that passed every   *)
(* guard and a config that is that DSN, corrected and tuned; the session   *)
(* holds a part of it; and the clock has not passed the one deadline.      *)
(***************************************************************************)
EXTENDS Connect, TLAPS

TypeOK == /\ phase \in {"parse", "failed", "returned"} \cup Stages
          /\ dsn \in DSNs /\ tune \in Tunes
          /\ pool \in {"none", "open", "closed"}
          /\ outcome \in {"none", "handle", "error"}
          /\ clock \in Nat /\ began \in Nat

Guarded == ~CutShort(dsn) /\ ~SecretParameter(dsn) /\ ~DriverRefuses(dsn)

Opened == /\ phase = "parse" => pool = "none" /\ clock = 0
          /\ phase \in Stages \cup {"failed"} =>
                 pool = "open" /\ outcome = "none" /\ told = {}
          /\ phase = "parse" => outcome = "none" /\ told = {}
          /\ pool = "none" => cfg.params = <<>> /\ cause = "none" /\ told = {} /\ outcome # "handle"
          /\ pool # "none" => Guarded /\ cfg = Tuned(Corrected(dsn), tune)
          /\ outcome = "error" => pool # "open"
          /\ outcome = "handle" => pool = "open"
          /\ told # {} => dsn.form = "cutInValue" /\ pool = "closed"

(* The settings taken so far, and all of them once they are through.       *)
Session == /\ session = [k \in DOMAIN session |-> cfg.params[k]]
           /\ DOMAIN session \subseteq DOMAIN cfg.params
           /\ phase = "select" \/ outcome = "handle" => Unsent = {}
           /\ phase \in {"parse", "dial"} => session = <<>>

Late == /\ phase \in Stages => cause = "none"
        /\ pool # "none" => clock <= Timeout
        /\ cause = "late" /\ clock = 0 => \/ tune.dial # Keep /\ tune.dial < 0
                                          \/ tune.read # Keep /\ tune.read < 0

RefusedHigh == cause = Setting /\ tune.bound # Keep => tune.bound >= 1000 * (MaxSetting + 1)

IInv == TypeOK /\ Opened /\ Session /\ Late /\ RefusedHigh

-----------------------------------------------------------------------------
(* What Rounded makes of a bound: milliseconds, at least one of a bound    *)
(* that asks for something, none of one that asks for nothing.             *)
LEMMA RoundedIs ==
    ASSUME NEW d \in Int
    PROVE  /\ Rounded(d) \in Nat
           /\ d <= 0 => Rounded(d) = 0
           /\ d > 0 => /\ Rounded(d) >= 1 /\ d < 1000 * (Rounded(d) + 1)
                       /\ d >= 1000 * Rounded(d) \/ Rounded(d) = 1
  <1>1. CASE d > 0
    <2>1. Milliseconds(d) = d \div 1000
      BY <1>1 DEF Milliseconds
    <2>2. d \div 1000 \in Nat /\ 1000 * (d \div 1000) <= d /\ d < 1000 * ((d \div 1000) + 1)
      BY <1>1
    <2> QED  BY <1>1, <2>1, <2>2 DEF Rounded
  <1>2. CASE d = 0
    <2>1. Milliseconds(d) = 0
      BY <1>2 DEF Milliseconds
    <2> QED  BY <1>2, <2>1 DEF Rounded
  <1>3. CASE d < 0
    <2>1. Milliseconds(d) = -((-d) \div 1000)
      BY <1>3 DEF Milliseconds
    <2>2. (-d) \div 1000 \in Nat
      BY <1>3
    <2>3. Milliseconds(d) \in Int /\ Milliseconds(d) <= 0
      BY <2>1, <2>2
    <2> QED  BY <1>3, <2>3 DEF Rounded
  <1> QED  BY <1>1, <1>2, <1>3

(* The config of a DSN that passed the guards.                             *)
LEMMA TunedIs ==
    ASSUME NEW d \in DSNs, NEW t \in Tunes
    PROVE  LET c == Tuned(Corrected(d), t)
           IN  /\ c.dial \in Int /\ c.read \in Int
               /\ c.dial < 0 => t.dial # Keep /\ t.dial < 0
               /\ c.read < 0 => t.read # Keep /\ t.read < 0
               /\ DOMAIN c.params \subseteq DOMAIN d.params \union {Setting}
               /\ \A k \in DOMAIN d.params \ {Setting} :
                      k \in DOMAIN c.params /\ c.params[k] = d.params[k]
               /\ t.bound # Keep => /\ t.bound \in Int /\ Setting \in DOMAIN c.params
                                    /\ c.params[Setting] = Rounded(t.bound)
               /\ c.params = [k \in DOMAIN c.params |-> c.params[k]]
  <1> DEFINE c == Tuned(Corrected(d), t)
  <1>0. /\ d.dial \in Int /\ d.read \in Int /\ d.params = [k \in DOMAIN d.params |-> d.params[k]]
        /\ t.dial \in Int \union {Keep} /\ t.read \in Int \union {Keep}
        /\ t.bound \in Int \union {Keep} /\ DefaultDial \in Nat \ {0} /\ DefaultRead \in Nat \ {0}
    BY ConnectConstants
  <1>1. /\ c.dial = IF t.dial = Keep THEN (IF d.dial < 0 THEN DefaultDial ELSE d.dial) ELSE t.dial
        /\ c.read = IF t.read = Keep THEN (IF d.read < 0 THEN DefaultRead ELSE d.read) ELSE t.read
        /\ c.params = IF t.bound = Keep THEN d.params ELSE StatementTimeout(d.params, t.bound)
    BY DEF Tuned, Corrected
  <1> HIDE DEF c
  <1>2. /\ c.dial \in Int /\ (c.dial < 0 => t.dial # Keep /\ t.dial < 0)
        /\ c.read \in Int /\ (c.read < 0 => t.read # Keep /\ t.read < 0)
    BY <1>0, <1>1
  <1>3. CASE t.bound = Keep
    BY <1>0, <1>1, <1>2, <1>3 DEF c
  <1>4. CASE t.bound # Keep
    <2>1. c.params = [k \in DOMAIN d.params \union {Setting} |->
                         IF k = Setting THEN Rounded(t.bound) ELSE d.params[k]]
      BY <1>1, <1>4 DEF StatementTimeout
    <2> QED  BY <1>0, <1>2, <1>4, <2>1 DEF c
  <1> QED  BY <1>3, <1>4

(* The round trip's deadline, and that it takes a tune's own negative      *)
(* timeout to be past it before time has gone by.                          *)
LEMMA TimeoutType == ASSUME cfg.dial \in Int PROVE Timeout \in Nat \ {0}
  BY ConnectConstants DEF Timeout

LEMMA Patient ==
    ASSUME cfg.dial \in Int, cfg.read \in Int, clock \in Nat, began \in Nat, clock = 0, ~InTime
    PROVE  cfg.dial < 0 \/ cfg.read < 0
  <1>1. Timeout \in Nat \ {0} /\ MaxClock \in Nat
    BY TimeoutType, ConnectConstants
  <1>2. ~(clock < Own)
    BY <1>1 DEF InTime, Until, Earlier
  <1> QED  BY <1>1, <1>2 DEF Own, Forever

(* What the driver's errors leave to tell: nothing.                        *)
LEMMA NothingQuoted == ASSUME NEW d \in DSNs PROVE Redact(DriverError(d)) = {}
  <1>1. CASE d.form = "unparsable"
    BY <1>1 DEF Redact, DriverError
  <1>2. CASE d.form = "unix"
    BY <1>2 DEF Redact, DriverError
  <1>3. CASE d.form = "shortPassword"
    BY <1>3 DEF Redact, DriverError
  <1>4. CASE d.form \notin {"unparsable", "unix", "shortPassword"}
    <2>1. DriverError(d) = [url |-> FALSE, quotes |-> {}]
      BY <1>4 DEF DriverError
    <2> QED  BY <2>1 DEF Redact
  <1> QED  BY <1>1, <1>2, <1>3, <1>4

-----------------------------------------------------------------------------
LEMMA InitInv == Init => IInv
  BY DEF Init, IInv, TypeOK, Opened, Session, Late, RefusedHigh, Stages, Unsent, Setting

(* A step of the round trip that keeps to its config, its clock and what   *)
(* the session has, and is still under way.                                *)
LEMMA OnwardsKeeps ==
    ASSUME IInv, phase \in Stages, phase' \in Stages \cup {"failed"}, began' \in Nat,
           UNCHANGED <<dsn, tune, cfg, pool, clock, outcome, told>>
    PROVE  TypeOK' /\ Opened' /\ (pool # "none" => clock <= Timeout)'
  <1>1. TypeOK'
    BY DEF IInv, TypeOK, Stages
  <1>2. Opened'
    BY DEF IInv, Opened, Stages, Guarded, CutShort, SecretParameter, DriverRefuses, Tuned,
           Corrected, StatementTimeout, Rounded, Milliseconds
  <1> QED  BY <1>1, <1>2 DEF IInv, Late, Timeout

LEMMA NextInv == IInv /\ [Next]_vars => IInv'
  <1> SUFFICES ASSUME IInv, [Next]_vars PROVE IInv'
    OBVIOUS
  <1>a. dsn \in DSNs /\ tune \in Tunes /\ clock \in Nat /\ began \in Nat
    BY DEF IInv, TypeOK
  <1>1. CASE Refuse
    <2>1. told' = {}
      BY <1>1, <1>a, NothingQuoted DEF Refuse
    <2>2. TypeOK' /\ Opened'
      BY <1>1, <2>1 DEF Refuse, IInv, TypeOK, Opened, Stages
    <2>3. Session' /\ Late' /\ RefusedHigh'
      BY <1>1 DEF Refuse, IInv, Opened, Session, Late, RefusedHigh, Unsent, Timeout, Stages
    <2> QED  BY <2>2, <2>3 DEF IInv
  <1>2. CASE Open
    <2>1. cfg' = Tuned(Corrected(dsn), tune) /\ pool' = "open" /\ phase' = "dial" /\ Guarded
          /\ phase = "parse"
      BY <1>2 DEF Open, Guarded
    <2>2. cfg'.dial \in Int
      BY <1>a, <2>1, TunedIs
    <2>3. TypeOK'
      BY <1>2 DEF Open, IInv, TypeOK, Stages
    <2>4. Opened'
      BY <1>2, <2>1 DEF Open, IInv, Opened, Guarded, CutShort, SecretParameter, DriverRefuses,
                        Tuned, Corrected, StatementTimeout, Rounded, Milliseconds, Stages
    <2>5. Session' /\ RefusedHigh'
      BY <1>2, <2>1 DEF Open, IInv, Opened, Session, RefusedHigh, Unsent, Stages
    <2>6. Late'
      <3>1. Timeout' \in Nat
        BY <2>2, ConnectConstants DEF Timeout
      <3> QED  BY <1>2, <2>1, <3>1 DEF Open, IInv, Opened, Late, Stages
    <2> QED  BY <2>3, <2>4, <2>5, <2>6 DEF IInv
  <1>3. CASE Connected \/ Authenticated
    <2>1. TypeOK' /\ Opened' /\ (pool # "none" => clock <= Timeout)'
      BY <1>3, <1>a, OnwardsKeeps DEF Connected, Authenticated, Stages
    <2>2. Session' /\ Late' /\ RefusedHigh'
      BY <1>3, <2>1
      DEF Connected, Authenticated, IInv, Opened, Session, Late, RefusedHigh, Unsent, Stages
    <2> QED  BY <2>1, <2>2 DEF IInv
  <1>4. CASE Set
    <2>1. TypeOK' /\ Opened' /\ (pool # "none" => clock <= Timeout)'
      BY <1>4, <1>a, OnwardsKeeps DEF Set, Stages
    <2>2. Session'
      <3>1. PICK k \in Unsent :
                session' = [j \in DOMAIN session \union {k} |->
                               IF j = k THEN cfg.params[k] ELSE session[j]]
        BY <1>4 DEF Set
      <3>2. \A j \in DOMAIN session : session[j] = cfg.params[j]
        BY DEF IInv, Session
      <3>3. session' = [j \in DOMAIN session \union {k} |-> cfg.params[j]]
        BY <3>1, <3>2
      <3>4. outcome # "handle" /\ phase' = "sets" /\ phase = "sets" /\ UNCHANGED <<cfg, outcome>>
        BY <1>4 DEF Set, IInv, Opened, Stages
      <3> QED  BY <3>3, <3>4 DEF IInv, Session, Unsent, Stages
    <2>3. Late' /\ RefusedHigh'
      BY <1>4, <2>1 DEF Set, IInv, Late, RefusedHigh
    <2> QED  BY <2>1, <2>2, <2>3 DEF IInv
  <1>5. CASE SetRefused
    <2>1. TypeOK' /\ Opened' /\ (pool # "none" => clock <= Timeout)'
      BY <1>5, <1>a, OnwardsKeeps DEF SetRefused, Stages
    <2>2. Session' /\ Late'
      BY <1>5, <2>1 DEF SetRefused, IInv, Opened, Session, Late, Unsent, Stages, Setting
    <2>3. RefusedHigh'
      <3> SUFFICES ASSUME cause' = Setting, tune.bound # Keep
                   PROVE  tune.bound >= 1000 * (MaxSetting + 1)
        BY <1>5 DEF SetRefused, RefusedHigh
      <3>1. ~Takes(Setting, cfg.params[Setting])
        BY <1>5 DEF SetRefused, Setting
      <3>2. cfg = Tuned(Corrected(dsn), tune)
        BY <1>5 DEF SetRefused, IInv, Opened, Stages
      <3>3. tune.bound \in Int /\ cfg.params[Setting] = Rounded(tune.bound)
        BY <1>a, <3>2, TunedIs
      <3>4. MaxSetting \in Nat \ {0}
        BY ConnectConstants
      <3>5. Rounded(tune.bound) \notin 0..MaxSetting
        BY <3>1, <3>3 DEF Takes
      <3>6. Rounded(tune.bound) \in Nat /\ Rounded(tune.bound) >= MaxSetting + 1
        BY <3>3, <3>4, <3>5, RoundedIs
      <3>7. tune.bound >= 1000 * Rounded(tune.bound)
        BY <3>3, <3>4, <3>6, RoundedIs
      <3> QED  BY <3>3, <3>4, <3>6, <3>7
    <2> QED  BY <2>1, <2>2, <2>3 DEF IInv
  <1>6. CASE Ready
    <2>1. TypeOK' /\ Opened' /\ (pool # "none" => clock <= Timeout)'
      BY <1>6, <1>a, OnwardsKeeps DEF Ready, Stages
    <2>2. Session' /\ Late' /\ RefusedHigh'
      BY <1>6, <2>1 DEF Ready, IInv, Opened, Session, Late, RefusedHigh, Unsent, Stages
    <2> QED  BY <2>1, <2>2 DEF IInv
  <1>7. CASE Answered
    <2>1. TypeOK'
      BY <1>7 DEF Answered, IInv, TypeOK
    <2>2. Opened'
      BY <1>7 DEF Answered, IInv, Opened, Stages, Guarded, CutShort, SecretParameter,
                  DriverRefuses, Tuned, Corrected, StatementTimeout, Rounded, Milliseconds
    <2>3. Session' /\ Late' /\ RefusedHigh'
      BY <1>7 DEF Answered, IInv, Opened, Session, Late, RefusedHigh, Unsent, Timeout, Stages
    <2> QED  BY <2>1, <2>2, <2>3 DEF IInv
  <1>8. CASE PeerRefuses \/ Expire
    <2>1. TypeOK' /\ Opened' /\ (pool # "none" => clock <= Timeout)'
      BY <1>8, <1>a, OnwardsKeeps DEF PeerRefuses, Expire, Stages
    <2>2. Session' /\ RefusedHigh'
      BY <1>8 DEF PeerRefuses, Expire, IInv, Opened, Session, RefusedHigh, Unsent, Stages, Setting
    <2>3. Late'
      <3>1. cause' = "late" /\ clock = 0 => \/ tune.dial # Keep /\ tune.dial < 0
                                            \/ tune.read # Keep /\ tune.read < 0
        <4> SUFFICES ASSUME cause' = "late", clock = 0
                     PROVE  \/ tune.dial # Keep /\ tune.dial < 0
                            \/ tune.read # Keep /\ tune.read < 0
          OBVIOUS
        <4>1. ~InTime
          BY <1>8 DEF PeerRefuses, Expire
        <4>2. cfg = Tuned(Corrected(dsn), tune)
          BY <1>8 DEF PeerRefuses, Expire, IInv, Opened, Stages
        <4>3. /\ cfg.dial \in Int /\ (cfg.dial < 0 => tune.dial # Keep /\ tune.dial < 0)
              /\ cfg.read \in Int /\ (cfg.read < 0 => tune.read # Keep /\ tune.read < 0)
          BY <1>a, <4>2, TunedIs
        <4> QED  BY <1>a, <4>1, <4>3, Patient
      <3> QED  BY <1>8, <2>1, <3>1 DEF PeerRefuses, Expire, IInv, Late, Stages
    <2> QED  BY <2>1, <2>2, <2>3 DEF IInv
  <1>9. CASE Close
    <2>1. TypeOK'
      BY <1>9 DEF Close, Closed, IInv, TypeOK
    <2>2. Guarded /\ cfg = Tuned(Corrected(dsn), tune)
      BY <1>9 DEF Close, IInv, Opened
    <2>3. told' # {} => dsn.form = "cutInValue"
      BY <1>9, <2>2 DEF Close, DialTells, Guarded, CutShort
    <2>4. Opened'
      BY <1>9, <2>2, <2>3
      DEF Close, Closed, Opened, Stages, Guarded, CutShort, SecretParameter, DriverRefuses, Tuned,
          Corrected, StatementTimeout, Rounded, Milliseconds
    <2>5. Session' /\ Late' /\ RefusedHigh'
      BY <1>9 DEF Close, Closed, IInv, Opened, Session, Late, RefusedHigh, Unsent, Timeout, Stages
    <2> QED  BY <2>1, <2>4, <2>5 DEF IInv
  <1>10. CASE Tick
    <2>1. TypeOK' /\ Session' /\ RefusedHigh'
      BY <1>10 DEF Tick, IInv, TypeOK, Session, RefusedHigh, Unsent
    <2>2. Opened'
      BY <1>10 DEF Tick, IInv, Opened, Stages, Guarded, CutShort, SecretParameter, DriverRefuses,
                   Tuned, Corrected, StatementTimeout, Rounded, Milliseconds
    <2>3. Late'
      <3>1. cfg.dial \in Int /\ cfg.read \in Int /\ cause = "none"
        BY <1>10, <1>a, TunedIs DEF Tick, IInv, Opened, Late, Stages
      <3>2. Timeout \in Nat
        BY <3>1, TimeoutType
      <3>3. clock < Timeout
        <4>1. Own \in Int
          BY <1>a, <3>1, ConnectConstants DEF Own, Forever
        <4> QED  BY <1>10, <1>a, <3>2, <4>1 DEF Tick, InTime, Until, Earlier
      <3>4. Timeout' = Timeout
        BY <1>10 DEF Tick, Timeout
      <3> QED  BY <1>10, <1>a, <3>1, <3>2, <3>3, <3>4 DEF Tick, Late
    <2> QED  BY <2>1, <2>2, <2>3 DEF IInv
  <1>11. CASE UNCHANGED vars
    <2>1. TypeOK' /\ Session' /\ Late' /\ RefusedHigh'
      BY <1>11 DEF vars, IInv, TypeOK, Session, Late, RefusedHigh, Unsent, Timeout
    <2>2. Opened'
      BY <1>11 DEF vars, IInv, Opened, Stages, Guarded, CutShort, SecretParameter, DriverRefuses,
                   Tuned, Corrected, StatementTimeout, Rounded, Milliseconds
    <2> QED  BY <2>1, <2>2 DEF IInv
  <1> QED
    BY <1>1, <1>2, <1>3, <1>4, <1>5, <1>6, <1>7, <1>8, <1>9, <1>10, <1>11 DEF Next

(* The invariant holds of every reachable state.                           *)
THEOREM Inductive == Spec => []IInv
  BY InitInv, NextInv, PTL DEF Spec

-----------------------------------------------------------------------------
(* No secret of a DSN leaves in an error, but for the one form of DSN that *)
(* connector's comment concedes, and none goes to the server as a setting. *)
THEOREM SecretsKept == Spec => []NoSecretTold
  <1>1. IInv => NoSecretTold
    <2> SUFFICES ASSUME IInv PROVE "password" \notin DOMAIN cfg.params
      BY DEF NoSecretTold, IInv, Opened
    <2>1. CASE pool = "none"
      BY <2>1 DEF IInv, Opened
    <2>2. CASE pool # "none"
      <3>1. cfg = Tuned(Corrected(dsn), tune) /\ dsn \in DSNs /\ tune \in Tunes
        BY <2>2 DEF IInv, Opened, TypeOK
      <3>2. "password" \notin DOMAIN dsn.params
        BY <2>2 DEF IInv, Opened, Guarded, SecretParameter, DriverRefuses
      <3>3. DOMAIN cfg.params \subseteq DOMAIN dsn.params \union {Setting}
        BY <3>1, TunedIs
      <3> QED  BY <3>2, <3>3 DEF Setting
    <2> QED  BY <2>1, <2>2
  <1> QED  BY <1>1, Inductive, PTL

(* The session of a handle holds the whole config.                         *)
LEMMA WholeSession ==
    ASSUME IInv, outcome = "handle"
    PROVE  /\ session = cfg.params /\ pool = "open" /\ dsn \in DSNs /\ tune \in Tunes
           /\ cfg = Tuned(Corrected(dsn), tune)
  <1>1. pool = "open" /\ dsn \in DSNs /\ tune \in Tunes /\ cfg = Tuned(Corrected(dsn), tune)
    BY DEF IInv, Opened, TypeOK
  <1>2. cfg.params = [k \in DOMAIN cfg.params |-> cfg.params[k]]
    BY <1>1, TunedIs
  <1>3. DOMAIN session = DOMAIN cfg.params
    BY DEF IInv, Session, Unsent
  <1>4. session = [k \in DOMAIN session |-> cfg.params[k]]
    BY DEF IInv, Session
  <1> QED  BY <1>1, <1>2, <1>3, <1>4

(* A handle is over an open pool that has taken every setting; an error    *)
(* leaves no pool behind, at whichever stage it came.                      *)
THEOREM HandleIsWhole == Spec => []HandleOrNothing
  <1>1. IInv => HandleOrNothing
    BY WholeSession DEF HandleOrNothing, IInv, Opened
  <1> QED  BY <1>1, Inductive, PTL

(* One deadline bounds the boot, for any timeouts a DSN or a tune may set. *)
THEOREM BootIsBounded == Spec => []BootBounded
  <1>1. IInv => BootBounded
    BY DEF IInv, Late, Timeout, BootBounded
  <1> QED  BY <1>1, Inductive, PTL

(* The bound that was asked for is the bound in force, for any bound and   *)
(* any parameters of the DSN.                                              *)
THEOREM BoundsInForce == Spec => []BoundInForce
  <1>1. IInv => BoundInForce
    <2> SUFFICES ASSUME IInv, outcome = "handle", tune.bound # Keep
                 PROVE  /\ IF tune.bound > 0
                           THEN /\ session[Setting] >= 1
                                /\ tune.bound < 1000 * (session[Setting] + 1)
                                /\ tune.bound >= 1000 * session[Setting] \/ session[Setting] = 1
                           ELSE session[Setting] = 0
                        /\ \A k \in DOMAIN dsn.params \ {Setting} :
                               k \in DOMAIN session /\ session[k] = dsn.params[k]
      BY DEF BoundInForce, IInv, RefusedHigh
    <2>1. session = cfg.params /\ dsn \in DSNs /\ tune \in Tunes
          /\ cfg = Tuned(Corrected(dsn), tune)
      BY WholeSession
    <2>2. tune.bound \in Int /\ session[Setting] = Rounded(tune.bound)
      BY <2>1, TunedIs
    <2>3. \A k \in DOMAIN dsn.params \ {Setting} :
              k \in DOMAIN session /\ session[k] = dsn.params[k]
      BY <2>1, TunedIs
    <2> QED  BY <2>2, <2>3, RoundedIs
  <1> QED  BY <1>1, Inductive, PTL
=============================================================================
