-------------------------- MODULE AddressingProofs --------------------------
(***************************************************************************)
(* What Addressing promises of every command line and environment.  The    *)
(* invariant: a shim that got past Run holds the defaults of the Config    *)
(* its flags gave, and they are valid; applying the defaults again changes *)
(* nothing.                                                                *)
(***************************************************************************)
EXTENDS Addressing, TLAPS

(* The Config that Run completes and validates. *)
Completed(c) == WithDefaults(ConfigOf(c), c)

AddressInv ==
  /\ command \in [Shims -> Commands]
  /\ stage \in [Shims -> {"start", "config", "dialled", "running", "failed"}]
  /\ config \in [Shims -> Configs]
  /\ \A s \in Shims :
       /\ stage[s] = "config" =>
            FlagsAreGood(command[s]) /\ config[s] = ConfigOf(command[s])
       /\ stage[s] \in {"dialled", "running"} =>
            /\ FlagsAreGood(command[s])
            /\ config[s] = Completed(command[s])
            /\ ValidConfig(config[s])

-----------------------------------------------------------------------------
(* The locator of a Config, and of any made from flags, is well typed. *)
LEMMA ConfigTyped ==
  ASSUME NEW c \in Commands, FlagsAreGood(c)
  PROVE  ConfigOf(c) \in Configs
<1>1. c \in Command
  BY AddressingAssumption
<1>2. HasLocatorFlag(c) => ParseLocator(c.locator) \in Locators
  BY <1>1 DEF FlagsAreGood, Parses, ParseLocator, Locators, LocatorFlags,
              Command, Engines
<1>3. ResolveLocator(c) \in Locators \cup {NoLocator}
  BY <1>1, <1>2 DEF ResolveLocator, Locators, Engines, Command
<1>4. ResolveLocator(c).value \in ValueOrNone
  BY <1>3 DEF Locators, NoLocator, ValueOrNone
<1> QED
  BY <1>1, <1>3, <1>4 DEF ConfigOf, Configs, Command

LEMMA DetectedTyped ==
  ASSUME NEW c \in Command
  PROVE  DetectEngine(c) \in Locators \cup {NoLocator}
BY DEF DetectEngine, Locators, Engines, Command

LEMMA DefaultsTyped ==
  ASSUME NEW c \in Command, NEW cfg \in Configs
  PROVE  WithDefaults(cfg, c) \in Configs
<1>1. DefaultLocator(cfg, c) \in Locators \cup {NoLocator}
  BY DetectedTyped DEF DefaultLocator, Configs, Locators, Engines, ValueOrNone
<1>2. DefaultLocator(cfg, c).value \in ValueOrNone
  BY <1>1 DEF Locators, NoLocator, ValueOrNone
<1>3. DefaultToken(cfg) \in Agents \cup {"", "cc"}
  BY DEF DefaultToken, Configs
<1> QED
  BY <1>1, <1>2, <1>3 DEF WithDefaults, Configs

LEMMA DefaultsFields ==
  ASSUME NEW c, NEW cfg \in Configs
  PROVE  /\ WithDefaults(cfg, c).locator = DefaultLocator(cfg, c)
         /\ WithDefaults(cfg, c).pane =
              IF cfg.pane = NoValue /\ IsValid(DefaultLocator(cfg, c))
              THEN DefaultLocator(cfg, c).value ELSE cfg.pane
BY DEF WithDefaults, Configs

LEMMA SameFields ==
  ASSUME NEW cfg \in Configs
  PROVE  [cfg EXCEPT !.token = cfg.token, !.locator = cfg.locator,
                     !.pane = cfg.pane] = cfg
BY DEF Configs

(* withDefaults applied twice does what it does applied once. *)
LEMMA DefaultsIdempotent ==
  ASSUME NEW c \in Command, NEW cfg \in Configs
  PROVE  WithDefaults(WithDefaults(cfg, c), c) = WithDefaults(cfg, c)
<1> DEFINE once == WithDefaults(cfg, c)
<1>1. once \in Configs
  BY DefaultsTyped
<1>2. DefaultToken(once) = once.token
  BY DEF DefaultToken, WithDefaults, Configs
<1>3. DefaultLocator(once, c) = once.locator
  <2>1. once.locator = DefaultLocator(cfg, c)
    BY DEF WithDefaults, Configs
  <2>2. CASE IsValid(once.locator)
    BY <2>2 DEF DefaultLocator
  <2>3. CASE ~IsValid(once.locator)
    <3>1. cfg.pane = NoValue
      BY <2>1, <2>3 DEF DefaultLocator, IsValid, Engines
    <3>2. ~IsValid(DetectEngine(c)) /\ once.locator = cfg.locator
      BY <2>1, <2>3, <3>1 DEF DefaultLocator
    <3>3. once.pane = NoValue
      BY <2>1, <2>3, <3>1 DEF WithDefaults, Configs
    <3> QED
      BY <2>3, <3>2, <3>3 DEF DefaultLocator
  <2> QED
    BY <2>2, <2>3
<1>4. once.pane = NoValue => ~IsValid(once.locator)
  BY DEF WithDefaults, Configs, IsValid
<1>5. WithDefaults(once, c) =
        [once EXCEPT !.token = once.token, !.locator = once.locator,
                     !.pane = once.pane]
  BY <1>2, <1>3, <1>4 DEF WithDefaults
<1>6. [once EXCEPT !.token = once.token, !.locator = once.locator,
                   !.pane = once.pane] = once
  <2> HIDE DEF once
  <2> QED
    BY <1>1, SameFields
<1>7. WithDefaults(once, c) = once
  <2> HIDE DEF once
  <2> QED
    BY <1>5, <1>6
<1> QED
  BY <1>7

-----------------------------------------------------------------------------
LEMMA AddressInit == Init => AddressInv
<1>1. NoConfig \in Configs
  BY DEF NoConfig, Configs, NoLocator, ValueOrNone, NameOrNone
<1> QED
  BY <1>1 DEF Init, AddressInv

LEMMA AddressStep == AddressInv /\ [Next]_vars => AddressInv'
<1> SUFFICES ASSUME AddressInv, [Next]_vars PROVE AddressInv'
  OBVIOUS
<1>1. ASSUME NEW s \in Shims, ReadFlags(s) PROVE AddressInv'
  <2>1. command[s] \in Commands
    BY DEF AddressInv
  <2>2. ConfigOf(command[s]) \in Configs
    BY <1>1, <2>1, ConfigTyped DEF ReadFlags
  <2>3. /\ command' = command
        /\ stage' = [stage EXCEPT ![s] = "config"]
        /\ config' = [config EXCEPT ![s] = ConfigOf(command[s])]
        /\ FlagsAreGood(command[s])
    BY <1>1 DEF ReadFlags, Goto
  <2> QED
    BY <2>2, <2>3 DEF AddressInv
<1>2. ASSUME NEW s \in Shims, RejectFlags(s) PROVE AddressInv'
  BY <1>2 DEF RejectFlags, Goto, AddressInv
<1>3. ASSUME NEW s \in Shims, CompleteConfig(s) PROVE AddressInv'
  <2>1. command[s] \in Command /\ config[s] \in Configs
    BY AddressingAssumption DEF AddressInv
  <2>2. /\ config[s] = ConfigOf(command[s]) /\ FlagsAreGood(command[s])
    BY <1>3 DEF CompleteConfig, AddressInv
  <2>3. Completed(command[s]) \in Configs
    BY <2>1, <2>2, DefaultsTyped DEF Completed
  <2>4. /\ command' = command
        /\ config' = [config EXCEPT ![s] = Completed(command[s])]
        /\ stage' = [stage EXCEPT ![s] =
             IF ValidConfig(Completed(command[s])) THEN "dialled" ELSE "failed"]
    BY <1>3, <2>2 DEF CompleteConfig, Goto, Completed
  <2> QED
    BY <2>2, <2>3, <2>4 DEF AddressInv
<1>4. ASSUME NEW s \in Shims, StartService(s) PROVE AddressInv'
  <2>1. command[s] \in Command /\ command[s] \in Commands
    BY AddressingAssumption DEF AddressInv
  <2>2. /\ config[s] = Completed(command[s]) /\ FlagsAreGood(command[s])
        /\ ValidConfig(config[s])
    BY <1>4 DEF StartService, AddressInv
  <2>3. WithDefaults(config[s], command[s]) = config[s]
    BY <2>1, <2>2, ConfigTyped, DefaultsIdempotent DEF Completed
  <2>4. config' = config
    BY <1>4, <2>3 DEF StartService, AddressInv
  <2>5. command' = command /\ stage' = [stage EXCEPT ![s] = "running"]
    BY <1>4, <2>2, <2>3 DEF StartService, Goto
  <2> QED
    BY <2>2, <2>4, <2>5 DEF AddressInv
<1>5. CASE UNCHANGED vars
  BY <1>5 DEF vars, AddressInv
<1> QED
  BY <1>1, <1>2, <1>3, <1>4, <1>5 DEF Next

(* Every shim holds the Config its flags and environment stand for. *)
THEOREM AddressInvariant == Spec => []AddressInv
BY AddressInit, AddressStep, PTL DEF Spec

AdapterTyped == adapter \in [Shims -> Locators \cup {NoLocator}]

(* The types: every adapter is built for a surface or none.                *)
THEOREM AddressTypesCorrect == Spec => []TypeOK
<1>1. Init => AdapterTyped
  BY DEF Init, AdapterTyped
<1>2. AddressInv /\ AdapterTyped /\ [Next]_vars => AdapterTyped'
  <2> SUFFICES ASSUME AddressInv, AdapterTyped, [Next]_vars PROVE AdapterTyped'
    OBVIOUS
  <2>1. ASSUME NEW s \in Shims, ReadFlags(s)
        PROVE  AdapterTyped'
    <3>1. command[s] \in Commands /\ FlagsAreGood(command[s])
      BY <2>1 DEF ReadFlags, AddressInv
    <3>2. ConfigOf(command[s]).locator = ResolveLocator(command[s])
      BY DEF ConfigOf
    <3>3. ResolveLocator(command[s]) \in Locators \cup {NoLocator}
      BY <3>1, <3>2, ConfigTyped DEF Configs
    <3>4. BuildAdapter(command[s]) \in Locators
      BY <3>3 DEF BuildAdapter, Locators, NoLocator, Engines, ValueOrNone
    <3> QED BY <2>1, <3>4 DEF ReadFlags, AdapterTyped
  <2> QED
    BY <2>1 DEF Next, RejectFlags, CompleteConfig, StartService, vars, AdapterTyped
<1>3. AddressInv /\ AdapterTyped => TypeOK
  BY DEF AddressInv, AdapterTyped, TypeOK
<1> QED
  BY <1>1, <1>2, <1>3, AddressInvariant, PTL DEF Spec

-----------------------------------------------------------------------------
(* A running shim is bound to a surface, the most explicit one given:      *)
(* resolveLocator, withDefaults and validate together.                     *)
THEOREM RunningShimsHaveTheirSurface == Spec => []MostExplicitSurfaceWins
<1>1. AddressInv => MostExplicitSurfaceWins
  <2> SUFFICES ASSUME AddressInv, NEW s \in Shims, Running(s)
               PROVE  LET c == command[s]
                      IN  /\ IsValid(Surface(s))
                          /\ HasLocatorFlag(c) => Surface(s) = ParseLocator(c.locator)
                          /\ ~HasLocatorFlag(c) /\ c.pane # NoValue =>
                               Surface(s) = [engine |-> "tmux", value |-> c.pane]
                          /\ ~HasLocatorFlag(c) /\ c.pane = NoValue =>
                               Surface(s) = DetectEngine(c)
    BY DEF MostExplicitSurfaceWins
  <2> DEFINE c == command[s]
  <2> DEFINE flags == ConfigOf(c)
  <2>1. /\ c \in Commands /\ FlagsAreGood(c)
        /\ config[s] = Completed(c) /\ ValidConfig(config[s])
    BY DEF AddressInv, Running
  <2>2. c \in Command /\ flags \in Configs
    BY <2>1, ConfigTyped, AddressingAssumption
  <2>3. /\ flags.locator = ResolveLocator(c)
        /\ flags.pane = ResolveLocator(c).value
    BY DEF ConfigOf
  <2>4. Surface(s) = DefaultLocator(flags, c)
    BY <2>1, <2>2 DEF Surface, Completed, WithDefaults, Configs
  <2>5. CASE HasLocatorFlag(c)
    <3>1. IsValid(ParseLocator(c.locator))
      BY <2>1, <2>5 DEF FlagsAreGood, Parses, ParseLocator, IsValid, Engines
    <3> QED
      BY <2>3, <2>4, <2>5, <3>1 DEF ResolveLocator, DefaultLocator
  <2>6. CASE ~HasLocatorFlag(c) /\ c.pane # NoValue
    <3>1. IsValid(ResolveLocator(c))
      BY <2>6 DEF ResolveLocator, IsValid, Engines
    <3> QED
      BY <2>3, <2>4, <2>6, <3>1 DEF ResolveLocator, DefaultLocator
  <2>7. CASE ~HasLocatorFlag(c) /\ c.pane = NoValue
    <3>1. ~IsValid(flags.locator) /\ flags.pane = NoValue
      BY <2>3, <2>7 DEF ResolveLocator, IsValid, NoLocator, Engines
    <3>2. CASE IsValid(DetectEngine(c))
      BY <2>4, <2>7, <3>1, <3>2 DEF DefaultLocator
    <3>3. CASE ~IsValid(DetectEngine(c))
      <4>1. config[s].locator = flags.locator
        BY <2>4, <3>1, <3>3 DEF DefaultLocator, Surface
      <4>2. config[s].pane = NoValue
        BY <2>1, <2>2, <3>1, <3>3, <4>1, DefaultsFields DEF Completed
      <4> QED
        BY <2>1, <3>1, <4>1, <4>2 DEF ValidConfig
    <3> QED
      BY <3>2, <3>3
  <2> QED
    BY <2>5, <2>6, <2>7
<1> QED
  BY <1>1, AddressInvariant, PTL

(* What Run validated is what RunWithConn runs with. *)
THEOREM ConfigIsNotChangedAgain == Spec => DefaultsAreStable
<1>1. AddressInv /\ [Next]_vars =>
        [\A s \in Shims : stage[s] = "dialled" => config'[s] = config[s]]_vars
  <2> SUFFICES ASSUME AddressInv, Next, NEW s \in Shims, stage[s] = "dialled"
               PROVE  config'[s] = config[s]
    BY DEF vars
  <2>1. PICK t \in Shims : ReadFlags(t) \/ RejectFlags(t) \/ CompleteConfig(t) \/ StartService(t)
    BY DEF Next
  <2>2. CASE t # s
    BY <2>1, <2>2 DEF ReadFlags, RejectFlags, CompleteConfig, StartService, AddressInv
  <2>3. CASE t = s
    <3>1. StartService(s)
      BY <2>1, <2>3 DEF ReadFlags, RejectFlags, CompleteConfig
    <3>2. /\ command[s] \in Command /\ command[s] \in Commands
          /\ config[s] = Completed(command[s]) /\ FlagsAreGood(command[s])
      BY AddressingAssumption DEF AddressInv
    <3>3. WithDefaults(config[s], command[s]) = config[s]
      BY <3>2, ConfigTyped, DefaultsIdempotent DEF Completed
    <3> QED
      BY <3>1, <3>3 DEF StartService, AddressInv
  <2> QED
    BY <2>2, <2>3
<1> QED
  BY <1>1, AddressInvariant, PTL DEF Spec, DefaultsAreStable

(* pane_id, the signal subject and the pane watchdog are about the surface *)
(* the shim is bound to, however it was given.                             *)
THEOREM PaneIsTheSurfaceCorrect == Spec => []PaneIsTheSurface
<1>1. AddressInv => PaneIsTheSurface
  <2> SUFFICES ASSUME AddressInv, NEW s \in Shims, Running(s)
               PROVE  config[s].pane = Surface(s).value
    BY DEF PaneIsTheSurface
  <2> DEFINE c == command[s]
  <2> DEFINE flags == ConfigOf(c)
  <2> DEFINE loc == DefaultLocator(flags, c)
  <2>1. /\ c \in Commands /\ FlagsAreGood(c)
        /\ config[s] = Completed(c) /\ ValidConfig(config[s])
    BY DEF AddressInv, Running
  <2>2. c \in Command /\ flags \in Configs
    BY <2>1, ConfigTyped, AddressingAssumption
  <2>3. flags.pane = flags.locator.value
    BY DEF ConfigOf
  <2>4. /\ Surface(s) = loc
        /\ config[s].pane = IF flags.pane = NoValue /\ IsValid(loc)
                            THEN loc.value ELSE flags.pane
    BY <2>1, <2>2, DefaultsFields DEF Surface, Completed
  <2>5. CASE IsValid(flags.locator)
    BY <2>3, <2>4, <2>5 DEF DefaultLocator, IsValid
  <2>6. CASE ~IsValid(flags.locator)
    <3>1. flags.pane = NoValue
      <4>1. flags.locator \in Locators \cup {NoLocator}
        BY <2>2 DEF Configs
      <4> QED
        BY <2>3, <2>6, <4>1 DEF IsValid, Locators, NoLocator
    <3>2. IsValid(loc)
      BY <2>1, <2>4, <3>1 DEF ValidConfig, Surface
    <3> QED
      BY <2>4, <3>1, <3>2
  <2> QED
    BY <2>5, <2>6
<1> QED
  BY <1>1, AddressInvariant, PTL

(* A running shim can be prompted, and its heartbeats and signal subject   *)
(* go by the tokens it can be prompted by; validate let no other slug pass.*)
THEOREM SubjectsAgreeCorrect == Spec => []SubjectsAgree
<1>1. AddressInv => SubjectsAgree
  <2> SUFFICES ASSUME AddressInv, NEW s \in Shims, Running(s)
               PROVE  LET cfg == config[s]
                          c == command[s]
                      IN  /\ PromptTokens(cfg, c) # {}
                          /\ HeartbeatTokens(cfg, c) = PromptTokens(cfg, c)
                          /\ SlugToken(cfg) \subseteq {Label(slug) : slug \in LegalSlugs}
                          /\ cfg.session = NoName /\ PublishLegacy(cfg, c) =>
                               SignalToken(cfg) \in PromptTokens(cfg, c)
    BY DEF SubjectsAgree
  <2>1. config[s].slug = NoName \/ config[s].slug \in LegalSlugs
    BY DEF AddressInv, Running, ValidConfig
  <2> QED
    BY <2>1 DEF PromptTokens, HeartbeatTokens, LegacyToken, SlugToken, PublishLegacy,
                SessionToken, SignalToken
<1> QED
  BY <1>1, AddressInvariant, PTL
=============================================================================
