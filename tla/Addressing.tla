----------------------------- MODULE Addressing -----------------------------
(***************************************************************************)
(* How a shim comes to its surface and its subjects: the command line and  *)
(* the environment become a Config, withDefaults and validate complete and *)
(* check it (in Run and again in RunWithConn), and from then on prompts,   *)
(* heartbeats and signals go by what it says.                              *)
(*                                                                         *)
(* A surface value is its text without a leading "%" and whether it had    *)
(* one.  A subject is its kind and last token: the prefix is the same for  *)
(* all, and the owner too.  Owner, prefixes, interval, role, harness and   *)
(* the other fields nothing here depends on are left out.                  *)
(***************************************************************************)
EXTENDS Naturals

CONSTANTS
  Shims,
  Commands,    \* the command lines and environments a shim may start with
  Agents,      \* what --agent may be
  Values,      \* surface values
  Names,       \* session labels and slugs
  LegalSlugs,  \* those that match instanceIDPattern
  NoValue,
  NoName

ValueOrNone == Values \cup {NoValue}
NameOrNone == Names \cup {NoName}

Engines == {"tmux", "cmux", "zmx"}
Locators == [engine : Engines, value : ValueOrNone]
NoLocator == [engine |-> "unknown", value |-> NoValue]

(* What --locator may hold: engine:value, a bare value, or nothing. *)
LocatorFlags == [engine : Engines \cup {"bare", "other", "unknown"}, value : ValueOrNone]

Command ==
  [agent : Agents, locator : LocatorFlags, pane : ValueOrNone,
   session : NameOrNone, slug : NameOrNone, dualPublish : BOOLEAN,
   cmux : ValueOrNone, zmx : ValueOrNone, tmuxPane : ValueOrNone, tmux : BOOLEAN]

ASSUME AddressingAssumption ==
  /\ NoValue \notin Values /\ NoName \notin Names
  /\ Values \subseteq [percent : BOOLEAN, text : STRING]
  /\ LegalSlugs \subseteq Names
  /\ Commands \subseteq Command

VARIABLES
  command,   \* what each shim is started with
  stage,     \* how far it has come
  config,    \* its Config
  adapter    \* the surface its adapter was built for

vars == <<command, stage, config, adapter>>

-----------------------------------------------------------------------------
(* engine.go *)

IsValid(loc) == loc.engine \in Engines /\ loc.value # NoValue

(* The most specific marker in the environment wins. *)
DetectEngine(c) ==
  IF c.cmux # NoValue THEN [engine |-> "cmux", value |-> c.cmux]
  ELSE IF c.zmx # NoValue THEN [engine |-> "zmx", value |-> c.zmx]
  ELSE IF c.tmuxPane # NoValue \/ c.tmux THEN [engine |-> "tmux", value |-> c.tmuxPane]
  ELSE NoLocator

Parses(flag) ==
  /\ flag.value # NoValue
  /\ flag.engine \in Engines \/ (flag.engine = "bare" /\ flag.value.percent)

ParseLocator(flag) ==
  [engine |-> IF flag.engine = "bare" THEN "tmux" ELSE flag.engine,
   value |-> flag.value]

-----------------------------------------------------------------------------
(* cmd/orch-agent-shim/main.go *)

HasLocatorFlag(c) == c.locator # NoLocator

(* --locator wins, --pane means tmux, neither leaves it to withDefaults. *)
ResolveLocator(c) ==
  IF HasLocatorFlag(c) THEN ParseLocator(c.locator)
  ELSE IF c.pane # NoValue THEN [engine |-> "tmux", value |-> c.pane]
  ELSE NoLocator

TuiAgents == {"claude-code", "claude", "codex", "gemini", "pi"}
KnownAgents == TuiAgents \cup {"echo"}

FlagsAreGood(c) ==
  /\ HasLocatorFlag(c) => Parses(c.locator)
  /\ c.agent \in KnownAgents

ConfigOf(c) ==
  LET loc == ResolveLocator(c)
  IN  [agent |-> c.agent, token |-> "", locator |-> loc, pane |-> loc.value,
       session |-> c.session, slug |-> c.slug]

(* New(pane): the adapter's Locator is tmux:<pane>, whatever the engine. *)
BuildAdapter(c) ==
  [engine |-> "tmux", value |-> ResolveLocator(c).value]

-----------------------------------------------------------------------------
(* shim.go: withDefaults and validate *)

(* Fault: the environment is asked before --pane. *)
EnvironmentFirst(cfg, c) ==
  IF IsValid(cfg.locator) /\ cfg.locator.engine # "tmux" THEN cfg.locator
  ELSE IF IsValid(DetectEngine(c)) THEN DetectEngine(c)
  ELSE IF cfg.pane # NoValue THEN [engine |-> "tmux", value |-> cfg.pane]
  ELSE cfg.locator

(* A locator that is valid stays, then the pane counts, then the           *)
(* environment.                                                            *)
DefaultLocator(cfg, c) ==
  IF IsValid(cfg.locator) THEN cfg.locator
  ELSE IF cfg.pane # NoValue THEN [engine |-> "tmux", value |-> cfg.pane]
  ELSE IF IsValid(DetectEngine(c)) THEN DetectEngine(c)
  ELSE cfg.locator

DefaultToken(cfg) ==
  IF cfg.token # "" THEN cfg.token
  ELSE IF cfg.agent = "claude-code" THEN "cc" ELSE cfg.agent

(* Fault: the pane is not filled in from the locator. *)
WithoutMirror(cfg, c) ==
  [cfg EXCEPT !.token = DefaultToken(cfg), !.locator = DefaultLocator(cfg, c)]

(* Fault: the pane is filled in before the locator is known. *)
MirrorFirst(cfg, c) ==
  [cfg EXCEPT !.token = DefaultToken(cfg),
              !.locator = DefaultLocator(cfg, c),
              !.pane = IF cfg.pane = NoValue /\ IsValid(cfg.locator)
                       THEN cfg.locator.value ELSE cfg.pane]

WithDefaults(cfg, c) ==
  LET loc == DefaultLocator(cfg, c)
  IN  [cfg EXCEPT !.token = DefaultToken(cfg),
                  !.locator = loc,
                  !.pane = IF cfg.pane = NoValue /\ IsValid(loc)
                           THEN loc.value ELSE cfg.pane]

ValidConfig(cfg) ==
  /\ IsValid(cfg.locator) \/ cfg.pane # NoValue
  /\ cfg.slug = NoName \/ cfg.slug \in LegalSlugs

-----------------------------------------------------------------------------
(* shim.go: subjects *)

(* The percent sign is cut off, so the token does not say whether there    *)
(* was one, nor which engine the value belongs to.                         *)
EncodePane(value) == [kind |-> "pct", name |-> value.text]

Label(name) == [kind |-> "label", name |-> name]

SessionToken(cfg) ==
  IF cfg.session # NoName THEN Label(cfg.session) ELSE EncodePane(cfg.pane)

PublishLegacy(cfg, c) == cfg.slug = NoName \/ c.dualPublish

LegacyToken(cfg, c) == IF PublishLegacy(cfg, c) THEN {SessionToken(cfg)} ELSE {}
SlugToken(cfg) == IF cfg.slug = NoName THEN {} ELSE {Label(cfg.slug)}

PromptTokens(cfg, c) == LegacyToken(cfg, c) \cup SlugToken(cfg)

(* Fault: the heartbeat goes by the slug alone. *)
HeartbeatTokensOfSlug(cfg, c) ==
  IF cfg.slug = NoName THEN {SessionToken(cfg)} ELSE SlugToken(cfg)

HeartbeatTokens(cfg, c) == LegacyToken(cfg, c) \cup SlugToken(cfg)

SignalToken(cfg) == EncodePane(cfg.pane)

-----------------------------------------------------------------------------
NoConfig ==
  [agent |-> "", token |-> "", locator |-> NoLocator, pane |-> NoValue,
   session |-> NoName, slug |-> NoName]

Init ==
  /\ command \in [Shims -> Commands]
  /\ stage = [s \in Shims |-> "start"]
  /\ config = [s \in Shims |-> NoConfig]
  /\ adapter = [s \in Shims |-> NoLocator]

Goto(s, place) == stage' = [stage EXCEPT ![s] = place]

(* run: the flags become a Config and an adapter. *)
ReadFlags(s) ==
  /\ stage[s] = "start" /\ FlagsAreGood(command[s])
  /\ config' = [config EXCEPT ![s] = ConfigOf(command[s])]
  /\ adapter' = [adapter EXCEPT ![s] =
       IF command[s].agent \in TuiAgents THEN BuildAdapter(command[s]) ELSE NoLocator]
  /\ Goto(s, "config")
  /\ UNCHANGED command

RejectFlags(s) ==
  /\ stage[s] = "start" /\ ~FlagsAreGood(command[s])
  /\ Goto(s, "failed")
  /\ UNCHANGED <<command, config, adapter>>

(* Run: defaults and validation; then the connection. *)
CompleteConfig(s) ==
  /\ stage[s] = "config"
  /\ LET cfg == WithDefaults(config[s], command[s])
     IN  /\ config' = [config EXCEPT ![s] = cfg]
         /\ Goto(s, IF ValidConfig(cfg) THEN "dialled" ELSE "failed")
  /\ UNCHANGED <<command, adapter>>

(* RunWithConn does both again, and start registers the subjects. *)
StartService(s) ==
  /\ stage[s] = "dialled"
  /\ LET cfg == WithDefaults(config[s], command[s])
     IN  /\ config' = [config EXCEPT ![s] = cfg]
         /\ Goto(s, IF ValidConfig(cfg) THEN "running" ELSE "failed")
  /\ UNCHANGED <<command, adapter>>

Next ==
  \E s \in Shims :
    ReadFlags(s) \/ RejectFlags(s) \/ CompleteConfig(s) \/ StartService(s)

Spec == Init /\ [][Next]_vars

-----------------------------------------------------------------------------
(* Properties. *)

Running(s) == stage[s] = "running"
Surface(s) == config[s].locator

Configs ==
  [agent : Agents \cup {""}, token : Agents \cup {"", "cc"},
   locator : Locators \cup {NoLocator}, pane : ValueOrNone,
   session : NameOrNone, slug : NameOrNone]

TypeOK ==
  /\ command \in [Shims -> Commands]
  /\ stage \in [Shims -> {"start", "config", "dialled", "running", "failed"}]
  /\ config \in [Shims -> Configs]
  /\ adapter \in [Shims -> Locators \cup {NoLocator}]

(* A running shim is bound to a surface: the one --locator names, else the *)
(* one --pane names, and only without both the environment's.  The order is*)
(* the one the comment at shim.go:357-367 gives: --pane "MUST override     *)
(* env-var sniffing".  The usage at main.go:20-21 lists them otherwise,    *)
(* the environment before --pane; the code does not follow it.             *)
MostExplicitSurfaceWins ==
  \A s \in Shims : Running(s) =>
    LET c == command[s]
    IN  /\ IsValid(Surface(s))
        /\ HasLocatorFlag(c) => Surface(s) = ParseLocator(c.locator)
        /\ ~HasLocatorFlag(c) /\ c.pane # NoValue =>
             Surface(s) = [engine |-> "tmux", value |-> c.pane]
        /\ ~HasLocatorFlag(c) /\ c.pane = NoValue => Surface(s) = DetectEngine(c)

(* Defaults applied twice are defaults applied once: what Run validated is *)
(* what RunWithConn runs with.                                             *)
DefaultsAreStable ==
  [][\A s \in Shims : stage[s] = "dialled" => config'[s] = config[s]]_vars

(* pane_id, the signal subject and the watchdog are about the surface.     *)
PaneIsTheSurface ==
  \A s \in Shims : Running(s) => config[s].pane = Surface(s).value

(* A running shim can be prompted, its heartbeats carry exactly the tokens *)
(* it can be prompted by, a slug no subject may carry is among none of     *)
(* them, and the signal subject of a shim that has no label and keeps its  *)
(* legacy subject ends like its prompt subject.                            *)
SubjectsAgree ==
  \A s \in Shims : Running(s) =>
    LET cfg == config[s]
        c == command[s]
    IN  /\ PromptTokens(cfg, c) # {}
        /\ HeartbeatTokens(cfg, c) = PromptTokens(cfg, c)
        /\ SlugToken(cfg) \subseteq {Label(slug) : slug \in LegalSlugs}
        /\ cfg.session = NoName /\ PublishLegacy(cfg, c) =>
             SignalToken(cfg) \in PromptTokens(cfg, c)

-----------------------------------------------------------------------------
(* What the repository says and the code does not do. *)

(* README: "The shim dispatches the inbound-prompt send-verb based on the  *)
(* persistence engine it's running under".                                 *)
PromptsReachTheSurface ==
  \A s \in Shims :
    Running(s) /\ command[s].agent \in TuiAgents => adapter[s] = Surface(s)
=============================================================================
