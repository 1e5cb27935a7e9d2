------------------------------ MODULE Settings ------------------------------
(***************************************************************************)
(* internal/config/settings.go: what the process is started with.  .env    *)
(* files add to the environment, a configuration file goes over the        *)
(* defaults and the environment over both, and what is then unusable is    *)
(* replaced when the runtime's configuration is made of it.                *)
(* NewEnvironment of internal/runtime/production.go makes the components   *)
(* of that, whose constants the other modules assume to be in range.       *)
(*                                                                         *)
(* Of the settings those are kept that set such a constant; their like     *)
(* (kubectl slots, API rate, backoff, file names) are treated alike.  Some *)
(* text for a setting stands for the set of the values it can be read as:  *)
(* one or, if it cannot be read, none.  A source of settings is a function *)
(* on the settings it gives a text for.                                    *)
(***************************************************************************)
EXTENDS Integers

CONSTANTS
  Environments,   \* what the environment of the process may give
  DotEnvs,        \* what a .env file may give
  Files           \* what a configuration file may give

\* What a text may be read as: one number, or none.
Readings == {S \in SUBSET Int : \A m, n \in S : m = n}

IsSource(source) == \A key \in DOMAIN source : source[key] \in Readings

ASSUME SourcesAssumption ==
  \A source \in Environments \cup DotEnvs \cup Files : IsSource(source)

VARIABLES
  loading,   \* how far LoadSettings is
  given,     \* history: the environment the process was started with
  environ,   \* the environment
  settings,  \* the Settings being loaded
  config     \* the ProductionConfig made of them

settingsVars == <<loading, given, environ, settings, config>>

\* Rates are in tenths, so that some are below one; durations are in seconds.
Numbers == {"max_concurrent_agents", "kubectl_rate_limit", "circuit_breaker_threshold"}
Durations == {"agent_timeout", "circuit_breaker_timeout"}

\* setDefaults and DefaultConfig, which agree.
Defaults ==
  [max_concurrent_agents |-> 5, kubectl_rate_limit |-> 50,
   circuit_breaker_threshold |-> 3, agent_timeout |-> 300,
   circuit_breaker_timeout |-> 300]

\* Settings that environment variables may give.
FromEnv == {"max_concurrent_agents", "agent_timeout"}

\* A file with a number that cannot be read is refused as a whole.
Readable(file) == \A key \in Numbers \cap DOMAIN file : file[key] # {}

\* What f gives and, of the rest, what g gives.
Over(f, g) ==
  [key \in DOMAIN f \cup DOMAIN g |-> IF key \in DOMAIN f THEN f[key] ELSE g[key]]

\* A duration is kept as text, so that one that cannot be read hides the file's.
Overriding == {key \in FromEnv \cap DOMAIN environ : key \in Durations \/ environ[key] # {}}

\* Mutant of Usable.
UsableIfRead(key, n) == TRUE

\* Only numbers are asked to be positive.
Usable(key, n) == key \in Numbers => n > 0

ToProductionConfig ==
  [key \in DOMAIN Defaults |->
     IF \E n \in settings[key] : Usable(key, n)
     THEN CHOOSE n \in settings[key] : TRUE ELSE Defaults[key]]

Positive(n) == IF n > 0 THEN n ELSE 1

\* NewRateLimiter(rate, int(rate * 2)), NewConcurrencyController, NewCircuitBreaker
\* and, for the tasks of a step, maxParallel of the scheduler.
NewEnvironment ==
  [Rate |-> Positive(config.kubectl_rate_limit),
   Burst |-> Positive((2 * config.kubectl_rate_limit) \div 10),
   MaxAgents |-> config.max_concurrent_agents,
   Threshold |-> config.circuit_breaker_threshold,
   OpenTimeout |-> config.circuit_breaker_timeout,
   MaxParallel |-> IF config.max_concurrent_agents > 0
                   THEN config.max_concurrent_agents ELSE 5]

-----------------------------------------------------------------------------

SettingsInit ==
  /\ loading = ".env"
  /\ given \in Environments /\ environ = given
  /\ settings = [key \in DOMAIN Defaults |-> {Defaults[key]}]
  /\ config = Defaults

Stage(from, to) == loading = from /\ loading' = to

\* Mutant of LoadEnvFile.
LoadEnvFileOver(from, to, file) ==
  /\ Stage(from, to)
  /\ environ' = Over(file, environ)
  /\ UNCHANGED <<given, settings, config>>

\* A .env file is missing, or gives variables that the environment does not have.
LoadEnvFile(from, to, file) ==
  /\ Stage(from, to)
  /\ environ' = Over(environ, file)
  /\ UNCHANGED <<given, settings, config>>

\* No file is no text at all.
LoadFile(file) ==
  /\ Stage("file", "overrides")
  /\ Readable(file)
  /\ settings' = Over(file, settings)
  /\ UNCHANGED <<given, environ, config>>

RefuseFile(file) ==
  /\ Stage("file", "refused")
  /\ ~Readable(file)
  /\ UNCHANGED <<given, environ, settings, config>>

OverrideFromEnv ==
  /\ Stage("overrides", "loaded")
  /\ settings' = Over([key \in Overriding |-> environ[key]], settings)
  /\ UNCHANGED <<given, environ, config>>

MakeConfig ==
  /\ Stage("loaded", "made")
  /\ config' = ToProductionConfig
  /\ UNCHANGED <<given, environ, settings>>

SettingsNext ==
  \/ \E file \in DotEnvs : LoadEnvFile(".env", "file's .env", file)
  \/ \E file \in DotEnvs : LoadEnvFile("file's .env", "file", file)
  \/ \E file \in Files : LoadFile(file) \/ RefuseFile(file)
  \/ OverrideFromEnv
  \/ MakeConfig

SettingsSpec == SettingsInit /\ [][SettingsNext]_settingsVars

-----------------------------------------------------------------------------

\* Whatever files and environment say, every channel of slots has room, every breaker
\* a threshold, and every bucket a flow and room for the token a caller asks for: no
\* executor can be built whose slots nobody ever gets, and the assumptions of the
\* other modules on these constants hold.  Of durations nothing is said: a breaker's
\* timeout may be negative (settings.go:110-200, production.go:75-234).
LimitsLeaveRoom ==
  loading = "made" =>
    \A limit \in {NewEnvironment.Rate, NewEnvironment.Burst, NewEnvironment.MaxAgents,
                   NewEnvironment.Threshold, NewEnvironment.MaxParallel} :
      limit \in Nat \ {0}

\* settings.go:129: "Env vars override (higher priority)".  What the process was given
\* to use is used, whatever .env files and the configuration file say of it.
EnvironmentWins ==
  loading = "made" =>
    \A key \in FromEnv \cap DOMAIN given :
      \A n \in given[key] : Usable(key, n) => config[key] = n
=============================================================================
