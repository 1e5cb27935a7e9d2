-------------------------- MODULE RateLimiter_proofs --------------------------
(***************************************************************************)
(* Proofs about RateLimiter, for any callers, costs, rate and burst and    *)
(* for windows of any length.  The bound on what is granted in a window is *)
(* not inductive: what the bucket would hold after a refill has to be      *)
(* counted with it.                                                        *)
(*                                                                         *)
(* At the end, theorems about Settings, which make the limiter's rate and  *)
(* burst and the limits of other components.                               *)
(***************************************************************************)
EXTENDS RateLimiter, Settings, TLAPS

LEMMA AtMostBounds ==
  ASSUME NEW n \in Nat, NEW b \in Nat
  PROVE  AtMost(n, b) \in 0..b /\ AtMost(n, b) <= n /\ (n <= b => AtMost(n, b) = n)
BY DEF AtMost

\* A rate multiplies whole ticks; the solver is told how.
LEMMA TimesType ==
  ASSUME NEW r \in Nat, NEW n \in Nat PROVE r * n \in Nat
OBVIOUS

LEMMA TimesZero == ASSUME NEW r \in Nat PROVE r * 0 = 0
OBVIOUS

LEMMA TimesSuccessor ==
  ASSUME NEW r \in Nat, NEW n \in Nat PROVE r * (n + 1) = r * n + r
OBVIOUS

LEMMA TimesAtMostOneMore ==
  ASSUME NEW r \in Nat, NEW n \in Nat, NEW m \in Nat, m = n \/ m = n + 1
  PROVE  r * m <= r * n + r
<1>1. r * (n + 1) = r * n + r /\ r * n \in Nat
  BY TimesSuccessor, TimesType
<1>2. CASE m = n
  BY <1>1, <1>2
<1>3. CASE m = n + 1
  BY <1>1, <1>3
<1> QED
  BY <1>2, <1>3

\* A bucket fills by at most the rate in a tick.
LEMMA AtMostShifts ==
  ASSUME NEW t \in Nat, NEW x \in Nat, NEW y \in Nat, NEW r \in Nat, NEW b \in Nat,
         y <= x + r
  PROVE  AtMost(t + y, b) <= AtMost(t + x, b) + r
BY DEF AtMost

LEMMA BalanceAfterTick ==
  ASSUME NEW r \in Nat, NEW w \in Nat, NEW g \in Nat, NEW b \in Nat,
         NEW f \in Nat, NEW h \in Nat,
         g + f <= b + r * w, h <= f + r
  PROVE  g + h <= b + r * (w + 1)
<1>1. r * (w + 1) = r * w + r /\ r * w \in Nat
  BY TimesSuccessor, TimesType
<1> QED
  BY <1>1

LEMMA FilledBounds ==
  ASSUME NEW r \in Nat, NEW t \in Nat, NEW e \in Nat, NEW b \in Nat
  PROVE  /\ r * e \in Nat /\ t + r * e \in Nat
         /\ AtMost(t + r * e, b) \in Nat /\ AtMost(t + r * e, b) <= b
<1>1. r * e \in Nat
  BY TimesType
<1>2. t + r * e \in Nat
  BY <1>1
<1> QED
  BY <1>1, <1>2, AtMostBounds

LEMMA FilledAtOnce ==
  ASSUME NEW r \in Nat, NEW t \in Nat, NEW b \in Nat, t <= b
  PROVE  AtMost(t + r * 0, b) = t
<1>1. t + r * 0 = t
  BY TimesZero
<1> QED
  BY <1>1, AtMostBounds

LEMMA RefilledType == TypeOK => Refilled \in 0..Burst
<1> SUFFICES ASSUME TypeOK PROVE Refilled \in 0..Burst
  OBVIOUS
<1>1. Rate \in Nat /\ tokens \in Nat /\ elapsed \in Nat /\ Burst \in Nat
  BY LimiterAssumption DEF LimiterAssumption, TypeOK
<1> QED
  BY <1>1, FilledBounds DEF Refilled

\* The time a caller is to sleep is a number of ticks.
LEMMA SleepIsTicks ==
  ASSUME NEW n \in Nat PROVE n \div Rate \in Nat
BY LimiterAssumption DEF LimiterAssumption

LEMMA StepKeepsType == TypeOK /\ [Next]_vars => TypeOK'
<1> SUFFICES ASSUME TypeOK, [Next]_vars PROVE TypeOK'
  OBVIOUS
<1> USE LimiterAssumption DEF LimiterAssumption, TypeOK
<1>1. ASSUME NEW c \in Callers, Enter(c) \/ Wakes(c) \/ GivesUp(c) PROVE TypeOK'
  BY <1>1 DEF Enter, Wakes, GivesUp, bucketVars, windowVars
<1>2. ASSUME NEW c \in Callers, Try(c) PROVE TypeOK'
  <2>1. Refilled \in 0..Burst
    BY RefilledType
  <2>2. CASE Refilled >= Cost[c]
    BY <1>2, <2>1, <2>2 DEF Try
  <2>3. CASE ~(Refilled >= Cost[c])
    <3>1. Cost[c] - Refilled \in Nat
      BY <2>1, <2>3
    <3>2. (Cost[c] - Refilled) \div Rate \in Nat
      BY <3>1, SleepIsTicks
    <3> QED
      BY <1>2, <2>1, <2>3, <3>2 DEF Try
  <2> QED
    BY <2>2, <2>3
<1>3. ASSUME NEW fresh \in BOOLEAN, Tick(fresh) PROVE TypeOK'
  <2>1. elapsed' \in 0..Burst
    BY <1>3, AtMostBounds DEF Tick
  <2>2. window' \in Nat /\ granted' \in Nat
    BY <1>3 DEF Tick
  <2> QED
    BY <1>3, <2>1, <2>2 DEF Tick
<1>4. CASE UNCHANGED vars
  BY <1>4 DEF vars, bucketVars, windowVars
<1> QED
  BY <1>1, <1>2, <1>3, <1>4 DEF Next

\* The bucket never holds more than a burst or less than nothing
\* (production.go:186-203).
THEOREM TypeCorrect == Spec => []TypeOK
<1>1. Init => TypeOK
  BY LimiterAssumption DEF LimiterAssumption, Init, TypeOK
<1> QED
  BY <1>1, StepKeepsType, PTL DEF Spec, SafeSpec

-----------------------------------------------------------------------------

\* What was granted in the window and what a caller could take now.
Balance == granted + Refilled <= Burst + Rate * window

\* The types the arithmetic below is done in.
LEMMA Amounts ==
  ASSUME TypeOK
  PROVE  /\ Rate \in Nat /\ Burst \in Nat /\ tokens \in Nat /\ elapsed \in Nat
         /\ window \in Nat /\ granted \in Nat
         /\ Refilled \in Nat /\ Refilled <= Burst
         /\ Rate * elapsed \in Nat /\ Rate * window \in Nat
<1>1. /\ Rate \in Nat /\ Burst \in Nat /\ tokens \in Nat /\ elapsed \in Nat
      /\ window \in Nat /\ granted \in Nat
  BY LimiterAssumption DEF LimiterAssumption, TypeOK
<1>2. Rate * elapsed \in Nat /\ Rate * window \in Nat
  BY <1>1, TimesType
<1> QED
  BY <1>1, <1>2, RefilledType

LEMMA StepKeepsBalance ==
  ASSUME TypeOK, TypeOK', Balance, [Next]_vars
  PROVE  Balance'
<1> DEFINE Filled == AtMost(tokens' + Rate * elapsed', Burst)
<1>0. /\ Rate \in Nat /\ Burst \in Nat /\ tokens \in Nat /\ elapsed \in Nat
      /\ window \in Nat /\ granted \in Nat
      /\ Refilled \in Nat /\ Refilled <= Burst
      /\ Rate * elapsed \in Nat /\ Rate * window \in Nat
  BY Amounts
<1>a. tokens' \in Nat /\ tokens' <= Burst /\ elapsed' \in Nat
  BY LimiterAssumption DEF LimiterAssumption, TypeOK
<1>b. Rate * elapsed' \in Nat
  BY <1>0, <1>a, TimesType
<1>c. Refilled' = Filled /\ Filled \in Nat /\ Filled <= Burst
  BY <1>0, <1>a, FilledBounds DEF Refilled
<1> HIDE DEF Filled
<1>1. ASSUME NEW c \in Callers, Enter(c) \/ Wakes(c) \/ GivesUp(c) PROVE Balance'
  BY <1>1 DEF Enter, Wakes, GivesUp, bucketVars, windowVars, Balance, Refilled
<1>2. ASSUME NEW c \in Callers, Try(c) PROVE Balance'
  <2>1. elapsed' = 0 /\ window' = window
    BY <1>2 DEF Try
  <2>3. Filled = tokens'
    BY <1>0, <1>a, <2>1, FilledAtOnce DEF Filled
  <2>4. Cost[c] \in Nat
    BY LimiterAssumption DEF LimiterAssumption
  <2>5. granted' + tokens' = granted + Refilled
    BY <1>0, <1>2, <2>4 DEF Try
  <2> QED
    BY <1>c, <2>1, <2>3, <2>5 DEF Balance
<1>3. CASE Tick(TRUE)
  <2>1. granted' = 0 /\ window' = 0
    BY <1>3 DEF Tick
  <2>2. Rate * window' = 0
    BY <1>0, <2>1, TimesZero
  <2> QED
    BY <1>0, <1>c, <2>1, <2>2 DEF Balance
<1>4. CASE Tick(FALSE)
  <2>1. granted' = granted /\ window' = window + 1 /\ tokens' = tokens
    BY <1>4 DEF Tick
  <2>2. elapsed' = elapsed \/ elapsed' = elapsed + 1
    BY <1>4, LimiterAssumption DEF LimiterAssumption, TypeOK, Tick, AtMost
  <2>3. Rate * elapsed' <= Rate * elapsed + Rate
    BY <1>0, <1>a, <2>2, TimesAtMostOneMore
  <2>4. Filled <= Refilled + Rate
    BY <1>0, <1>b, <2>1, <2>3, AtMostShifts DEF Refilled, Filled
  <2>5. granted + Filled <= Burst + Rate * (window + 1)
    BY <1>0, <1>c, <2>4, BalanceAfterTick DEF Balance
  <2> QED
    BY <1>c, <2>1, <2>5 DEF Balance
<1>5. CASE UNCHANGED vars
  BY <1>5 DEF vars, bucketVars, windowVars, Balance, Refilled
<1> QED
  BY <1>1, <1>2, <1>3, <1>4, <1>5 DEF Next

\* In no stretch of time do callers take more than a full bucket and what flows
\* in meanwhile (production.go:177-212).
THEOREM WindowsBounded == Spec => []WindowBounded
<1>1. Init => Balance
  <2> SUFFICES ASSUME Init PROVE Balance
    OBVIOUS
  <2>1. TypeOK
    BY LimiterAssumption DEF LimiterAssumption, Init, TypeOK
  <2>2. Rate * window = 0 /\ granted = 0
    BY <2>1, Amounts, TimesZero DEF Init
  <2> QED
    BY <2>1, <2>2, Amounts DEF Balance
<1>2. TypeOK /\ TypeOK' /\ Balance /\ [Next]_vars => Balance'
  BY StepKeepsBalance
<1>3. TypeOK /\ Balance => WindowBounded
  <2> SUFFICES ASSUME TypeOK, Balance PROVE WindowBounded
    OBVIOUS
  <2> QED
    BY Amounts DEF Balance, WindowBounded
<1> QED
  BY <1>1, <1>2, <1>3, TypeCorrect, PTL DEF Spec, SafeSpec

-----------------------------------------------------------------------------

SettingsInv ==
  /\ IsSource(given) /\ IsSource(environ) /\ IsSource(settings)
  /\ DOMAIN Defaults \subseteq DOMAIN settings
  /\ DOMAIN given \subseteq DOMAIN environ
  /\ \A key \in DOMAIN given : environ[key] = given[key]
  /\ loading \in {"loaded", "made"} =>
       \A key \in FromEnv \cap DOMAIN given : given[key] # {} => settings[key] = given[key]
  /\ loading = "made" => config = ToProductionConfig

LEMMA OverKeepsSources ==
  ASSUME NEW f, NEW g, IsSource(f), IsSource(g)
  PROVE  /\ IsSource(Over(f, g)) /\ DOMAIN Over(f, g) = DOMAIN f \cup DOMAIN g
         /\ \A key \in DOMAIN f : Over(f, g)[key] = f[key]
BY DEF IsSource, Over

LEMMA SettingsInvStarts == SettingsInit => SettingsInv
<1> SUFFICES ASSUME SettingsInit PROVE SettingsInv
  OBVIOUS
<1>1. IsSource(given)
  BY SourcesAssumption DEF SettingsInit
<1>2. \A key \in DOMAIN Defaults : Defaults[key] \in Int
  BY DEF Defaults
<1>3. IsSource(settings)
  BY <1>2 DEF SettingsInit, IsSource, Readings
<1> QED
  BY <1>1, <1>3 DEF SettingsInit, SettingsInv

LEMMA SettingsInvStep == SettingsInv /\ [SettingsNext]_settingsVars => SettingsInv'
<1> SUFFICES ASSUME SettingsInv, [SettingsNext]_settingsVars PROVE SettingsInv'
  OBVIOUS
<1> USE DEF Stage
<1>1. ASSUME NEW file \in DotEnvs, NEW from, NEW to, to \notin {"loaded", "made"},
             LoadEnvFile(from, to, file)
      PROVE  SettingsInv'
  <2>1. /\ IsSource(environ') /\ DOMAIN environ' = DOMAIN environ \cup DOMAIN file
        /\ \A key \in DOMAIN environ : environ'[key] = environ[key]
    BY <1>1, OverKeepsSources, SourcesAssumption DEF LoadEnvFile, SettingsInv
  <2> QED
    BY <1>1, <2>1 DEF LoadEnvFile, SettingsInv, IsSource
<1>2. ASSUME NEW file \in Files, LoadFile(file) PROVE SettingsInv'
  <2>1. IsSource(settings') /\ DOMAIN settings' = DOMAIN file \cup DOMAIN settings
    BY <1>2, OverKeepsSources, SourcesAssumption DEF LoadFile, SettingsInv
  <2> QED
    BY <1>2, <2>1 DEF LoadFile, SettingsInv, IsSource
<1>3. ASSUME NEW file \in Files, RefuseFile(file) PROVE SettingsInv'
  BY <1>3 DEF RefuseFile, SettingsInv, IsSource
<1>4. CASE OverrideFromEnv
  <2> DEFINE chosen == [key \in Overriding |-> environ[key]]
  <2>1. IsSource(chosen) /\ DOMAIN chosen = Overriding
    BY DEF SettingsInv, IsSource, Overriding
  <2>2. settings' = Over(chosen, settings)
    BY <1>4 DEF OverrideFromEnv
  <2> HIDE DEF chosen
  <2>3. /\ IsSource(settings') /\ DOMAIN settings' = Overriding \cup DOMAIN settings
        /\ \A key \in Overriding : settings'[key] = chosen[key]
    BY <2>1, <2>2, OverKeepsSources DEF SettingsInv
  <2>4. ASSUME NEW key \in FromEnv \cap DOMAIN given, given[key] # {}
        PROVE  settings'[key] = given[key]
    <3>1. key \in Overriding
      BY <2>4 DEF SettingsInv, Overriding
    <3> QED
      BY <2>3, <3>1 DEF SettingsInv, chosen
  <2> QED
    BY <1>4, <2>3, <2>4 DEF OverrideFromEnv, SettingsInv, IsSource
<1>5. CASE MakeConfig
  <2>1. config' = ToProductionConfig'
    BY <1>5 DEF MakeConfig, ToProductionConfig
  <2> QED
    BY <1>5, <2>1 DEF MakeConfig, SettingsInv, IsSource
<1>6. CASE UNCHANGED settingsVars
  BY <1>6 DEF settingsVars, SettingsInv, IsSource, ToProductionConfig
<1> QED
  BY <1>1, <1>2, <1>3, <1>4, <1>5, <1>6 DEF SettingsNext

LEMMA SettingsInvAlways == SettingsSpec => []SettingsInv
BY SettingsInvStarts, SettingsInvStep, PTL DEF SettingsSpec

\* Of a text that can be read as one number that can be used, that number is made.
LEMMA Chosen ==
  ASSUME SettingsInv, NEW key \in DOMAIN Defaults
  PROVE  /\ \A n \in settings[key] : Usable(key, n) => ToProductionConfig[key] = n
         /\ (~\E n \in settings[key] : Usable(key, n))
               => ToProductionConfig[key] = Defaults[key]
<1>1. settings[key] \in Readings
  BY DEF SettingsInv, IsSource
<1>2. ASSUME NEW n \in settings[key], Usable(key, n) PROVE ToProductionConfig[key] = n
  <2>1. \A m \in settings[key] : m = n
    BY <1>1 DEF Readings
  <2>2. (CHOOSE m \in settings[key] : TRUE) = n
    BY <2>1
  <2> QED
    BY <1>2, <2>2 DEF ToProductionConfig
<1> QED
  BY <1>2 DEF ToProductionConfig

LEMMA NumbersPositive ==
  ASSUME SettingsInv, NEW key \in Numbers
  PROVE  ToProductionConfig[key] \in Nat \ {0}
<1>1. key \in DOMAIN Defaults /\ Defaults[key] \in Nat \ {0}
  BY DEF Defaults, Numbers
<1>2. settings[key] \subseteq Int
  BY <1>1 DEF SettingsInv, IsSource, Readings
<1> QED
  BY <1>1, <1>2, Chosen DEF Usable

\* No configuration file and no environment can make a component that blocks for want
\* of room, whatever numbers they give, or fail to give: the assumptions on these
\* constants hold of all that is built (settings.go:110-200, production.go:75-234).
THEOREM RoomAlways == SettingsSpec => []LimitsLeaveRoom
<1>1. SettingsInv => LimitsLeaveRoom
  <2> SUFFICES ASSUME SettingsInv, loading = "made"
               PROVE  \A limit \in {NewEnvironment.Rate, NewEnvironment.Burst,
                                     NewEnvironment.MaxAgents, NewEnvironment.Threshold,
                                     NewEnvironment.MaxParallel} : limit \in Nat \ {0}
    BY DEF LimitsLeaveRoom
  <2>1. \A key \in Numbers : config[key] \in Nat \ {0}
    BY NumbersPositive DEF SettingsInv
  <2>2. /\ config.max_concurrent_agents \in Nat \ {0}
        /\ config.kubectl_rate_limit \in Nat \ {0}
        /\ config.circuit_breaker_threshold \in Nat \ {0}
    BY <2>1 DEF Numbers
  <2>3. /\ Positive((2 * config.kubectl_rate_limit) \div 10) \in Nat \ {0}
        /\ Positive(config.kubectl_rate_limit) \in Nat \ {0}
    BY <2>2 DEF Positive
  <2> QED
    BY <2>2, <2>3 DEF NewEnvironment
<1> QED
  BY <1>1, SettingsInvAlways, PTL

\* What the environment gives to use is used: neither .env files, which only add to it,
\* nor the configuration file can take its place (settings.go:18-39 and 110-136).
THEOREM EnvironmentAlwaysWins == SettingsSpec => []EnvironmentWins
<1>1. SettingsInv => EnvironmentWins
  <2> SUFFICES ASSUME SettingsInv, loading = "made", NEW key \in FromEnv \cap DOMAIN given,
                      NEW n \in given[key], Usable(key, n)
               PROVE  config[key] = n
    BY DEF EnvironmentWins
  <2>1. settings[key] = given[key]
    BY DEF SettingsInv
  <2>2. key \in DOMAIN Defaults
    BY DEF FromEnv, Defaults
  <2> QED
    BY <2>1, <2>2, Chosen DEF SettingsInv
<1> QED
  BY <1>1, SettingsInvAlways, PTL
=============================================================================
