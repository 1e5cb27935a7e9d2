---------------------------- MODULE MCRateLimiter ----------------------------
\* The start of a process with any settings and, where it is given none, four callers
\* of its bucket: the two share no state, so that their states need not be multiplied.
\*
\* A bucket of two tokens that gains half a token a tick; one caller asks for a
\* token and a half, so that the others can take what it waits for.  Environment,
\* .env files and configuration file each give any of some settings a text that
\* cannot be read, or is a negative number, zero or a positive one.
EXTENDS RateLimiter, Settings

CONSTANTS c1, c2, c3, c4

FourCallers == {c1, c2, c3, c4}
OnlyC4 == {c4}
Costs == [c \in FourCallers |-> IF c = c1 THEN 3 ELSE 2]

Texts(key) == {{}, {-1}, {0}} \cup (IF key \in Numbers THEN {{1}, {7}} ELSE {{60}})

\* Sources that give some of the settings keys.
Sources(keys) ==
  UNION {{s \in [given_ -> UNION {Texts(key) : key \in keys}] :
            \A key \in given_ : s[key] \in Texts(key)} : given_ \in SUBSET keys}

SomeEnvironments == Sources(FromEnv)
SomeFiles == Sources({"max_concurrent_agents", "kubectl_rate_limit", "agent_timeout"})

-----------------------------------------------------------------------------

processVars == <<vars, settingsVars>>

\* A process that was given no settings has started and does A.
Working(A) ==
  /\ loading = "made" /\ DOMAIN environ = {}
  /\ \A key \in DOMAIN settings : settings[key] = {Defaults[key]}
  /\ A
  /\ UNCHANGED settingsVars

ProcessInit == SettingsInit /\ Init

ProcessNext ==
  \/ SettingsNext /\ UNCHANGED vars
  \/ Working(Next)

\* Fairness of the limiter.
ProcessFairness ==
  /\ WF_processVars(Working(\E fresh \in BOOLEAN : Tick(fresh)))
  /\ \A c \in Callers :
       WF_processVars(Working(Try(c))) /\ WF_processVars(Working(Wakes(c)))

ProcessSpec == ProcessInit /\ [][ProcessNext]_processVars /\ ProcessFairness
=============================================================================
