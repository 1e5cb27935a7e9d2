--------------------------- MODULE CircuitBreaker ---------------------------
(***************************************************************************)
(* The per-agent circuit breaker of internal/runtime/production.go.        *)
(*                                                                         *)
(* A mutex guards both maps, so each method is one action.  failures[a] is *)
(* the entry of the map `failures` (a missing key reads as 0, as in Go)    *)
(* and openUntil[a] the entry of the map `openUntil`, or NoEntry.          *)
(*                                                                         *)
(* BreakerSpec lets any caller call any method at any time.  Executor says *)
(* which calls an execution makes and when, and implements it.             *)
(***************************************************************************)
EXTENDS Integers

CONSTANTS
  Agents,        \* agent names
  Threshold,     \* cfg.CircuitBreakerThreshold
  OpenTimeout,   \* cfg.CircuitBreakerTimeout, in clock ticks
  MaxTime        \* bound on the clock, for model checking

\* settings.go replaces the threshold only by a positive one and starts from
\* DefaultConfig (3), so a threshold of zero cannot be configured.
ASSUME BreakerAssumption ==
  /\ Threshold \in Nat \ {0}
  /\ OpenTimeout \in Nat
  /\ MaxTime \in Nat

VARIABLES
  now,           \* time.Now()
  failures,      \* CircuitBreaker.failures
  openUntil      \* CircuitBreaker.openUntil

breakerVars == <<now, failures, openUntil>>

NoEntry == -1

BreakerTypeOK ==
  /\ now \in Nat
  /\ failures \in [Agents -> Nat]
  /\ openUntil \in [Agents -> Nat \cup {NoEntry}]

BreakerInit ==
  /\ now = 0
  /\ failures = [a \in Agents |-> 0]
  /\ openUntil = [a \in Agents |-> NoEntry]

HasEntry(a) == openUntil[a] # NoEntry

\* time.Now().After(until): strictly later.
Expired(a) == HasEntry(a) /\ now > openUntil[a]

\* What IsOpen returns.
Blocks(a) == HasEntry(a) /\ ~Expired(a)

-----------------------------------------------------------------------------

\* Mutants of the methods below, used to show what the properties detect.
RecordSuccessKeepsDeadline(a) ==
  /\ failures' = [failures EXCEPT ![a] = 0]
  /\ UNCHANGED <<now, openUntil>>

-----------------------------------------------------------------------------

\* IsOpen closes an expired breaker as a side effect of being asked.
IsOpen(a) ==
  /\ IF Expired(a)
     THEN /\ openUntil' = [openUntil EXCEPT ![a] = NoEntry]
          /\ failures' = [failures EXCEPT ![a] = 0]
     ELSE UNCHANGED <<failures, openUntil>>
  /\ UNCHANGED now

RecordSuccess(a) ==
  /\ failures' = [failures EXCEPT ![a] = 0]
  /\ openUntil' = [openUntil EXCEPT ![a] = NoEntry]
  /\ UNCHANGED now

\* Also while the breaker is open: the deadline then moves out again.
RecordFailure(a) ==
  /\ failures' = [failures EXCEPT ![a] = @ + 1]
  /\ openUntil' = [openUntil EXCEPT ![a] =
                     IF failures[a] + 1 >= Threshold THEN now + OpenTimeout ELSE @]
  /\ UNCHANGED now

ClockTicks ==
  /\ now < MaxTime
  /\ now' = now + 1
  /\ UNCHANGED <<failures, openUntil>>

BreakerNext ==
  \/ \E a \in Agents : IsOpen(a) \/ RecordSuccess(a) \/ RecordFailure(a)
  \/ ClockTicks

BreakerSpec == BreakerInit /\ [][BreakerNext]_breakerVars

-----------------------------------------------------------------------------

\* An agent has a deadline exactly when its failures have reached the
\* threshold: the two maps of CircuitBreaker never disagree, whatever the
\* order of successes, failures and expiries (production.go:236-265).
DeadlineIffThreshold ==
  \A a \in Agents : HasEntry(a) <=> failures[a] >= Threshold

\* No deadline lies further away than one timeout, however many late failures
\* extend an open breaker (production.go:258-265).
DeadlineInReach ==
  \A a \in Agents : openUntil[a] <= now + OpenTimeout

\* While IsOpen answers true for an agent, only a recorded success makes it
\* answer false without the clock having passed the deadline; and a deadline
\* that is there never moves back (production.go:236-265).
OpensHoldUntilDeadline ==
  [][\A a \in Agents :
        HasEntry(a) =>
          \/ openUntil'[a] >= openUntil[a]
          \/ now > openUntil[a]
          \/ RecordSuccess(a)]_breakerVars
=============================================================================
