---------------------------- MODULE AuthLimiter ----------------------------
(***************************************************************************)
(* AuthRateLimiter of internal/httpapi/auth.go: it blocks an address for a *)
(* time once too many of its requests have failed within a window.         *)
(***************************************************************************)
EXTENDS Clock, FiniteSets, Sequences

CONSTANTS
  Addresses,
  MaxFails, Window, Block

\* NewAuthRateLimiter replaces what is not positive.
ASSUME LimiterAssumption == {MaxFails, Window, Block} \subseteq Nat \ {0}

VARIABLES
  failures,       \* the times kept for each address, oldest first
  blocked,        \* when each address was blocked last, if ever
  log             \* history: the times of all its failures

limiterVars == <<failures, blocked, log>>

LimiterTypeOK ==
  /\ ClockTypeOK
  /\ failures \in [Addresses -> Seq(0..MaxTime)]
  /\ blocked \in [Addresses -> SUBSET (0..MaxTime)]
  /\ log \in [Addresses -> Seq(0..MaxTime)]

LimiterInit ==
  /\ failures = [a \in Addresses |-> <<>>]
  /\ blocked = [a \in Addresses |-> {}]
  /\ log = [a \in Addresses |-> <<>>]

IsBlocked(a) == \E t \in blocked[a] : now < t + Block

\* What is in the window; times are in order, so that what is not comes first.
Recent(times) ==
  LET expired == {i \in DOMAIN times : times[i] <= now - Window}
  IN SubSeq(times, Cardinality(expired) + 1, Len(times))

\* Mutant of RecordFailure.
RecordFailureForgetsInBlock(a) ==
  LET times == Append(Recent(failures[a]), now)
      full == Len(times) > MaxFails
  IN /\ failures' = [failures EXCEPT ![a] = IF full THEN <<>> ELSE times]
     /\ blocked' = [blocked EXCEPT ![a] = IF full THEN {now} ELSE @]
     /\ log' = [log EXCEPT ![a] = Append(@, now)]
     /\ UNCHANGED now

\* What is out of the window is forgotten first; a first failure never blocks.
RecordFailure(a) ==
  LET times == Append(Recent(failures[a]), now)
  IN /\ failures' = [failures EXCEPT ![a] = times]
     /\ blocked' = [blocked EXCEPT
           ![a] = IF failures[a] # <<>> /\ Len(times) > MaxFails THEN {now} ELSE @]
     /\ log' = [log EXCEPT ![a] = Append(@, now)]
     /\ UNCHANGED now

LimiterNext ==
  \/ \E a \in Addresses : RecordFailure(a)
  \/ Tick /\ UNCHANGED limiterVars

LimiterSpec == ClockInit /\ LimiterInit /\ [][LimiterNext]_<<now, limiterVars>>

-----------------------------------------------------------------------------

\* An address is blocked exactly if more than MaxFails of its failures lay within
\* one window and the last of them is less than a block's time ago
\* (auth.go:136-172): the limiter keeps one time per block and only recent
\* failures, and that is enough.
BlockedIffTooManyFailures ==
  \A a \in Addresses :
    IsBlocked(a) <=>
      \E i \in DOMAIN log[a] :
        /\ i > MaxFails /\ log[a][i - MaxFails] > log[a][i] - Window
        /\ now < log[a][i] + Block
=============================================================================
