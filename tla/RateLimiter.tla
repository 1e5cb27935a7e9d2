----------------------------- MODULE RateLimiter -----------------------------
(***************************************************************************)
(* The token bucket of internal/runtime/production.go: Wait, called by the *)
(* kubectl tool of every agent, refills the bucket by the time since it    *)
(* was last refilled, takes the tokens or sleeps for as long as the        *)
(* missing ones should take to come, and tries again.                      *)
(*                                                                         *)
(* Tokens are counted in fractions, so that the rate is a whole number of  *)
(* them per clock tick; floating-point rounding is not modelled.  A sleep  *)
(* is rounded down to whole ticks, as the code rounds it down to whole     *)
(* nanoseconds: a caller may wake too early and find too little again.     *)
(*                                                                         *)
(* Times are kept as distances from the present, so that time may pass for *)
(* ever.                                                                   *)
(***************************************************************************)
EXTENDS Integers

CONSTANTS
  Callers,       \* calls of Wait
  Impatient,     \* calls whose context may end
  Cost,          \* what each call asks for
  Rate,          \* rate, per clock tick
  Burst,         \* burst
  MaxWindow      \* bound on the stretch of time observed, for model checking

\* NewRateLimiter raises a rate or burst that is not positive to 1; the kubectl
\* tool asks for one token, never more than a burst.
ASSUME LimiterAssumption ==
  /\ Rate \in Nat \ {0} /\ Burst \in Nat \ {0} /\ MaxWindow \in Nat
  /\ Impatient \subseteq Callers
  /\ Cost \in [Callers -> Nat \ {0}]

VARIABLES
  tokens,        \* RateLimiter.tokens
  elapsed,       \* now - RateLimiter.last, up to the time that fills any bucket
  pc,            \* where each call is in Wait
  timer,         \* time until the timer of a sleeping call fires
  window,        \* history: the length of some stretch of time up to now
  granted        \* history: what has been taken in that stretch

bucketVars == <<tokens, elapsed>>
windowVars == <<window, granted>>
vars == <<bucketVars, pc, timer, windowVars>>

TypeOK ==
  /\ tokens \in 0..Burst
  /\ elapsed \in 0..Burst
  /\ pc \in [Callers -> {"outside", "asking", "sleeping", "granted", "gaveUp"}]
  /\ timer \in [Callers -> Nat]
  /\ window \in Nat
  /\ granted \in Nat

Init ==
  /\ tokens = Burst /\ elapsed = 0
  /\ pc = [c \in Callers |-> "outside"]
  /\ timer = [c \in Callers |-> 0]
  /\ window = 0 /\ granted = 0

-----------------------------------------------------------------------------

AtMost(n, bound) == IF n <= bound THEN n ELSE bound

\* Mutants of the definitions below, used to show what the properties detect.
TryKeepingLast(c) ==
  LET filled == AtMost(tokens + Rate * elapsed, Burst) IN
  /\ pc[c] = "asking"
  /\ IF filled >= Cost[c]
     THEN /\ tokens' = filled - Cost[c]
          /\ granted' = granted + Cost[c]
          /\ pc' = [pc EXCEPT ![c] = "granted"]
          /\ UNCHANGED timer
     ELSE /\ tokens' = filled
          /\ timer' = [timer EXCEPT ![c] = (Cost[c] - filled) \div Rate]
          /\ pc' = [pc EXCEPT ![c] = "sleeping"]
          /\ UNCHANGED granted
  /\ UNCHANGED <<elapsed, window>>

TryDroppingElapsed(c) ==
  /\ pc[c] = "asking"
  /\ elapsed' = 0
  /\ IF tokens >= Cost[c]
     THEN /\ tokens' = tokens - Cost[c]
          /\ granted' = granted + Cost[c]
          /\ pc' = [pc EXCEPT ![c] = "granted"]
          /\ UNCHANGED timer
     ELSE /\ timer' = [timer EXCEPT ![c] = (Cost[c] - tokens) \div Rate]
          /\ pc' = [pc EXCEPT ![c] = "sleeping"]
          /\ UNCHANGED <<tokens, granted>>
  /\ UNCHANGED window

-----------------------------------------------------------------------------

\* The bucket after the time that has passed, at most full.
Refilled == AtMost(tokens + Rate * elapsed, Burst)

Enter(c) ==
  /\ pc[c] = "outside"
  /\ pc' = [pc EXCEPT ![c] = "asking"]
  /\ UNCHANGED <<bucketVars, timer, windowVars>>

\* One pass of the loop under the lock: refill, then take or sleep.
Try(c) ==
  /\ pc[c] = "asking"
  /\ elapsed' = 0
  /\ IF Refilled >= Cost[c]
     THEN /\ tokens' = Refilled - Cost[c]
          /\ granted' = granted + Cost[c]
          /\ pc' = [pc EXCEPT ![c] = "granted"]
          /\ UNCHANGED timer
     ELSE /\ tokens' = Refilled
          /\ timer' = [timer EXCEPT ![c] = (Cost[c] - Refilled) \div Rate]
          /\ pc' = [pc EXCEPT ![c] = "sleeping"]
          /\ UNCHANGED granted
  /\ UNCHANGED window

Wakes(c) ==
  /\ pc[c] = "sleeping" /\ timer[c] = 0
  /\ pc' = [pc EXCEPT ![c] = "asking"]
  /\ UNCHANGED <<bucketVars, timer, windowVars>>

\* The context ends in the sleep; it is looked at nowhere else.
GivesUp(c) ==
  /\ c \in Impatient
  /\ pc[c] = "sleeping"
  /\ pc' = [pc EXCEPT ![c] = "gaveUp"]
  /\ UNCHANGED <<bucketVars, timer, windowVars>>

\* A tick of the clock, with the observer going on or starting to count afresh:
\* any stretch of time may be the one looked at.
Tick(fresh) ==
  /\ elapsed' = AtMost(elapsed + 1, Burst)
  /\ timer' = [c \in Callers |-> IF timer[c] > 0 THEN timer[c] - 1 ELSE 0]
  /\ IF fresh THEN window' = 0 /\ granted' = 0
     ELSE window' = window + 1 /\ UNCHANGED granted
  /\ UNCHANGED <<tokens, pc>>

Next ==
  \/ \E c \in Callers : Enter(c) \/ Try(c) \/ Wakes(c) \/ GivesUp(c)
  \/ Tick(TRUE)
  \/ window < MaxWindow /\ Tick(FALSE)

\* Fairness: time passes, timers fire and goroutines that can run are run.
Fairness ==
  /\ WF_vars(\E fresh \in BOOLEAN : Tick(fresh))
  /\ \A c \in Callers : WF_vars(Try(c)) /\ WF_vars(Wakes(c))

SafeSpec == Init /\ [][Next]_vars

Spec == SafeSpec /\ Fairness

-----------------------------------------------------------------------------

\* In no stretch of time, whenever it starts, do callers take more than a full
\* bucket and what flows in meanwhile: bursts do not add up, whoever sleeps,
\* wakes early or gives up (production.go:177-212).
WindowBounded == granted <= Burst + Rate * window

\* A caller that does not give up and asks for no more than a burst gets its
\* tokens although those that sleep are not queued, and any of the finitely many
\* others may take what it has waited for (production.go:182-211).
CallersServed ==
  \A c \in Callers \ Impatient :
    pc[c] = "asking" /\ Cost[c] <= Burst ~> pc[c] = "granted"
=============================================================================
