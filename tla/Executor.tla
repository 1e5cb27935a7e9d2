------------------------------ MODULE Executor ------------------------------
(***************************************************************************)
(* Executor.Execute of internal/agent/executor.go: one agent execution,    *)
(* from the circuit check to the four records of its outcome, composed     *)
(* with the circuit breaker and the concurrency controller it goes         *)
(* through.  The scheduler's rounds and those of /trigger both call it, so *)
(* executions of one agent may overlap.  Chats are ExecuteChat, which asks *)
(* no breaker, takes no slot and records nothing.                          *)
(*                                                                         *)
(* A member of Calls is one call of Execute.  What the model or a tool     *)
(* does inside an attempt is not modelled: the attempt returns a message,  *)
(* an error that is retried or one that is not.                            *)
(***************************************************************************)
EXTENDS CircuitBreaker, ConcurrencyController

CONSTANTS
  Registered,     \* the names Registry.SpecByName knows
  Cancellable,    \* calls whose context a Stop, or an HTTP client, may cancel
  MaxAttempts     \* MaxExecuteAttempts

ASSUME ExecutorAssumption ==
  /\ AgentOf \in [Calls -> Agents]
  /\ Registered \subseteq Agents
  /\ Cancellable \subseteq Calls
  /\ MaxAttempts \in Nat \ {0}

VARIABLES
  pc,             \* where each call is in Execute
  attempt,        \* the loop variable
  attemptErr,     \* err of the attempt that just ended
  execErr,        \* the variable execErr: is it non-nil?
  cancelled,      \* calls whose ctx is done
  preOpen,        \* history: calls that were under way when their agent's
                  \* breaker opened
  metrics,        \* MetricsCollector: successes and failures of each agent
  state,          \* StatePersistence: runs, failures, consecutive failures
  ops             \* OperationsManager: records of each agent by outcome

callVars == <<pc, attempt, attemptErr, execErr>>
recordVars == <<metrics, state, ops>>
vars == <<breakerVars, slotVars, callVars, cancelled, preOpen, recordVars>>

\* Outcomes of an attempt; "fatal" is what isNonRetryableError accepts.
Errors == {"retryable", "fatal"}

\* Places where Execute has returned.
Returned == {"refused", "dropped", "done"}

\* The four records are written one after the other.
Recording == {"recCircuit", "recMetrics", "recState", "recOps"}

Locations == {"idle", "attempt", "backoff"} \cup Recording \cup Returned

TypeOK ==
  /\ BreakerTypeOK
  /\ SlotTypeOK
  /\ pc \in [Calls -> Locations]
  /\ attempt \in [Calls -> 0..MaxAttempts - 1]
  /\ attemptErr \in [Calls -> {"none"} \cup Errors]
  /\ execErr \in [Calls -> BOOLEAN]
  /\ cancelled \in SUBSET Calls
  /\ preOpen \in SUBSET Calls
  /\ metrics \in [Agents -> [ok : Nat, failed : Nat]]
  /\ state \in [Agents -> [runs : Nat, failed : Nat, consecutive : Nat]]
  /\ ops \in [Agents -> [ok : Nat, failed : Nat]]

Init ==
  /\ BreakerInit
  /\ SlotInit
  /\ pc = [c \in Calls |-> "idle"]
  /\ attempt = [c \in Calls |-> 0]
  /\ attemptErr = [c \in Calls |-> "none"]
  /\ execErr = [c \in Calls |-> FALSE]
  /\ cancelled = {}
  /\ preOpen = {}
  /\ metrics = [a \in Agents |-> [ok |-> 0, failed |-> 0]]
  /\ state = [a \in Agents |-> [runs |-> 0, failed |-> 0, consecutive |-> 0]]
  /\ ops = [a \in Agents |-> [ok |-> 0, failed |-> 0]]

Goto(c, from, to) ==
  /\ pc[c] = from
  /\ pc' = [pc EXCEPT ![c] = to]

\* What UpdateAgent makes of an agent's entry in the run history.
Updated(entry, failed) ==
  IF failed
  THEN [runs |-> entry.runs + 1, failed |-> entry.failed + 1,
        consecutive |-> entry.consecutive + 1]
  ELSE [runs |-> entry.runs + 1, failed |-> entry.failed, consecutive |-> 0]

-----------------------------------------------------------------------------

\* Mutants of the steps below, used to show what the properties detect.
BeginAsStatusSays(c) ==
  LET a == AgentOf[c] IN
  /\ IsOpen(a)
  /\ Goto(c, "idle", IF HasEntry(a) /\ now < openUntil[a]
                     THEN "refused" ELSE "attempt")
  /\ UNCHANGED <<slotVars, attempt, attemptErr, execErr, cancelled, preOpen,
                 recordVars>>

EndAttemptUncounted(c, err) ==
  /\ attemptErr' = [attemptErr EXCEPT ![c] = err]
  /\ execErr' = [execErr EXCEPT ![c] = @ \/ err # "none"]
  /\ Goto(c, "attempt", IF err = "retryable" THEN "backoff" ELSE "recCircuit")
  /\ UNCHANGED attempt

BackoffCancelledForgives(c) ==
  /\ c \in cancelled
  /\ Goto(c, "backoff", "dropped")
  /\ RecordSuccess(AgentOf[c])
  /\ UNCHANGED <<slotVars, attempt, attemptErr, execErr, cancelled, preOpen,
                 recordVars>>

RecordStateUnlessCancelled(c) ==
  /\ Goto(c, "recState", "recOps")
  /\ state' = IF c \in cancelled THEN state
              ELSE [state EXCEPT ![AgentOf[c]] = Updated(@, execErr[c])]
  /\ UNCHANGED <<breakerVars, slotVars, attempt, attemptErr, execErr, cancelled,
                 preOpen, metrics, ops>>

-----------------------------------------------------------------------------

\* The early returns, then the circuit check: the only one of the call.
Begin(c) ==
  LET a == AgentOf[c] IN
  /\ IF a \in Registered
     THEN /\ IsOpen(a)
          /\ Goto(c, "idle", IF Blocks(a) THEN "refused" ELSE "attempt")
     ELSE /\ UNCHANGED breakerVars
          /\ Goto(c, "idle", "refused")
  /\ UNCHANGED <<slotVars, attempt, attemptErr, execErr, cancelled, preOpen,
                 recordVars>>

\* An attempt enters WithAgentSlot, under a deadline that also covers the wait.
AskSlot(c) ==
  /\ pc[c] = "attempt"
  /\ Enter(c)
  /\ UNCHANGED <<breakerVars, callVars, cancelled, preOpen, recordVars>>

\* What the loop does when WithAgentSlot returns err: leave it without an error
\* or with one that must not be retried, or go round again while attempts last.
\* Nothing clears execErr: it keeps the error of an earlier attempt.
EndAttempt(c, err) ==
  /\ attemptErr' = [attemptErr EXCEPT ![c] = err]
  /\ execErr' = [execErr EXCEPT ![c] = @ \/ err # "none"]
  /\ IF err = "retryable" /\ attempt[c] + 1 < MaxAttempts
     THEN /\ Goto(c, "attempt", "backoff")
          /\ attempt' = [attempt EXCEPT ![c] = @ + 1]
     ELSE /\ Goto(c, "attempt", "recCircuit")
          /\ UNCHANGED attempt

\* In the wait for a slot the attempt's deadline passes or its call is cancelled.
LoseSlot(c) ==
  /\ GiveUp(c)
  /\ EndAttempt(c, "fatal")
  /\ UNCHANGED <<breakerVars, cancelled, preOpen, recordVars>>

GetSlot(c) ==
  /\ Acquire(c)
  /\ UNCHANGED <<breakerVars, callVars, cancelled, preOpen, recordVars>>

StartAgent(c) ==
  /\ List(c)
  /\ UNCHANGED <<breakerVars, callVars, cancelled, preOpen, recordVars>>

\* The self-driven worker or, if it fails, the cached ReAct agent has answered.
Reply(c, err) ==
  /\ Unlist(c)
  /\ attemptErr' = [attemptErr EXCEPT ![c] = err]
  /\ UNCHANGED <<breakerVars, pc, attempt, execErr, cancelled, preOpen, recordVars>>

LeaveSlot(c) ==
  /\ Release(c)
  /\ EndAttempt(c, attemptErr[c])
  /\ UNCHANGED <<breakerVars, cancelled, preOpen, recordVars>>

BackoffEnds(c) ==
  /\ Goto(c, "backoff", "attempt")
  /\ UNCHANGED <<breakerVars, slotVars, attempt, attemptErr, execErr, cancelled,
                 preOpen, recordVars>>

\* sleepWithContext fails: Execute returns at once, and records nothing.
BackoffCancelled(c) ==
  /\ c \in cancelled
  /\ Goto(c, "backoff", "dropped")
  /\ UNCHANGED <<breakerVars, slotVars, attempt, attemptErr, execErr, cancelled,
                 preOpen, recordVars>>

Cancel(c) ==
  /\ c \in Cancellable \ cancelled
  /\ pc[c] \notin Returned
  /\ cancelled' = cancelled \cup {c}
  /\ UNCHANGED <<breakerVars, slotVars, callVars, preOpen, recordVars>>

-----------------------------------------------------------------------------

\* Calls of agent a between the circuit check and the record for the breaker.
UnderWay(a) ==
  {c \in Calls : AgentOf[c] = a /\ pc[c] \in {"attempt", "backoff", "recCircuit"}}

RecordCircuit(c) ==
  LET a == AgentOf[c] IN
  /\ Goto(c, "recCircuit", "recMetrics")
  /\ IF execErr[c] THEN RecordFailure(a) ELSE RecordSuccess(a)
  /\ preOpen' = IF ~HasEntry(a) /\ openUntil'[a] # NoEntry
                THEN preOpen \cup UnderWay(a)
                ELSE preOpen
  /\ UNCHANGED <<slotVars, attempt, attemptErr, execErr, cancelled, recordVars>>

\* One more outcome of call c in a tally by agent.
Count(tally, c) ==
  IF execErr[c] THEN [tally EXCEPT ![AgentOf[c]].failed = @ + 1]
                ELSE [tally EXCEPT ![AgentOf[c]].ok = @ + 1]

RecordMetrics(c) ==
  /\ Goto(c, "recMetrics", "recState")
  /\ metrics' = Count(metrics, c)
  /\ UNCHANGED <<breakerVars, slotVars, attempt, attemptErr, execErr, cancelled,
                 preOpen, state, ops>>

\* StatePersistence.UpdateAgent.  StatePersistence models its times, and the file;
\* OperationsSummary lets a Load set back what is updated here.
RecordState(c) ==
  /\ Goto(c, "recState", "recOps")
  /\ state' = [state EXCEPT ![AgentOf[c]] = Updated(@, execErr[c])]
  /\ UNCHANGED <<breakerVars, slotVars, attempt, attemptErr, execErr, cancelled,
                 preOpen, metrics, ops>>

RecordOps(c) ==
  /\ Goto(c, "recOps", "done")
  /\ ops' = Count(ops, c)
  /\ UNCHANGED <<breakerVars, slotVars, attempt, attemptErr, execErr, cancelled,
                 preOpen, metrics, state>>

Tick ==
  /\ ClockTicks
  /\ UNCHANGED <<slotVars, callVars, cancelled, preOpen, recordVars>>

\* What the goroutine of a call does once it has begun.
Proceed(c) ==
  \/ AskSlot(c) \/ GetSlot(c) \/ LoseSlot(c) \/ StartAgent(c)
  \/ \E err \in {"none"} \cup Errors : Reply(c, err)
  \/ LeaveSlot(c)
  \/ BackoffEnds(c) \/ BackoffCancelled(c)
  \/ RecordCircuit(c) \/ RecordMetrics(c) \/ RecordState(c) \/ RecordOps(c)

Next ==
  \/ \E c \in Calls : Begin(c) \/ Proceed(c) \/ Cancel(c)
  \/ Tick

\* Fairness: a goroutine that can run is run, and the context of an attempt has
\* a deadline, so both the wait for a slot and the attempt itself come to an end.
\* Nothing obliges a call to begin, a caller to cancel or the model to succeed.
Fairness == \A c \in Calls : WF_vars(Proceed(c))

SafeSpec == Init /\ [][Next]_vars

Spec == SafeSpec /\ Fairness

-----------------------------------------------------------------------------

\* While the breaker of an agent blocks, every call of that agent that is past
\* the check was already under way when the breaker opened: nothing gets in
\* afterwards, and what got in before is all that can extend or close it
\* (executor.go:53-55 checks once per call, production.go:236-265).
OpenShutsOut ==
  \A a \in Agents : Blocks(a) => UnderWay(a) \subseteq preOpen

\* A breaker that blocks is closed only by the success of a call that was under
\* way when it opened: a late answer, not a new probe (executor.go:137).
ClosedEarlyOnlyByLateAnswer ==
  [][\A a \in Agents :
        Blocks(a) /\ openUntil'[a] = NoEntry
          => \E c \in preOpen : /\ AgentOf[c] = a
                                /\ pc[c] = "recCircuit" /\ ~execErr[c]]_vars

\* The calls of agent a that each record has counted once they are past it, and
\* those that were counted as failures.
At(a, places) == {c \in Calls : AgentOf[c] = a /\ pc[c] \in places}

Measured(a) == At(a, {"recState", "recOps", "done"})
Stored(a) == At(a, {"recOps", "done"})
Logged(a) == At(a, {"done"})

Failures == {c \in Calls : execErr[c]}

MetricsAgree(a) ==
  /\ metrics[a].ok = Cardinality(Measured(a) \ Failures)
  /\ metrics[a].failed = Cardinality(Measured(a) \cap Failures)

StateAgrees(a) ==
  /\ state[a].runs = Cardinality(Stored(a))
  /\ state[a].failed = Cardinality(Stored(a) \cap Failures)

OpsAgree(a) ==
  /\ ops[a].ok = Cardinality(Logged(a) \ Failures)
  /\ ops[a].failed = Cardinality(Logged(a) \cap Failures)

\* Metrics, persisted state and operations history count the same executions:
\* they differ by exactly those that are between two of the records, and every
\* execution that returned from its attempts is in each of them once, those
\* dropped in a backoff in none (executor.go:122-148).
RecordsAgree ==
  \A a \in Agents : MetricsAgree(a) /\ StateAgrees(a) /\ OpsAgree(a)

\* A slot is held, or waited for, only inside an attempt: no retry, backoff,
\* cancellation or refusal keeps one, so executions that wait out a backoff leave
\* theirs to others (executor.go:70-115, production.go:115-134).
SlotsOnlyWhileAttempting ==
  \A c \in Calls : pc[c] # "attempt" => slot[c] = "outside"

\* Every call that gets past the circuit check returns: overlapping calls cannot
\* starve or block one another for ever, since a wait ends with its deadline.
CallsReturn == \A c \in Calls : pc[c] = "attempt" ~> pc[c] \in Returned

\* executor.go:43: "Execute runs the named Agent. Retries with exponential
\* backoff on failure": a call whose last attempt succeeded has succeeded.
RetriedSuccessSucceeds ==
  \A c \in Calls :
    pc[c] \in Recording \cup {"done"} /\ attemptErr[c] = "none" => ~execErr[c]
=============================================================================
