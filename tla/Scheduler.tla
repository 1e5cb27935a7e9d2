----------------------------- MODULE Scheduler -----------------------------
(***************************************************************************)
(* The scheduler of internal/scheduler/scheduler.go in simple mode: Start  *)
(* and Stop, the loop goroutine with its ticker, the rounds it runs, the   *)
(* rounds /trigger runs beside it, and the run history they read, update   *)
(* and save.                                                               *)
(*                                                                         *)
(* Start makes a new loop; Stop cancels its context and does not wait, so  *)
(* a stopped loop may be in the middle of a round when the next one        *)
(* starts.  A loop runs its rounds itself, one after the other.  A loop's  *)
(* context is made from the caller's: when that is cancelled the loop ends *)
(* too, but the scheduler is not told.                                     *)
(*                                                                         *)
(* Time since an agent's last run is kept up to its interval, which is all *)
(* the due test looks at, so the clock needs no bound.  Executor says what *)
(* happens inside an execution; here it is recorded or, if the circuit is  *)
(* open or a backoff is cancelled, it is not.                              *)
(***************************************************************************)
EXTENDS Integers, FiniteSets

CONSTANTS
  Agents,
  Interval,     \* interval_seconds of each agent, after the override; 0: never
  Loops,        \* loop goroutines that may exist together
  Triggers,     \* rounds of /trigger that may run together
  NoLoop,       \* the nil CancelFunc
  Saves         \* may a save succeed only ({TRUE}), or also fail?

ASSUME SchedulerAssumption ==
  /\ Interval \in [Agents -> Nat]
  /\ Loops \cap Triggers = {}
  /\ NoLoop \notin Loops
  /\ Saves \in {{TRUE}, {TRUE, FALSE}}

VARIABLES
  running,      \* Scheduler.running
  current,      \* the loop whose context Scheduler.cancel cancels
  loop,         \* state of each loop: "none", "select" or "round"
  done,         \* loops whose context is done, by Stop or by the caller of Start
  tick,         \* loops with a tick waiting in their ticker's channel
  phase,        \* phase of each round: "none", "scan", "exec", "save", "resave"
  unread,       \* agents whose last run a round in "scan" has yet to read
  due,          \* agents whose execution a round has yet to start
  active,       \* agents a round is executing
  age,          \* seconds since the last run in memory, up to the interval
  savedAge,     \* the same for the last run on file
  dirty         \* StatePersistence.dirty

loopVars == <<running, current, loop, done, tick>>
roundVars == <<phase, unread, due, active>>
stateVars == <<age, savedAge, dirty>>
vars == <<loopVars, roundVars, stateVars>>

Rounds == Loops \cup Triggers

\* Never run, or no entry: as good as any age past the interval.
Never == [a \in Agents |-> Interval[a]]

Ages == {f \in [Agents -> Nat] : \A a \in Agents : f[a] <= Interval[a]}

TypeOK ==
  /\ running \in BOOLEAN
  /\ current \in Loops \cup {NoLoop}
  /\ loop \in [Loops -> {"none", "select", "round"}]
  /\ done \in SUBSET Loops
  /\ tick \in SUBSET Loops
  /\ phase \in [Rounds -> {"none", "scan", "exec", "save", "resave"}]
  /\ unread \in [Rounds -> SUBSET Agents]
  /\ due \in [Rounds -> SUBSET Agents]
  /\ active \in [Rounds -> SUBSET Agents]
  /\ age \in Ages
  /\ savedAge \in Ages
  /\ dirty \in BOOLEAN

Init ==
  /\ running = FALSE
  /\ current = NoLoop
  /\ loop = [l \in Loops |-> "none"]
  /\ done = {}
  /\ tick = {}
  /\ phase = [r \in Rounds |-> "none"]
  /\ unread = [r \in Rounds |-> {}]
  /\ due = [r \in Rounds |-> {}]
  /\ active = [r \in Rounds |-> {}]
  /\ age = Never
  /\ savedAge = Never
  /\ dirty = FALSE

-----------------------------------------------------------------------------

\* Mutants of the steps below, used to show what the properties detect.
StartAgain(l) ==
  /\ loop[l] = "none"
  /\ running' = TRUE
  /\ current' = l
  /\ loop' = [loop EXCEPT ![l] = "select"]
  /\ done' = done \ {l}
  /\ tick' = tick \ {l}
  /\ age' = savedAge
  /\ UNCHANGED <<roundVars, savedAge, dirty>>

\* `return` where nothing is due leaves the loop, were it in the loop itself.
ScanEndsLeavesLoop(l) ==
  /\ phase[l] = "scan"
  /\ unread[l] = {}
  /\ IF due[l] = {}
     THEN /\ phase' = [phase EXCEPT ![l] = "none"]
          /\ loop' = [loop EXCEPT ![l] = "none"]
     ELSE /\ phase' = [phase EXCEPT ![l] = "exec"]
          /\ UNCHANGED loop
  /\ UNCHANGED <<running, current, done, tick, unread, due, active, stateVars>>

LoopExitsWithoutTick(l) ==
  /\ loop[l] = "select"
  /\ l \in done \ tick
  /\ loop' = [loop EXCEPT ![l] = "none"]
  /\ UNCHANGED <<running, current, done, tick, roundVars, stateVars>>

SaveRoundLeftToLoop(r, ok) ==
  /\ phase[r] = "save"
  /\ phase' = [phase EXCEPT ![r] = IF r \in Loops THEN "resave" ELSE "none"]
  /\ UNCHANGED <<loopVars, unread, due, active, stateVars>>

-----------------------------------------------------------------------------

\* Start does nothing when running; otherwise it reloads the state, whatever
\* rounds of an earlier loop or of /trigger still have to save, and starts a
\* loop.  Load replaces memory and leaves dirty alone.
Start(l) ==
  /\ ~running
  /\ loop[l] = "none"
  /\ running' = TRUE
  /\ current' = l
  /\ loop' = [loop EXCEPT ![l] = "select"]
  /\ done' = done \ {l}
  /\ tick' = tick \ {l}
  /\ age' = savedAge
  /\ UNCHANGED <<roundVars, savedAge, dirty>>

Stop ==
  /\ running
  /\ running' = FALSE
  /\ done' = done \cup {current}
  /\ UNCHANGED <<current, loop, tick, roundVars, stateVars>>

\* The caller cancels the context it gave to Start, also at once.  The loop's own
\* is then done; running and cancel stay as they are, until somebody calls Stop.
ContextEnds(l) ==
  /\ loop[l] # "none"
  /\ l \notin done
  /\ done' = done \cup {l}
  /\ UNCHANGED <<running, current, loop, tick, roundVars, stateVars>>

\* A tick is dropped when one is already waiting.
TickerFires(l) ==
  /\ loop[l] # "none"
  /\ l \notin tick
  /\ tick' = tick \cup {l}
  /\ UNCHANGED <<running, current, loop, done, roundVars, stateVars>>

\* case <-ctx.Done()
LoopExits(l) ==
  /\ loop[l] = "select"
  /\ l \in done
  /\ loop' = [loop EXCEPT ![l] = "none"]
  /\ tick' = tick \ {l}
  /\ UNCHANGED <<running, current, done, roundVars, stateVars>>

\* case <-ticker.C: select may take it though the context is done too.  The
\* round starts to look for agents that are due.
RoundBegins(l) ==
  /\ loop[l] = "select"
  /\ l \in tick
  /\ loop' = [loop EXCEPT ![l] = "round"]
  /\ tick' = tick \ {l}
  /\ phase' = [phase EXCEPT ![l] = "scan"]
  /\ unread' = [unread EXCEPT ![l] = {a \in Agents : Interval[a] > 0}]
  /\ UNCHANGED <<running, current, done, due, active, stateVars>>

\* The last run of one agent, read under the lock of the state alone.
ScanAgent(l, a) ==
  /\ phase[l] = "scan"
  /\ a \in unread[l]
  /\ unread' = [unread EXCEPT ![l] = @ \ {a}]
  /\ due' = IF age[a] >= Interval[a] THEN [due EXCEPT ![l] = @ \cup {a}] ELSE due
  /\ UNCHANGED <<loopVars, phase, active, stateVars>>

\* With nothing due the round is over and nothing is saved.
ScanEnds(l) ==
  /\ phase[l] = "scan"
  /\ unread[l] = {}
  /\ IF due[l] = {}
     THEN /\ phase' = [phase EXCEPT ![l] = "none"]
          /\ loop' = [loop EXCEPT ![l] = "select"]
     ELSE /\ phase' = [phase EXCEPT ![l] = "exec"]
          /\ UNCHANGED loop
  /\ UNCHANGED <<running, current, done, tick, unread, due, active, stateVars>>

\* RunOneRound: a goroutine of its own, with a context nobody cancels, whether
\* or not the scheduler runs.
Trigger(t, requested) ==
  /\ phase[t] = "none"
  /\ phase' = [phase EXCEPT ![t] = "exec"]
  /\ due' = [due EXCEPT ![t] = requested]
  /\ UNCHANGED <<loopVars, unread, active, stateVars>>

-----------------------------------------------------------------------------

\* runOneRoundSync: one goroutine per agent.
ExecBegins(r, a) ==
  /\ phase[r] = "exec"
  /\ a \in due[r]
  /\ due' = [due EXCEPT ![r] = @ \ {a}]
  /\ active' = [active EXCEPT ![r] = @ \cup {a}]
  /\ UNCHANGED <<loopVars, phase, unread, stateVars>>

\* The execution ends and UpdateAgent stores the time of its end; that was taken
\* before the records, so another execution of the agent may store a later one
\* first.
ExecRecorded(r, a, late) ==
  /\ a \in active[r]
  /\ active' = [active EXCEPT ![r] = @ \ {a}]
  /\ late <= Interval[a]
  /\ age' = [age EXCEPT ![a] = late]
  /\ dirty' = TRUE
  /\ UNCHANGED <<loopVars, phase, unread, due, savedAge>>

\* The circuit is open, or the call is cancelled in a backoff: no record.
ExecUnrecorded(r, a) ==
  /\ a \in active[r]
  /\ active' = [active EXCEPT ![r] = @ \ {a}]
  /\ UNCHANGED <<loopVars, phase, unread, due, stateVars>>

\* wg.Wait returns.
ExecEnds(r) ==
  /\ phase[r] = "exec"
  /\ due[r] = {} /\ active[r] = {}
  /\ phase' = [phase EXCEPT ![r] = "save"]
  /\ UNCHANGED <<loopVars, unread, due, active, stateVars>>

SaveIfDirty(ok) ==
  IF dirty /\ ok
  THEN savedAge' = age /\ dirty' = FALSE
  ELSE UNCHANGED <<savedAge, dirty>>

\* The save of runOneRoundSync, after which a triggered round is over.
SaveRound(r, ok) ==
  /\ phase[r] = "save"
  /\ SaveIfDirty(ok)
  /\ phase' = [phase EXCEPT ![r] = IF r \in Loops THEN "resave" ELSE "none"]
  /\ UNCHANGED <<loopVars, unread, due, active, age>>

\* The save of runSimpleRound, which returns to the loop.
ResaveRound(l, ok) ==
  /\ phase[l] = "resave"
  /\ SaveIfDirty(ok)
  /\ phase' = [phase EXCEPT ![l] = "none"]
  /\ loop' = [loop EXCEPT ![l] = "select"]
  /\ UNCHANGED <<running, current, done, tick, unread, due, active, age>>

\* A second passes.  A scan measures every age from the `now` it took first, so
\* no time passes within one.
Older(f) == [a \in Agents |-> IF f[a] < Interval[a] THEN f[a] + 1 ELSE f[a]]

SecondPasses ==
  /\ \A l \in Loops : phase[l] # "scan"
  /\ age' = Older(age)
  /\ savedAge' = Older(savedAge)
  /\ UNCHANGED <<loopVars, roundVars, dirty>>

-----------------------------------------------------------------------------

Select(l) == LoopExits(l) \/ RoundBegins(l)

ExecStep(r, a) ==
  \/ ExecBegins(r, a)
  \/ \E late \in 0..1 : ExecRecorded(r, a, late)
  \/ ExecUnrecorded(r, a)

RoundStep(r) ==
  \/ \E a \in Agents : ExecStep(r, a)
  \/ ExecEnds(r)
  \/ \E ok \in Saves : SaveRound(r, ok)

LoopRoundStep(l) ==
  \/ \E a \in Agents : ScanAgent(l, a)
  \/ ScanEnds(l)
  \/ \E ok \in Saves : ResaveRound(l, ok)

Next ==
  \/ \E l \in Loops :
       Start(l) \/ ContextEnds(l) \/ TickerFires(l) \/ Select(l) \/ LoopRoundStep(l)
  \/ Stop
  \/ \E t \in Triggers, requested \in (SUBSET Agents) \ {{}} : Trigger(t, requested)
  \/ \E r \in Rounds : RoundStep(r)
  \/ SecondPasses

\* Fairness: tickers fire, time passes, goroutines that can run are run and
\* executions end (Executor!CallsReturn).  select chooses at random among the
\* cases that are ready, so a loop whose context is done does not for ever take
\* the tick instead: strong fairness on its exit.  Seconds pass however often
\* loops scan.
Fairness ==
  /\ \A l \in Loops :
       /\ WF_vars(TickerFires(l)) /\ WF_vars(Select(l)) /\ SF_vars(LoopExits(l))
       /\ WF_vars(LoopRoundStep(l))
  /\ \A r \in Rounds :
       /\ \A a \in Agents : WF_vars(ExecStep(r, a))
       /\ WF_vars(RoundStep(r))
  /\ SF_vars(SecondPasses)

Spec == Init /\ [][Next]_vars /\ Fairness

-----------------------------------------------------------------------------

\* A loop that neither Stop nor the caller of Start has told to end.
Live(l) == loop[l] # "none" /\ l \notin done

\* No order of Start, Stop, cancelled contexts and exits leaves two loops scheduling
\* for ever, and what `running` says of a loop is true as long as the caller of
\* Start keeps its context.  Once that is cancelled it says nothing: the loop ends,
\* GetStatus goes on to report running, and Start does nothing until somebody calls
\* Stop (scheduler.go:126-169).
OneLiveLoop ==
  \A l \in Loops :
    Live(l) <=> running /\ l = current /\ l \notin done

\* A run that is recorded but not saved belongs to a round in progress: once
\* every round is over, a crash or a new Start loses nothing, although rounds of
\* stopped loops, of the live one and of /trigger update and save in any order
\* and each asks only whether anything is dirty (scheduler.go:201-204, 225-228).
InProgress == {r \in Rounds : phase[r] \in {"exec", "save"}}

UnsavedOnlyInRounds ==
  Saves = {TRUE} => (dirty => InProgress # {})

\* The run history is set back, so that an agent may run before its interval is
\* over, only by a Start that comes while a round is in progress.
SetBackOnlyInRounds ==
  [][(\E a \in Agents : age'[a] > Older(age)[a]) => InProgress # {}]_vars

\* A loop that Stop or its caller has cancelled exits, also when a tick is waiting
\* whenever it selects (scheduler.go:156-169).
StoppedLoopsExit == \A l \in Loops : l \in done ~> loop[l] = "none"

\* While the scheduler stays running and the caller of Start keeps its context,
\* every agent that has an interval is executed again and again: no round of a
\* stopped loop, no refused execution and no reload makes the loop pass over an
\* agent for ever (scheduler.go:152-205).
AgentsKeepRunning ==
  \A a \in Agents :
    Interval[a] > 0 /\ <>[](running /\ current \notin done)
      => []<>(\E r \in Rounds : a \in active[r])
=============================================================================
