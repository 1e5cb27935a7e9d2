# Verification of kube-ops-agent

This directory holds TLA+ specifications of kube-ops-agent, TLC configurations
that check them on small instances, and theorems about them that TLAPS proves for
all values of their constants. Everything is written from the Go code in
`src/internal`; paths below are relative to that directory, unless they start
with `docs/`. `PROJECT.json` links every definition to the lines it models.

## The system

A single Go process watches a Kubernetes cluster by running *agents*: prompts
with tools (above all `kubectl`) that a language model works on. A scheduler runs
them at intervals or along a plan, an executor wraps each run in protection and
bookkeeping, and an HTTP API shows the results, triggers rounds and chats.

### Components, their state and operations

| Component | State | Operations | What makes it correct |
|---|---|---|---|
| Circuit breaker (`runtime/production.go` 214-285) | failures and an open-until time per agent, one mutex | `IsOpen`, `RecordSuccess`, `RecordFailure` | both maps agree; an open breaker stays open until its deadline or a success; deadlines are at most a timeout away |
| Concurrency controller (`runtime/production.go` 91-151) | a channel of tokens, the set of active names | `WithAgentSlot` | tokens = holders <= capacity on every path |
| Rate limiter (`runtime/production.go` 153-212) | tokens, time of the last refill | `Wait` | no stretch of time grants more than a burst and the flow; waiting ends |
| Run history (`runtime/state.go`) | entries per agent, dirty flag; state file and `.tmp` file | `Load`, `UpdateAgent`, `Save`, `IsDirty` | the file is never torn; clean means saved; saves never set history back |
| Executor (`agent/executor.go`) | none of its own; per call: attempt, error | `Execute`, `ExecuteChat`, `ExecuteChatStream` | an open circuit lets nobody in; slots only in attempts; the four records agree; every call returns |
| Scheduler (`scheduler/scheduler.go`) | running, cancel, a loop goroutine | `Start`, `Stop`, `RunOneRound`, simple and intelligent rounds | one live loop; due agents keep being run while there is one; runs get saved |
| Plans (`plan/plan.go`, orchestrators, summaries) | plan, step, results of a round | parse, fall back, run steps, summarise | dependencies and skips are honoured; steps do not overlap; rounds end |
| MCP (`mcp/client.go`, `mcp/registry.go`) | clients and tool routes, server processes, four kinds of mutex | `InitializeMCP`, tool calls, listing, `ShutdownMCP` | a call gets its own answer; calls end, and the shutdown unless it meets a listing between its two locks, and neither cuts the other short; no process is left |
| Execution history (`operations/manager.go`) | the last 1000 records | `Record`, `GetHistory`, `GetSummaryWithEnrichment` | records are those of executions; the cap forgets the oldest; pages miss nothing; a summary counts what the history shows |
| Agent cache (`agent/cache.go`) | cached agents, their creation and last use | `GetOrCreate`, `Remove`, `Clear`, `CleanupIdle` | never more than its size; what was used recently is kept; nothing handed out has expired |
| Reports (`report/report.go`, `scheduler.writeReport`) | a directory | `Save`, `List`, `Get`, `Latest`, prune | the newest are kept, older ones removed unless that fails; the latest can be read unless overtaken |
| Authentication (`httpapi/auth.go`) | token, failures per address | `authCheck`, `RecordFailure`, `IsBlocked` | an address is blocked after so many failures in a window, and only for so long |
| HTTP API (`httpapi/server.go`) | none | health, trigger, chat, reports, operations | reads of several components are taken one after the other |
| Thinking agent (`agent/thinking.go`) | per call | analyse, plan, name commands, run them, report | a round that thinks comes to its end, unless it waits for ever for one answer or one command; its plan is the one it was given |
| Agent registry and definitions (`agent/registry.go`, `agent/dsl.go`) | specs read at startup; definitions read again when an agent is built | `NewFileRegistry`, `LoadAgentDSL`, `buildWorkerAgent` | an agent is built under the name and with the sub-skills of its spec, but for sub-skills that were only found by scanning |
| Configuration (`config/settings.go`) | read at startup | `LoadSettings`, `ToProductionConfig` | no setting makes a component that blocks for ever; the environment overrides files |
| Adaptive plans (`plan/adaptive.go`), reasoning (`reasoning/`), graceful shutdown (`runtime/graceful.go`), agent pool (`agent/pool.go`) | per call; a list of hooks; a map | not called by the program | - |
| Wiring, logging, tools | read at startup | - | - |

### Interactions

- The scheduler's loop goroutine runs rounds; each `POST /trigger` runs a round in
  a goroutine of its own beside it. Both share one executor, breaker, controller,
  limiter and run history. Chats are answered by `ExecuteChat`, which asks no breaker,
  takes no slot and records nothing.
- A round starts a goroutine per agent. Each asks the breaker once, then up to
  three times takes a slot, runs the agent, gives the slot back and sleeps. The
  outcome is recorded in breaker, metrics, state and history, in that order, under
  four different locks.
- The round saves the run history if it finds it dirty. `Start` reloads it,
  while breaker, metrics and history keep what they have.
- An attempt thinks first (`executeSelfDrivenWorker`); if that fails it takes an agent
  from the cache, which builds it from the agent's directory if it has none.
- `/api/operations` puts a summary together from history, metrics, run history and
  breaker, which the executor writes in another order.
- An agent's `kubectl` calls wait for the token bucket. MCP tools go through
  the registry's lock, the runtime's and the client's to a process or a URL.

### What is hard

Overlapping executions of one agent (loops, triggers); a breaker asked before
and told after long waits; `Stop`, which cancels and does not wait; a caller of `Start`
who cancels without `Stop`; reload and save against rounds still at work; crashes
between the steps of a save; plans that are written by a model; sleepers that are not
queued; MCP servers that stay silent under locks. `PROJECT.json` lists these hazards with the properties aimed at each.

## Modules

| Module | Models | State in the code -> variables |
|---|---|---|
| `CircuitBreaker` | the breaker; `BreakerSpec` lets anyone call anything | `failures`, `openUntil` (a missing key is `NoEntry`), clock `now` |
| `ConcurrencyController` | `WithAgentSlot`, one action per critical section; `SlotSpec` | `len(agentCh)`, `activeAgents`, and where each call is |
| `Executor` | `Execute`, composing the two by EXTENDS; one action per step of a call | `pc`, `attempt`, `execErr`; `metrics`, `state`, `ops` count outcomes |
| `StatePersistence` | run history, file operations and their failures, crash, restart | `mem`, `dirty`, `file`, `tmp`, `saving`, life of the process |
| `DurableStore` | abstract: a value in memory and one on disk, saved in one step | - |
| `Scheduler` | simple mode: `Start`, `Stop`, loops, tickers, rounds, triggered rounds, saves | `running`, `current` (the cancel function), `done` (loops whose context is), per loop and round its phase; `age` is time since the last run |
| `Thinking` | `ThinkAndExecute`: one question to the model, or one command, an action | `thinking` (where it is), `outlines`, `commands`, `results` |
| `PlanExecution` | intelligent rounds, from the plan's source to the save; its orchestrator and its summary think (`Thinking` by EXTENDS) | `plan`, `step`, tasks `waiting` and `active`, `since` (results) |
| `SkillRegistry` | functions from a tree of skill files to the registry, and to the agent that is built, which `PlanExecution` uses for the registry of a round | no variables |
| `Settings` | the start of the process: `.env` files, configuration file, environment, and the constants of the components made of them | `environ` (what `os.Getenv` finds), `settings`, `config`; `loading` is where `LoadSettings` is, `given` is history |
| `RateLimiter` | `Wait`, pass by pass | `tokens`, `elapsed` since `last`, timers |
| `RWMutex` | Go's reader/writer lock, with writers that shut new readers out (external) | readers, announced writers, the writer |
| `McpClient` | stdio and HTTP clients: request, answer, pipe, process, context | `holder` (`c.mu`), `connected` (`c.cmd`), `process`, pipes as sequences of request ids |
| `McpRuntime` | `Initialize`, tool calls, listing, shutdown, over the two above | `clients`, `route` (`Runtime.server`), `runtime` (`Registry.runtime`) |
| `Clock` | `time.Now` for the modules below (external) | `now` |
| `AuthLimiter` | the limiter of failed requests; `LimiterSpec` lets anyone fail | `failures`, `blocked`; `log` is history |
| `Reports` | report files, step by step: a directory that nobody locks; `ReportsSpec` starts anything | `files`; per goroutine its `job`, how far it is (`at`), the names it has listed (`left`, `items`); `unpruned` is history |
| `OperationsHistory` | execution records and the pages cut from them | `records`, a set whose members know their place in the slice (`serial`); `recorded` counts all there have been |
| `OperationsSummary` | one summary, source by source, beside the executions of `Executor`, saves of the run history and Loads of it | `part`, `read`; `runs` and `saved`, the run history in memory and on file; `mixed`, `setBack` and `disturbed` are history |
| `AgentCache` | the cache; `LookupSpec` only looks agents up, as the program does, `CacheSpec` calls every method | `cache`; `lastUse` is history |
| `HttpApi` | requests through the middleware to the handlers, over `AuthLimiter`, `Reports`, `OperationsHistory` and `AgentCache` | `pc` per request, `due` agents of triggered rounds, `offset` and `got` of a reader |
| `MC*` | instances for TLC | - |
| `*_proofs` | theorems and their lemmas | - |

A critical section is one action; what runs between two critical sections of
a goroutine interleaves with everything else. What the language model, the
Kubernetes API, an MCP server or the file system may answer is a free choice.
The definitions whose name extends that of an action (`BeginAsStatusSays` for
`Begin`) are deliberate bugs: putting one in the place of the action makes TLC
report the property that is meant to detect it. They are used by no specification.

The model of time: `CircuitBreaker` and `StatePersistence` have a clock bounded by
`MaxTime`, and so has `Clock`; `Scheduler` keeps the age of each agent's last run up to
its interval, and `RateLimiter` distances from the present, so both need no bound and
time passes for ever. Interval and rate are in whole ticks; fractions of seconds are not
told apart.

## Runs

All runs finish within three minutes on two cores.

| Run | Instance and bounds | Shows |
|---|---|---|
| `executor` | 3 calls of 1 agent, which may be cancelled, and 1 of an unknown agent, 2 slots, 2 attempts, threshold 2, timeout 1, clock to 2; 1,780,000 states up to symmetry of calls | `OpenShutsOut`, `ClosedEarlyOnlyByLateAnswer`, `RecordsAgree`, and the invariants of breaker and slots in the composition |
| `summary` | 2 calls of 1 agent, of which 1 may be cancelled, 1 slot, 2 attempts, threshold 1; no state file at first, saves and Loads at will; one reader; 248,000 states | `SummaryCountsHistory`, `SummaryExplainsOpen`, `CallsReturn` |
| `state` | 1 agent, 3 runs, 3 seconds; crashes and failures at will; 240,000 states | `FileNeverTorn`, `CleanMeansSaved`, `HistorySane`, `SavedRunsNeverDecrease`, and refinement of `DurableStore` |
| `scheduler` | 1 agent due every 2 seconds, 2 loops, whose contexts may end at any time, 1 triggered round; 86,000 states | `OneLiveLoop`, `UnsavedOnlyInRounds`, `SetBackOnlyInRounds`, `StoppedLoopsExit`, `AgentsKeepRunning` |
| `plan` | 2 agents; every plan of two steps over five agent lists, both modes, with and without a dependency and a skip; a chain of three; legacy plans; 2 parallel tasks; lists of no command and of one of each kind; 112,000 states. Trees of two directories, each with one of 10 agent.yaml and of 10 SKILL.md, with and without files to scan | `DependenciesHonoured`, `SkippedNeverRun`, `StepsKeepApart`, `PlanCarriedOut`, `LeftBySummaryOrFailure`, `RoundsEnd`; `OnlyScannedSkillsLost` |
| `rate_limiter` | environment, two `.env` files and configuration file, each of which gives nothing, unreadable text, -1, 0 or good values for 2 or 3 settings; where none gives anything, 4 callers, two costs, one caller gives up, burst 4, rate 1, windows up to 6; 33,000 states | `LimitsLeaveRoom`, `EnvironmentWins`; `WindowBounded`, `CallersServed` |
| `mcp` | 1 stdio and 1 HTTP server that offer the same tool, 2 calls, 1 listing, at any time; 157,000 states | `OwnAnswers`, `ShutdownLetsCallsEnd`, `CallsAnswered`, `ShutdownEnds`, `ProcessesEnd` |
| `http_api` | 3 requests or reports of rounds, in nine combinations; 2 stored reports of which 2 are kept; 2 failures block for 2 of 3 seconds; 3 records kept of up to 4; ints up to 7; 3 agents, a cache of 2 that live 1 second; 2,310,000 states | `BlockedIffTooManyFailures`, `NewestKept`, `PrunedAtRest`, `LatestUnlessOvertaken`, `PagesMissNothing`, `RecentlyUsedKept` |
| `retried_success` | as `executor`, no clock | violated: `RetriedSuccessSucceeds` |
| `workflow_dependencies` | plans from a workflow file | violated: `DependenciesHonoured` |
| `empty_plans` | plans of the self-driven orchestrator | violated: `PlansNameAgents` |
| `mcp_servers_killed` | servers that neither exit nor write unasked | violated: `ServersStay` |

Why the bounds are enough to be of use. Three calls are the fewest for one that is late,
one that opens the breaker and one that comes after; with two attempts there is a retry
and a last attempt; with fewer slots than calls there is a wait for one. Two loops allow
a stopped loop in its round beside the live one, and any third only repeats that. Three
runs tell a save that lost a run from one that lost two. Two steps give an earlier and a
later one; the chain has a dependency on a step that may be passed over. Two calls on
one client are two requests that could be mixed up, with an initialization and a closing
on either side. Two saves with a third goroutine that reads or writes are the fewest in
which a list is no longer true when it is used, twice; `MaxReports` = 2 and two stored
files make every save remove one. Requests for reports, for the history and with wrong
tokens share no state but the clock, so `http_api` adds their combinations up rather
than multiplying them; `rate_limiter` does the same with the start of a process and its
limiter. Two executions and one summary are the fewest that can be
recorded at once and read in between, and a Load may come before, between and after them; a threshold of 1 lets the breaker open in so short
a run, and one summary is enough because a summary changes nothing another one reads. A
cache of two and three agents make every new agent evict one. Two directories are the
fewest that can define one name twice. Type invariants are proved and checked by no run. For the safety properties the theorems
below remove the bound altogether.

`CHECK_DEADLOCK FALSE` appears where calls end and nothing need follow: `Executor`
(calls are not repeated), `McpRuntime` (after the shutdown), `HttpApi` (requests end,
and the clock at its bound) and `RateLimiter` (a process that has read its settings, or
refused them). In the others nothing may get stuck.

`Chatters` allows one line nobody asked for per server, which bounds the pipe of `mcp`.

### Fairness

- A goroutine that can run is run: weak fairness per call, per round, per task
  phase. Go's scheduler is preemptive and its mutexes do not starve waiters.
- An attempt ends: its context has a deadline, the wait for a slot is inside it
  (`Executor`: part of `Proceed`); `Scheduler` and `PlanExecution` then take it for
  granted that executions end, which is what `CallsReturn` establishes.
- Tickers fire and time passes. `select` chooses at random among ready cases, so
  a cancelled loop does not take the waiting tick for ever: strong fairness on
  `LoopExits`. Scans of the loop do not stop the clock: strong fairness on
  `SecondPasses`, which is only disabled within a scan.
- A round runs under the context that `Start` was given, which has no deadline: nothing
  is assumed of the model's answers and of the commands it waits for (`AwaitsOutside`),
  and `kubectl logs -f` is a command that may not end. The other steps of a round are
  weakly fair, and `RoundsEnd` says that a round ends or waits for ever in that way.
- MCP: a POST returns within the client's minute, the 30 seconds of `Initialize`
  pass, and a process whose context is done is killed. No server is obliged to
  answer, nor the program to shut down.
- Nothing is assumed of the model, the cluster, `Start`, `Stop`, triggers, saves or
  callers: they may happen or not, succeed or fail.

## Proofs

The `*_proofs` modules are checked by TLAPS with no step left out. The
assumptions are the named `ASSUME`s on the constants, which TLC evaluates on every run:
positive threshold, capacity, attempts, rate and burst, failures, windows and sizes
(`config/settings.go`, `NewRateLimiter`, `NewAuthRateLimiter` and `NewAgentCache` let no
other through; for the first of these `RoomAlways` is the proof), finite sets of calls
and of goroutines, disjoint sets of names and of goroutines, requests and texts that are of
their types, texts of settings that are read as one number or none, and a last second
`MaxTime`, of any size. Three theorems assume something more, named below: two of the scheduler and one about dependencies.

- `Executor_proofs`, the breaker: types; `DeadlineIffThreshold` (inductive with the
  types); `DeadlineInReach`; `OpensHoldUntilDeadline` as a property of steps.
  The slots: `SlotsAccounted`. The invariant counts holders; a
  step adds or removes one call, and that a release finds a token follows from the
  releasing call being a holder. `NoGhostAgents`, by the order of the defers.
  The executor implements `BreakerSpec` and `SlotSpec` (each of
  its steps is a step of theirs or leaves their variables alone), so these
  invariants carry over. `OpenShutsOut` is not inductive: an expired deadline that
  nobody has asked about can come to life again through a late failure. The inductive
  form, `DeadlineShutsOut`, speaks of any deadline that stands, and holds because
  the check of a newcomer removes an expired one. `ClosedEarlyOnlyByLateAnswer` follows from
  it. `RecordsAgree` is proved record by record: each recording step moves one call
  into the set the record counts, or its failures, and no other step changes
  `execErr` of a call that is past its attempts.
- `OperationsSummary_proofs`: beside the reader the executor behaves as alone
  (`ImplementsExecutor`), so all that is proved of it holds here. `SummaryCountsHistory`
  rests on the history never being ahead of the metrics (`HistoryWithinMetrics`), neither
  in the components nor in what has been read of them: it is written last and read first.
  `SummaryExplainsOpen` needs four facts. Where an agent's executions never overlapped
  in their records, the breaker has no more failures than the executions counted have in a
  row, but for the one that is between the two (`FailuresInARow`); where no Load has left
  fewer, the run history in memory has at least those (`LoadedUnlessSetBack`); an agent
  with a deadline has as many as the threshold (`DeadlineIffThreshold`); and what
  was read of an agent that nobody has disturbed since still is so (`UndisturbedStill`).
- `StatePersistence_proofs`: `FilesInv` adds to the types what the temporary file
  holds (`saving = "renaming" => tmp = Whole(mem)`), which holds because updates wait
  for the mutex during a save; from it `FileNeverTorn`, `CleanMeansSaved` and the
  refinement of `DurableStore`. `SavedRunsNeverDecrease` needs `MemoryAhead`: a process
  that could read its file has at least its runs in memory. `HistorySane` is inductive
  with the types.
- `RateLimiter_proofs`: `WindowBounded` from `Balance`: what was granted in the
  window, with what could be granted now, is at most a burst and the flow. A
  tick adds at most a rate to either side. Of the settings `LimitsLeaveRoom` and
  `EnvironmentWins`, from `SettingsInv`: every source reads as one number or none, what the
  process was started with stays in the environment whatever `.env` files add, what of it
  can be read is in the settings once `LoadSettings` is through, and the
  configuration is what `ToProductionConfig` makes of those.
- `Scheduler_proofs`: `Inv` ties each round's phase to its loop and to its sets of
  agents, and `running` to the current loop, as long as the context of that is not done;
  from it `OneLiveLoop` and, where saves succeed, `UnsavedOnlyInRounds` and `SetBackOnlyInRounds`.
- `PlanExecution_proofs`: for plans of any length over any agents and texts. The
  actions of a round are first sorted by what they do to the plan and to the tasks
  (`PlansStep`, `SeeksStep`, `EndingStep` and those that run a step); the invariant,
  `PlanInv`, is proved by kind. It says that what
  ran are tasks of steps that were reached (`RanAreTasks`), that the steps before the
  current one ran whole or not at all, as their dependencies had it (`PastStepsWhole`),
  that of the current one all ran but the waiting (`CurrentStep`), in order where it is
  sequential (`InOrder`), and that no agent has a result that is skipped, or one of a step
  not yet reached (`ResultsCome`).
  `SkippedNeverRun`, `StepsKeepApart` and `PlanCarriedOut` follow from it.
  `DependenciesHonoured` needs besides that no dependency is lost when a plan is read; that
  is false of workflow files (finding 2), and so the theorem, `DependenciesSafe`, assumes
  that their steps ask for none. `OnlyScannedSkillsLost` rests on
  `BuiltAsRegistered`, about all trees of directories and all files in them.
  `LeftBySummaryOrFailure` rests on `SavesInv`: runs are recorded only where agents are
  registered, so that a round which finds nothing to plan has nothing unsaved, and one that
  is past its planning has a plan with steps, and so comes by the save or by a summary.
- `HttpApi_proofs`, per component, and for the API because each of its steps is a step of
  the component or leaves it alone (`ImplementsLookups`, `ImplementsLimiter`,
  `ImplementsReports`).
  - The cache: `RecentlyUsedKept`. What is in the cache fits its last use
    (`CacheInv`); the inductive fact is about what is not, `GoneAreOutrun`: as many agents
    as the cache holds have been asked for since an agent that is gone was. An eviction
    keeps it because the victim was used no later than any other entry, and there are
    `MaxSize` of those with the newcomer; an expired entry is replaced at once, so it
    never is gone. `NeverOverfull` holds for every method.
  - The limiter: `BlockedIffTooManyFailures`, in `LimiterInv`. The times kept of an address
    are the end of the list of all its failures, of which those that are missing are out
    of the window; times are in order, so the failure `MaxFails` before another is
    within its window exactly if more than `MaxFails` times were kept; and the time of
    the block is that of the latest such failure.
  - The reports: `NewestKept` from `GoroutineInv`. A file is outlived if `MaxReports` newer
    ones are in the directory. What a goroutine has seen there is still there or
    outlived (`SeesAll`), so that what a save is about to remove is outlived
    (`PrunesOutlived`), although its list may no longer be true; a removal leaves outlived
    files outlived, because it takes one that is so itself (`FatesKept`).
    With `MaxReports` = 0, the default, nothing is outlived, and so nothing is removed.
    `LatestUnlessOvertaken` follows from the same. `PrunedAtRest` is not inductive: either the
    directory is small enough, or some save is going to make it so, which has it still to
    look at, or has the excess still to remove (`PruningPending`). `unpruned` counts what was
    written besides and what could not be removed since a save last read the directory;
    `FewerThanListed` assumes that a save lists all of it.
  - The history: `PagesMissNothing`. Records carry their place; the number of newer ones
    is the index of a record in the listing (`RanksDescend`, `RanksDiffer`, `RanksFill`);
    a new record can only raise it, and the cap, which forgets the oldest, leaves it
    alone. What has not been got therefore lies at the reader's offset or
    behind it (`ReaderInv`), and at the last page there is nothing behind.
- `McpRuntime_proofs`: `OwnAnswers`, although `send` compares no id. Two facts carry
  it. `Exclusion`: a client's mutex is held by exactly the goroutine between its
  `Lock` and its `Unlock`. `Pipes`: between a server that writes only when asked and its
  client there is at most one request or line, and it belongs to the holder, who is
  waiting. A write therefore finds empty pipes and a read leaves them empty; requests a
  dead process has not read stay behind, which is why `Pipe` speaks of the
  request pipe only while the process is up, and a connection begins with new pipes.
  `ShutdownLetsCallsEnd` has two parts. `ShutdownInterruptsNobody` follows from `Exclusion`, since the shutdown ends a
  process under the mutex of its client, where no call can be waiting for an answer.
  `ShutdownWaitsForTheseOnly` needs which locks each goroutine holds where (`Shutting`): the
  holder of whatever the shutdown waits for is a listing under way or a call past that
  lock. `ListersKeptOut` says that no listing is at work while clients are closed.

Only model-checked: liveness (`CallsReturn`, `StoppedLoopsExit`, `AgentsKeepRunning`,
`RoundsEnd`, `CallersServed`, `CallsAnswered`, `ShutdownEnds`, `ProcessesEnd`), which the prover cannot do under fairness. Every safety
property of a passing run is a theorem; of `DependenciesHonoured` the part about plans that
are not from workflow files.
Proved and checked by no run: the type invariants, `DeadlineInReach`,
`OpensHoldUntilDeadline`, `NoGhostAgents`, `SlotsOnlyWhileAttempting` of the executor, and `ListersKeptOut`.

## Findings

Each is a run that TLC ends with a counterexample; `PROJECT.json` quotes the
line contradicted.

1. `agent/executor.go:120`: `execErr` is never cleared, so a call whose retry
   succeeds returns the error of the first attempt and counts as a failure
   everywhere, the breaker included.
2. `plan/plan.go:24`: `depends_on` of a workflow file is not read (the struct has
   json tags, the reader is YAML), so its steps run whatever they depend on.
3. `plan/plan.go:83`: a plan whose steps name no agents is carried out; that is the
   shape the self-driven planner asks the model for, so such a round runs nobody, where
   `docs/usage-guide.md:61` has it run all agents if the planners fail.
4. `mcp/client.go:428`: the deferred cancel of `Initialize` kills the stdio
   servers it has just connected. Only removing it is no repair: then
   a silent server blocks its callers and the shutdown for ever, and a server that
   failed to list its tools is never ended (`InitializeReturnsUncancelled` is the
   mutant of `CallsAnswered` and `ProcessesEnd`).

Observed while modelling, without a run of their own:

- `mcp/registry.go:310-311`: the nested read lock deadlocks with a concurrent
  `ShutdownMCP` that asks for the lock in between: neither goes on, and later calls wait
  too. `ShutdownEnds` and `CallsAnswered` name that state (`Deadlocked`); without the
  exception TLC reports it.
- `scheduler/scheduler.go:126,135,158`: a caller of `Start` who cancels its context, as
  `scheduler_test.go:226-237` does, ends the loop; `GetStatus` goes on to report a
  scheduler that runs, no agent is due any more, and `Start` does nothing until somebody
  calls `Stop`. `OneLiveLoop` and `AgentsKeepRunning` therefore speak of loops whose
  context is not done.
- `scheduler/scheduler.go:132-134`: `Start` loads the run history and leaves the breaker
  as it is; a summary may then show an open circuit after fewer failures than open one.
  `setBack` of `OperationsSummary` sets such agents apart.
- `agent/thinking.go:342-378` lets `kubectl logs -f` and `get -w` run under the context of
  a round, which has no deadline: the loop then waits for ever, and so does every later
  round of it.
- `report/report.go:64` ignores the error of a removal: the directory then holds more
  reports than are kept until a later save (`RemoveFails`).
- `mcp/registry.go:59-133`: servers that a configuration disables are registered, and
  shown by `ConnectedServers`, since the static format reads them first and knows
  no `enabled`.
- `runtime/production.go:129`: of two executions of one agent the first to end
  takes the name off the active ones.
- `runtime/production.go:273`: `GetStatus` and `IsOpen` differ at the deadline itself.
- `scheduler/scheduler.go:133`: the error of `Load` is dropped; the next save replaces
  a history that could not be read (`unread` in `StatePersistence`).
- `docs/workflow.md:105-127` shows the slot taken once around the retries; the code
  takes it per attempt, and the deadline of the attempt covers the wait.
- `scheduler/scheduler.go:424-432`: rounds that end in the self-driven summary, or in a
  summary that fails, return before the save. The self-driven summary is preferred whenever
  there is one, so that where it keeps succeeding the runs of all rounds stay dirty in memory
  and a restart finds none of them. `LeftBySummaryOrFailure` says that nothing else
  leaves runs unsaved.
- `operations/manager.go:127` and `report/report.go:107`: a limit near the largest int
  makes `offset + limit` negative and the slice panics (`Panics`); the request
  is lost and nothing else, since the lock is released by a defer.
- `httpapi/auth.go`: nothing in the repository but its tests installs the middleware,
  although the repository's `README.md:169` describes tokens. `HttpApi` puts it where the
  tests do; a request with `exempt` is one that meets no middleware.
- `agent/executor.go:122-146`: of two executions of an agent that end at once, the
  breaker may count the failure last and the run history the success; they then disagree
  on the failures in a row until the next success, and a summary shows an open circuit
  after none. `mixed` of `OperationsSummary` sets such agents apart.
- `agent/registry.go:220-223` looks for sub-skills that are not configured, as
  `docs/architecture.md:60` says; agents are built by `LoadAgentDSL`, which does not, so the
  sub-skills found never reach them where there is a model (`BuildWorkerAgent`).
  `OnlyScannedSkillsLost` says that nothing else of name and sub-skills is lost.
- `agent/registry.go:208-218`: an `agent.yaml` without a name hides the `SKILL.md`
  beside it from the registry, while `LoadAgentDSL` would read it; one whose keys only
  the DSL knows cannot be parsed registers an agent that is then built from its spec; of
  two agents of one name the last one found stays, silently.
- `agent/dsl.go:37` says that `use_builtins` is true by default; a `toolkit` block that
  does not give it turns the builtins off (200-206).
- `agent/cache.go:57-70` counts a lookup that finds an expired agent as two misses. The
  agent in the cache is handed to overlapping executions at once.
- `config/settings.go:154-190`: durations are only parsed. A negative
  `circuit_breaker_timeout` makes a breaker that never blocks; a duration from the
  environment that cannot be parsed hides the file's and ends in the default, as does a
  number of agents that is not positive.
- `agent/thinking.go:141-148`: the last attempt of `ThinkAndExecuteWithRetry`, when it
  succeeds, is returned with the error of the one before.
- `plan/adaptive.go:107-123`: a sub-plan that fails leaves the success of its plan as it
  was, and one that repairs a failed step does not restore it.
- `kubectl` of the self-driven worker does not pass the rate limiter; `kubectlCh` is
  not used; `writeReport` does not prune, and two reports of one second overwrite
  one another.

## Not modelled, and why

Prompts, parsing and formatting of text, HTTP requests and JSON: data that no property
here tells apart. Of reports: what they say, filters by time, files of other names, more
than 10,000 of them (`PruneIfNeeded` lists no more), and a `Latest` that reads a file
half written. Of the HTTP API: pages that only read (health, metrics, system, tools), chats
(`ExecuteChat`, which changes no state that a module has), and what `/trigger` does
without a scheduler (`httpapi/server.go:223-233`: it executes the agents itself, one after
the other); only `RegisterRoutes` leaves the scheduler out, and only a test calls that.
The tokens, which no request changes: `AddToken`, `RemoveToken` and `RotateToken` are
called by tests only. Of agent definitions: prompts, toolkits, models, and that files
may change between startup and the building of an agent. Of settings: those of text. Wiring: done once at startup. The static list of MCP servers
(`mcp/registry.go:59-133`): its outcome is a constant. `plan/adaptive.go`, `reasoning/`,
`runtime/graceful.go`, `agent/pool.go` and `ThinkAndExecuteWithRetry`: only tests call
them, and the behaviour of the program does not depend on them. That a duration is
negative. Floating-point rounding of the bucket, fractions of seconds, several processes
sharing one state file, power failures (the code does not sync its files).

## Plan

Order: what protects and records executions first, then what schedules them, then the
edges.

1. Done: `CircuitBreaker`, `ConcurrencyController`, `Executor`; `StatePersistence` over
   `DurableStore`; `Scheduler`; `PlanExecution`; `RateLimiter`; `McpClient`,
   `McpRuntime` over `RWMutex`; the proofs above.
2. Done: `AuthLimiter`, `Reports`, `OperationsHistory`, `AgentCache` and `HttpApi`,
   which composes them as the handlers of `httpapi/server.go` do; `OperationsSummary`
   over `Executor`.
3. Done: `Thinking` within `PlanExecution`; `SkillRegistry` as functions, of which
   `PlanExecution` takes its registry; `Settings`, which makes the constants of the others.
4. Done, proofs: every safety property of the passing runs, as above.
5. Open, models: an abstract directory of reports that keeps the newest `maxReports`;
   tokens that are rotated while requests are checked; adaptive plans as a pure
   function, should the program come to call them.
