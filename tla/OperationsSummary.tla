------------------------- MODULE OperationsSummary -------------------------
(***************************************************************************)
(* GetSummaryWithEnrichment of internal/operations/manager.go, which       *)
(* /api/operations answers with: it reads history, metrics, run history    *)
(* and breaker one after the other, each under its own lock, beside the    *)
(* executions (Executor) that write them, and puts together what it read.  *)
(*                                                                         *)
(* What Executor records of runs is here set beside the run history as it  *)
(* is in memory, which rounds save and every Start of the scheduler loads  *)
(* again, while the other sources keep what they have.                     *)
(*                                                                         *)
(* One request is modelled, which may come at any time: a summary changes  *)
(* nothing that another one reads.  Durations and times are left out.  The *)
(* history is that of Executor, without the cap that OperationsHistory     *)
(* models.                                                                 *)
(***************************************************************************)
EXTENDS Executor, Sequences

CONSTANT
  Files         \* run histories that the state file may hold at the start

ASSUME SummaryAssumption ==
  Files \subseteq [Agents -> [runs : Nat, failed : Nat, consecutive : Nat]]

VARIABLES
  runs,         \* the run history in memory
  saved,        \* the run history on file
  setBack,      \* history: agents of which a Load left fewer failures in a row
                \* than there were, and that have not succeeded since
  part,       \* which source is read next; past the last: the answer is given
  read,       \* what has been read of each
  mixed,      \* history: agents two of whose executions have been at their
              \* records at once
  disturbed   \* history: those, agents with an execution at its records since
              \* the reading began, and those set back when the runs were read

historyVars == <<runs, saved, setBack>>
summaryVars == <<part, read, mixed, disturbed>>
allVars == <<vars, historyVars, summaryVars>>

Counts == [ok : Nat, failed : Nat]
Entries == [runs : Nat, failed : Nat, consecutive : Nat]

SummaryTypeOK ==
  /\ TypeOK
  /\ {runs, saved} \subseteq [Agents -> Entries]
  /\ setBack \in SUBSET Agents
  /\ part \in 1..5
  /\ read \in [history : [Agents -> Counts], metrics : [Agents -> Counts],
               state : [Agents -> Entries], circuit : SUBSET Agents]
  /\ {mixed, disturbed} \subseteq SUBSET Agents

\* Mutant of Sources.
SourcesMetricsFirst == <<"metrics", "history", "state", "circuit">>

\* The records of an execution are written the other way round.
Sources == <<"history", "metrics", "state", "circuit">>

\* GetMetrics, GetStateSnapshot and GetStatus, which takes a deadline of now for
\* over.
Content(source) ==
  CASE source = "history" -> ops
    [] source = "metrics" -> metrics
    [] source = "state"   -> runs
    [] source = "circuit" -> {a \in Agents : now < openUntil[a]}

NoRuns == [a \in Agents |-> [runs |-> 0, failed |-> 0, consecutive |-> 0]]

NothingRead ==
  LET none == [a \in Agents |-> [ok |-> 0, failed |-> 0]] IN
  [history |-> none, metrics |-> none, state |-> NoRuns, circuit |-> {}]

SummaryInit ==
  /\ Init
  /\ runs = NoRuns /\ saved \in Files /\ setBack = {}
  /\ part = 1 /\ read = NothingRead
  /\ mixed = {} /\ disturbed = {}

\* Executions of a that have told the breaker and not yet the history.
AtRecords(a) ==
  {c \in Calls : AgentOf[c] = a /\ pc[c] \in Recording \ {"recCircuit"}}

-----------------------------------------------------------------------------

\* Whom the answer cannot be held to is known in part when the reading begins,
\* in part when the run history is read.
Excused ==
  CASE part = 1 -> mixed \cup {a \in Agents : AtRecords(a) # {}}
    [] part > 1 -> IF Sources[part] = "state" THEN disturbed \cup setBack ELSE disturbed

ReadSource ==
  /\ part <= Len(Sources)
  /\ read' = [read EXCEPT ![Sources[part]] = Content(Sources[part])]
  /\ part' = part + 1
  /\ disturbed' = Excused
  /\ UNCHANGED <<vars, historyVars, mixed>>

\* An execution that records its run updates the entry that is in memory, whatever
\* a Load has made of it.
UpdatedRuns ==
  [a \in Agents |-> IF state'[a] = state[a] THEN runs[a]
                    ELSE Updated(runs[a], state'[a].consecutive # 0)]

Executes(step) ==
  /\ step
  /\ runs' = UpdatedRuns
  /\ setBack' = {a \in setBack : state'[a] # state[a] => state'[a].consecutive # 0}
  /\ mixed' = mixed \cup {a \in Agents : Cardinality(AtRecords(a)') > 1}
  /\ disturbed' = IF part = 1 THEN {}
                  ELSE disturbed \cup {a \in Agents : AtRecords(a)' # {}}
  /\ UNCHANGED <<saved, part, read>>

\* A round saves what is in memory, at any time from here; a save that fails is
\* none.
SaveRuns ==
  /\ saved' = runs
  /\ UNCHANGED <<vars, runs, setBack, summaryVars>>

\* Start loads the run history from its file; breaker, metrics and history of
\* operations keep what they have.
LoadRuns ==
  /\ runs' = saved
  /\ setBack' = setBack \cup
       {a \in Agents : saved[a].consecutive < runs[a].consecutive}
  /\ UNCHANGED <<vars, saved, summaryVars>>

SummaryNext == ReadSource \/ Executes(Next) \/ SaveRuns \/ LoadRuns

SummarySafe == SummaryInit /\ [][SummaryNext]_allVars

\* Fairness of the executions is Executor's; nobody need ask for a summary.
SummarySpec ==
  SummarySafe /\ \A c \in Calls : WF_allVars(Executes(Proceed(c)))

-----------------------------------------------------------------------------

Answered == part > Len(Sources)

\* What the answer says of an agent.  Metrics, where there are any, replace what
\* was counted in the history, and what the breaker says is said of agents known
\* from the other sources.
Total(a) ==
  IF read.metrics[a] # [ok |-> 0, failed |-> 0] THEN read.metrics[a]
  ELSE read.history[a]

Listed(a) ==
  Total(a) # [ok |-> 0, failed |-> 0] \/ read.state[a].runs > 0

ShownOpen(a) == Listed(a) /\ a \in read.circuit

\* An execution that the history shows is counted in every summary asked for
\* afterwards, however many are being recorded meanwhile: metrics are written
\* before the history and read after it (manager.go:140-188, executor.go:123-146).
SummaryCountsHistory ==
  Answered => \A a \in Agents :
    /\ Total(a).ok >= read.history[a].ok
    /\ Total(a).failed >= read.history[a].failed

\* A summary that shows an agent's circuit open shows as many failures in a row as
\* it takes to open one, with three exceptions.  Executions of the agent were being
\* recorded while it was put together.  Or they have ever been recorded at the same
\* time: the order of their outcomes may then differ for ever between breaker and
\* run history, so that the answer is an open circuit after no failure.  Or a Start
\* has loaded a run history with fewer failures, which no success has ended since:
\* the breaker keeps those it has counted (manager.go:190-216, executor.go:122-146,
\* scheduler.go:132-134).
SummaryExplainsOpen ==
  Answered => \A a \in Agents \ disturbed :
    ShownOpen(a) => read.state[a].consecutive >= Threshold
=============================================================================
