---------------------- MODULE OperationsSummary_proofs ----------------------
(***************************************************************************)
(* Proofs about OperationsSummary, for any number of executions of any     *)
(* agents: a reader of the four sources disturbs none of the executions,   *)
(* so that what Executor_proofs says of them holds beside it.              *)
(***************************************************************************)
EXTENDS OperationsSummary, Executor_proofs

\* Whatever a summary reads, the executions are those of Executor.
THEOREM ImplementsExecutor == SummarySafe => SafeSpec
<1>1. SummaryInit => Init
  BY DEF SummaryInit
<1>2. [SummaryNext]_allVars => [Next]_vars
  BY DEF SummaryNext, ReadSource, Executes, SaveRuns, LoadRuns, allVars
<1> QED
  BY <1>1, <1>2, PTL DEF SummarySafe, SafeSpec

\* The reader's own variables, and the run history that is loaded and saved.
ReaderTypeOK ==
  /\ part \in 1..5
  /\ read \in [history : [Agents -> Counts], metrics : [Agents -> Counts],
               state : [Agents -> Entries], circuit : SUBSET Agents]
  /\ {mixed, disturbed} \subseteq SUBSET Agents
  /\ {runs, saved} \subseteq [Agents -> Entries]
  /\ setBack \in SUBSET Agents

\* One tally says at least what another says.
AtMost(s, t) ==
  \A a \in Agents : s[a].ok <= t[a].ok /\ s[a].failed <= t[a].failed

\* What the history has counted the metrics have, and what was read of the one
\* is counted in what is there of the other.
HistoryWithinMetrics ==
  /\ part >= 2 => AtMost(read.history, metrics)
  /\ part >= 3 => AtMost(read.history, read.metrics)

\* Calls of an agent whose outcome the breaker knows and the run history does not.
Between(a) == {c \in Calls : AgentOf[c] = a /\ pc[c] \in {"recMetrics", "recState"}}

\* An agent whose executions were recorded one after the other has no more failures
\* in the breaker than were recorded in a row, but for the one between them.
FailuresInARow ==
  \A a \in Agents \ mixed :
    /\ \A c, d \in AtRecords(a) : c = d
    /\ Between(a) = {} => failures[a] <= state[a].consecutive
    /\ \A c \in Between(a) :
         failures[a] <= IF execErr[c] THEN state[a].consecutive + 1 ELSE 0

\* Unless a Load has set it back, the run history in memory has all the failures in a
\* row that were recorded.
LoadedUnlessSetBack ==
  \A a \in Agents \ setBack : state[a].consecutive <= runs[a].consecutive

\* Of an agent that no execution has been at its records of since the reading began,
\* and whose run history was not set back when it was read, what was read still has
\* all the failures in a row that were recorded.
UndisturbedStill ==
  part >= 2 =>
    \A a \in Agents \ disturbed :
      /\ a \notin mixed /\ AtRecords(a) = {}
      /\ part >= 4 => state[a].consecutive <= read.state[a].consecutive
      /\ part >= 5 /\ a \in read.circuit => state[a].consecutive >= Threshold

-----------------------------------------------------------------------------

\* A step that records nothing leaves the records, and those at them, alone; the
\* breaker it may at most close.
LEMMA OthersLeaveAtRecords ==
  ASSUME OwnTypes, BreakerTypeOK, [Next]_vars,
         \A c \in Calls : /\ ~RecordCircuit(c) /\ ~RecordMetrics(c)
                          /\ ~RecordState(c) /\ ~RecordOps(c)
  PROVE  /\ metrics' = metrics /\ state' = state
         /\ \A a \in Agents :
              /\ AtRecords(a)' = AtRecords(a) /\ Between(a)' = Between(a)
              /\ \A c \in Between(a) : execErr'[c] = execErr[c]
              /\ failures'[a] \in {0, failures[a]}
<1> DEFINE Kept ==
      /\ metrics' = metrics /\ state' = state
      /\ \A c \in Calls :
           \/ pc'[c] = pc[c] /\ execErr'[c] = execErr[c]
           \/ /\ pc[c] \notin {"recMetrics", "recState", "recOps"}
              /\ pc'[c] \notin {"recMetrics", "recState", "recOps"}
      /\ \A a \in Agents : failures'[a] \in {0, failures[a]}
<1> USE DEF OwnTypes, BreakerTypeOK, Goto, recordVars, breakerVars
<1>1. ASSUME NEW c \in Calls, AskSlot(c) \/ GetSlot(c) \/ StartAgent(c) PROVE Kept
  BY <1>1 DEF AskSlot, GetSlot, StartAgent, callVars
<1>2. ASSUME NEW c \in Calls, LoseSlot(c) \/ LeaveSlot(c) PROVE Kept
  BY <1>2 DEF LoseSlot, LeaveSlot, EndAttempt
<1>3. ASSUME NEW c \in Calls, NEW err, Reply(c, err) PROVE Kept
  BY <1>3 DEF Reply
<1>4. ASSUME NEW c \in Calls, BackoffEnds(c) \/ BackoffCancelled(c) PROVE Kept
  BY <1>4 DEF BackoffEnds, BackoffCancelled
<1>5. ASSUME NEW c \in Calls, Begin(c) PROVE Kept
  BY <1>5, CallsHaveAgents DEF Begin, IsOpen
<1>6. ASSUME NEW c \in Calls, Cancel(c) PROVE Kept
  BY <1>6 DEF Cancel, callVars
<1>7. ASSUME Tick \/ UNCHANGED vars PROVE Kept
  BY <1>7 DEF Tick, ClockTicks, vars, callVars
<1> HIDE DEF Kept
<1>8. Kept
  BY <1>1, <1>2, <1>3, <1>4, <1>5, <1>6, <1>7 DEF Next, Proceed
<1> QED
  BY <1>8 DEF Kept, AtRecords, Between, Recording

\* Metrics only grow.
LEMMA MetricsGrow ==
  ASSUME OwnTypes, BreakerTypeOK, [Next]_vars PROVE AtMost(metrics, metrics')
<1> USE DEF OwnTypes
<1>1. metrics' = metrics => AtMost(metrics, metrics')
  BY DEF AtMost
<1>2. ASSUME NEW c \in Calls, RecordMetrics(c) PROVE AtMost(metrics, metrics')
  BY <1>2, CallsHaveAgents DEF RecordMetrics, Count, AtMost
<1>3. ASSUME NEW c \in Calls, RecordCircuit(c) \/ RecordState(c) \/ RecordOps(c)
      PROVE  metrics' = metrics
  BY <1>3 DEF RecordCircuit, RecordState, RecordOps, recordVars
<1> QED
  BY <1>1, <1>2, <1>3, OthersLeaveAtRecords

\* The metrics have counted all that the history has: they are written first.
LEMMA OpsWithinMetrics ==
  ASSUME OwnTypes, RecordsAgree PROVE AtMost(ops, metrics)
<1> SUFFICES ASSUME NEW a \in Agents
             PROVE  ops[a].ok <= metrics[a].ok /\ ops[a].failed <= metrics[a].failed
  BY DEF AtMost
<1>1. IsFiniteSet(Measured(a))
  BY ControllerAssumption, FS_Subset DEF ControllerAssumption, Measured, At
<1>2. Logged(a) \subseteq Measured(a)
  BY DEF Logged, Measured, At
<1>3. /\ Cardinality(Logged(a) \ Failures) <= Cardinality(Measured(a) \ Failures)
      /\ Cardinality(Logged(a) \cap Failures) <= Cardinality(Measured(a) \cap Failures)
  <2>1. /\ Logged(a) \ Failures \subseteq Measured(a) \ Failures
        /\ Logged(a) \cap Failures \subseteq Measured(a) \cap Failures
    BY <1>2
  <2>2. IsFiniteSet(Measured(a) \ Failures) /\ IsFiniteSet(Measured(a) \cap Failures)
    BY <1>1, FS_Subset
  <2> QED
    BY <2>1, <2>2, FS_Subset
<1>4. MetricsAgree(a) /\ OpsAgree(a)
  BY DEF RecordsAgree
<1> QED
  BY <1>3, <1>4 DEF MetricsAgree, OpsAgree

LEMMA AtMostTransitive ==
  ASSUME NEW s \in [Agents -> Counts], NEW t \in [Agents -> Counts],
         NEW u \in [Agents -> Counts], AtMost(s, t), AtMost(t, u)
  PROVE  AtMost(s, u)
<1> SUFFICES ASSUME NEW a \in Agents PROVE s[a].ok <= u[a].ok /\ s[a].failed <= u[a].failed
  BY DEF AtMost
<1>1. \A r \in Counts : r.ok \in Nat /\ r.failed \in Nat
  BY DEF Counts
<1>2. s[a] \in Counts /\ t[a] \in Counts /\ u[a] \in Counts
  OBVIOUS
<1>3. s[a].ok <= t[a].ok /\ s[a].failed <= t[a].failed
      /\ t[a].ok <= u[a].ok /\ t[a].failed <= u[a].failed
  BY DEF AtMost
<1> QED
  BY <1>1, <1>2, <1>3

-----------------------------------------------------------------------------

\* What ReadSource reads at each of its four times.
LEMMA WhatIsRead ==
  ASSUME ReaderTypeOK, ReadSource
  PROVE  /\ part \in 1..4 /\ part' = part + 1
         /\ part = 1 => read' = [read EXCEPT !.history = ops]
         /\ part = 2 => read' = [read EXCEPT !.metrics = metrics]
         /\ part = 3 => read' = [read EXCEPT !.state = runs]
         /\ part = 4 => read' = [read EXCEPT !.circuit = {a \in Agents : now < openUntil[a]}]
<1>1. part \in 1..4
  BY DEF ReaderTypeOK, ReadSource, Sources
<1>2. /\ Sources[1] = "history" /\ Sources[2] = "metrics"
      /\ Sources[3] = "state" /\ Sources[4] = "circuit"
  BY DEF Sources
<1>3. /\ Content("history") = ops /\ Content("metrics") = metrics
      /\ Content("state") = runs
      /\ Content("circuit") = {a \in Agents : now < openUntil[a]}
  BY DEF Content
<1>4. part' = part + 1 /\ read' = [read EXCEPT ![Sources[part]] = Content(Sources[part])]
  BY DEF ReadSource
<1>5. ASSUME part = 1 PROVE read' = [read EXCEPT !.history = Content("history")]
  <2>1. Sources[part] = "history"
    BY <1>2, <1>5
  <2> QED
    BY <1>4, <2>1, Zenon
<1>6. ASSUME part = 2 PROVE read' = [read EXCEPT !.metrics = Content("metrics")]
  <2>1. Sources[part] = "metrics"
    BY <1>2, <1>6
  <2> QED
    BY <1>4, <2>1, Zenon
<1>7. ASSUME part = 3 PROVE read' = [read EXCEPT !.state = Content("state")]
  <2>1. Sources[part] = "state"
    BY <1>2, <1>7
  <2> QED
    BY <1>4, <2>1, Zenon
<1>8. ASSUME part = 4 PROVE read' = [read EXCEPT !.circuit = Content("circuit")]
  <2>1. Sources[part] = "circuit"
    BY <1>2, <1>8
  <2> QED
    BY <1>4, <2>1, Zenon
<1> QED
  BY <1>1, <1>3, <1>4, <1>5, <1>6, <1>7, <1>8

LEMMA ReaderTyped ==
  /\ SummaryInit => ReaderTypeOK
  /\ TypeOK /\ ReaderTypeOK /\ [SummaryNext]_allVars => ReaderTypeOK'
<1>1. SummaryInit => ReaderTypeOK
  BY SummaryAssumption
  DEF SummaryAssumption, SummaryInit, ReaderTypeOK, NothingRead, NoRuns, Counts, Entries
<1>2. ASSUME TypeOK, ReaderTypeOK, ReadSource PROVE ReaderTypeOK'
  <2>1. /\ part \in 1..4 /\ part' = part + 1
        /\ part = 1 => read' = [read EXCEPT !.history = ops]
        /\ part = 2 => read' = [read EXCEPT !.metrics = metrics]
        /\ part = 3 => read' = [read EXCEPT !.state = runs]
        /\ part = 4 => read' = [read EXCEPT !.circuit = {a \in Agents : now < openUntil[a]}]
    BY <1>2, WhatIsRead
  <2>2. /\ mixed' \in SUBSET Agents /\ disturbed' \in SUBSET Agents
        /\ UNCHANGED <<runs, saved, setBack>>
    BY <1>2, <2>1 DEF ReadSource, ReaderTypeOK, historyVars, Excused
  <2>3. metrics \in [Agents -> Counts] /\ ops \in [Agents -> Counts]
    BY <1>2 DEF TypeOK, Counts
  <2>4. read' \in [history : [Agents -> Counts], metrics : [Agents -> Counts],
                   state : [Agents -> Entries], circuit : SUBSET Agents]
    BY <1>2, <2>1, <2>3 DEF ReaderTypeOK
  <2> QED
    BY <1>2, <2>1, <2>2, <2>4 DEF ReaderTypeOK
<1>3. ASSUME ReaderTypeOK, Executes(Next) PROVE ReaderTypeOK'
  <2>1. /\ UNCHANGED <<part, read, saved>>
        /\ mixed' \in SUBSET Agents /\ disturbed' \in SUBSET Agents
        /\ setBack' \in SUBSET Agents
    BY <1>3 DEF Executes, ReaderTypeOK
  <2>2. runs' \in [Agents -> Entries]
    <3>1. runs \in [Agents -> Entries]
      BY <1>3 DEF ReaderTypeOK
    <3>2. \A e \in Entries : Updated(e, TRUE) \in Entries /\ Updated(e, FALSE) \in Entries
      BY DEF Entries, Updated
    <3>3. \A a \in Agents : UpdatedRuns[a] \in Entries
      BY <3>1, <3>2 DEF UpdatedRuns, Updated
    <3> QED
      BY <1>3, <3>3 DEF Executes, UpdatedRuns
  <2> QED
    BY <2>1, <2>2, <1>3 DEF ReaderTypeOK
<1>4. ASSUME ReaderTypeOK, SaveRuns \/ LoadRuns \/ UNCHANGED allVars PROVE ReaderTypeOK'
  BY <1>4 DEF ReaderTypeOK, SaveRuns, LoadRuns, allVars, historyVars, summaryVars
<1> QED
  BY <1>1, <1>2, <1>3, <1>4 DEF SummaryNext

\* The summary and what it has read keep their types beside any executions
\* (manager.go:139-217).
THEOREM SummaryTyped == SummarySafe => []SummaryTypeOK
<1>1. TypeOK /\ ReaderTypeOK => SummaryTypeOK
  BY DEF ReaderTypeOK, SummaryTypeOK
<1> QED
  BY <1>1, ReaderTyped, ImplementsExecutor, ExecutionsTyped, PTL DEF SummarySafe

-----------------------------------------------------------------------------

LEMMA ReadingsWithinMetrics ==
  /\ SummaryInit => HistoryWithinMetrics
  /\ TypeOK /\ ReaderTypeOK /\ RecordsAgree /\ HistoryWithinMetrics
       /\ [SummaryNext]_allVars => HistoryWithinMetrics'
<1>1. SummaryInit => HistoryWithinMetrics
  BY DEF SummaryInit, HistoryWithinMetrics
<1>2. ASSUME TypeOK, ReaderTypeOK, RecordsAgree, HistoryWithinMetrics, ReadSource
      PROVE  HistoryWithinMetrics'
  <2>1. metrics' = metrics
    BY <1>2 DEF ReadSource, vars, recordVars
  <2>2. AtMost(ops, metrics)
    BY <1>2, OpsWithinMetrics DEF TypeOK, OwnTypes
  <2>3. CASE part = 1
    <3>1. part' = 2 /\ read'.history = ops
      BY <1>2, <2>3, WhatIsRead DEF ReaderTypeOK
    <3> QED
      BY <2>1, <2>2, <3>1 DEF HistoryWithinMetrics
  <2>4. CASE part = 2
    <3>1. part' = 3 /\ read'.history = read.history /\ read'.metrics = metrics
      BY <1>2, <2>4, WhatIsRead DEF ReaderTypeOK
    <3> QED
      BY <1>2, <2>1, <2>4, <3>1 DEF HistoryWithinMetrics
  <2>5. CASE part \in {3, 4}
    <3>1. part' >= 3 /\ read'.history = read.history /\ read'.metrics = read.metrics
      BY <1>2, <2>5, WhatIsRead DEF ReaderTypeOK
    <3> QED
      BY <1>2, <2>1, <2>5, <3>1 DEF HistoryWithinMetrics
  <2> QED
    BY <1>2, <2>3, <2>4, <2>5, WhatIsRead
<1>3. ASSUME TypeOK, ReaderTypeOK, HistoryWithinMetrics, [Next]_vars,
             UNCHANGED <<part, read>>
      PROVE  HistoryWithinMetrics'
  <2>1. AtMost(metrics, metrics')
    BY <1>3, MetricsGrow DEF TypeOK, OwnTypes
  <2>2. /\ metrics \in [Agents -> Counts] /\ metrics' \in [Agents -> Counts]
        /\ read.history \in [Agents -> Counts]
    BY <1>3, StepKeepsTypes DEF TypeOK, OwnTypes, ReaderTypeOK, Counts
  <2>3. part >= 2 => AtMost(read.history, metrics')
    BY <1>3, <2>1, <2>2, AtMostTransitive DEF HistoryWithinMetrics
  <2>4. part >= 3 => AtMost(read.history, read.metrics)
    BY <1>3 DEF HistoryWithinMetrics
  <2> QED
    BY <1>3, <2>3, <2>4 DEF HistoryWithinMetrics
<1> QED
  BY <1>1, <1>2, <1>3
  DEF SummaryNext, Executes, SaveRuns, LoadRuns, allVars, summaryVars

\* An answer counts every execution that the history showed when it was read,
\* whatever is recorded meanwhile (manager.go:140-188, executor.go:123-146).
THEOREM NothingShownUncounted == SummarySafe => []SummaryCountsHistory
<1>1. ReaderTypeOK /\ HistoryWithinMetrics => SummaryCountsHistory
  <2> SUFFICES ASSUME ReaderTypeOK, HistoryWithinMetrics, Answered, NEW a \in Agents
               PROVE  /\ Total(a).ok >= read.history[a].ok
                      /\ Total(a).failed >= read.history[a].failed
    BY DEF SummaryCountsHistory
  <2>1. part >= 3
    BY DEF Answered, Sources, ReaderTypeOK
  <2>2. /\ read.history[a].ok <= read.metrics[a].ok
        /\ read.history[a].failed <= read.metrics[a].failed
    BY <2>1 DEF HistoryWithinMetrics, AtMost
  <2>3. read.history[a] \in Counts /\ read.metrics[a] \in Counts
    BY DEF ReaderTypeOK
  <2>4. /\ read.history[a].ok \in Nat /\ read.metrics[a].ok \in Nat
        /\ read.history[a].failed \in Nat /\ read.metrics[a].failed \in Nat
    BY <2>3 DEF Counts
  <2>5. Total(a) = read.metrics[a] \/ Total(a) = read.history[a]
    BY DEF Total
  <2> QED
    BY <2>2, <2>4, <2>5
<1>2. TypeOK => OwnTypes
  BY DEF TypeOK, OwnTypes
<1> QED
  BY <1>1, ReaderTyped, ReadingsWithinMetrics, ImplementsExecutor, ExecutionsTyped,
     RecordsAlwaysAgree, PTL DEF SummarySafe

-----------------------------------------------------------------------------

\* An agent that is not mixed after a step was not so before it, and has at most
\* one execution at its records.
LEMMA Unmixed ==
  ASSUME ReaderTypeOK, Executes(Next), NEW a \in Agents \ mixed'
  PROVE  a \in Agents \ mixed /\ \A c, d \in AtRecords(a)' : c = d
<1>1. a \in Agents \ mixed /\ ~(Cardinality(AtRecords(a)') > 1)
  BY DEF Executes
<1>2. IsFiniteSet(AtRecords(a)')
  BY ControllerAssumption, FS_Subset DEF ControllerAssumption, AtRecords
<1>3. ASSUME NEW c \in AtRecords(a)', NEW d \in AtRecords(a)', c # d PROVE FALSE
  <2>1. {c} \subseteq AtRecords(a)' \ {d}
    BY <1>3
  <2>2. Cardinality({c}) <= Cardinality(AtRecords(a)' \ {d})
    BY <1>2, <2>1, FS_RemoveElement, FS_Subset
  <2>3. Cardinality(AtRecords(a)' \ {d}) = Cardinality(AtRecords(a)') - 1
    BY <1>2, <1>3, FS_RemoveElement
  <2>4. Cardinality({c}) = 1 /\ Cardinality(AtRecords(a)') \in Nat
    BY <1>2, FS_Singleton, FS_CardinalityType
  <2> QED
    BY <1>1, <2>2, <2>3, <2>4
<1> QED
  BY <1>1, <1>3

LEMMA CircuitKeepsFailures ==
  ASSUME TypeOK, ReaderTypeOK, FailuresInARow, Executes(Next),
         NEW c \in Calls, RecordCircuit(c)
  PROVE  FailuresInARow'
<1> USE DEF TypeOK, BreakerTypeOK, Goto
<1>1. /\ pc[c] = "recCircuit" /\ pc' = [pc EXCEPT ![c] = "recMetrics"]
      /\ execErr' = execErr /\ state' = state
  BY DEF RecordCircuit, recordVars
<1> SUFFICES ASSUME NEW a \in Agents \ mixed'
             PROVE  /\ \A d, e \in AtRecords(a)' : d = e
                    /\ Between(a)' = {} => failures'[a] <= state'[a].consecutive
                    /\ \A d \in Between(a)' :
                         failures'[a] <= IF execErr'[d] THEN state'[a].consecutive + 1 ELSE 0
  BY DEF FailuresInARow
<1>2. a \in Agents \ mixed /\ \A d, e \in AtRecords(a)' : d = e
  BY Unmixed
<1>3. CASE a # AgentOf[c]
  <2>1. AtRecords(a)' = AtRecords(a) /\ Between(a)' = Between(a)
    BY <1>1, <1>3 DEF AtRecords, Between, Recording
  <2>2. failures'[a] = failures[a]
    BY <1>3 DEF RecordCircuit, RecordSuccess, RecordFailure
  <2> QED
    BY <1>1, <1>2, <2>1, <2>2 DEF FailuresInARow
<1>4. CASE a = AgentOf[c]
  <2>1. c \in AtRecords(a)' /\ AtRecords(a) \subseteq AtRecords(a)' /\ c \notin AtRecords(a)
    BY <1>1, <1>4 DEF AtRecords, Recording
  <2>2. AtRecords(a) = {}
    BY <1>2, <2>1
  <2>3. Between(a) = {} /\ Between(a)' = {c}
    BY <1>1, <1>4, <2>2 DEF AtRecords, Between, Recording
  <2>4. failures[a] <= state[a].consecutive
    BY <1>2, <2>3 DEF FailuresInARow
  <2>5. failures'[a] = IF execErr[c] THEN failures[a] + 1 ELSE 0
    BY <1>4 DEF RecordCircuit, RecordSuccess, RecordFailure
  <2>6. failures[a] \in Nat /\ state[a].consecutive \in Nat
    OBVIOUS
  <2> QED
    BY <1>1, <1>2, <2>3, <2>4, <2>5, <2>6
<1> QED
  BY <1>3, <1>4

LEMMA StateKeepsFailures ==
  ASSUME TypeOK, ReaderTypeOK, FailuresInARow, Executes(Next),
         NEW c \in Calls, RecordState(c)
  PROVE  FailuresInARow'
<1> USE DEF TypeOK, BreakerTypeOK, Goto
<1>1. /\ pc[c] = "recState" /\ pc' = [pc EXCEPT ![c] = "recOps"]
      /\ execErr' = execErr /\ failures' = failures
  BY DEF RecordState, breakerVars
<1> SUFFICES ASSUME NEW a \in Agents \ mixed'
             PROVE  /\ \A d, e \in AtRecords(a)' : d = e
                    /\ Between(a)' = {} => failures'[a] <= state'[a].consecutive
                    /\ \A d \in Between(a)' :
                         failures'[a] <= IF execErr'[d] THEN state'[a].consecutive + 1 ELSE 0
  BY DEF FailuresInARow
<1>2. a \in Agents \ mixed /\ \A d, e \in AtRecords(a)' : d = e
  BY Unmixed
<1>3. CASE a # AgentOf[c]
  <2>1. Between(a)' = Between(a)
    BY <1>1, <1>3 DEF Between
  <2>2. state'[a] = state[a]
    BY <1>3 DEF RecordState
  <2> QED
    BY <1>1, <1>2, <2>1, <2>2 DEF FailuresInARow
<1>4. CASE a = AgentOf[c]
  <2>1. c \in Between(a) /\ c \in AtRecords(a) /\ Between(a) \subseteq AtRecords(a)
    BY <1>1, <1>4 DEF AtRecords, Between, Recording
  <2>2. Between(a)' = Between(a) \ {c} /\ \A d \in Between(a) : d = c
    BY <1>1, <1>2, <2>1 DEF Between, FailuresInARow
  <2>3. failures[a] <= IF execErr[c] THEN state[a].consecutive + 1 ELSE 0
    BY <1>2, <2>1 DEF FailuresInARow
  <2>4. state'[a].consecutive = IF execErr[c] THEN state[a].consecutive + 1 ELSE 0
    BY <1>4 DEF RecordState, Updated
  <2> QED
    BY <1>1, <1>2, <2>2, <2>3, <2>4
<1> QED
  BY <1>3, <1>4

LEMMA StepKeepsFailures ==
  ASSUME TypeOK, ReaderTypeOK, FailuresInARow, Executes(Next) PROVE FailuresInARow'
<1>1. [Next]_vars /\ OwnTypes /\ BreakerTypeOK
  BY DEF Executes, TypeOK, OwnTypes
<1>2. ASSUME NEW c \in Calls, RecordMetrics(c) \/ RecordOps(c) PROVE FailuresInARow'
  <2>1. /\ failures' = failures /\ state' = state /\ execErr' = execErr
        /\ \A a \in Agents : Between(a)' = Between(a)
    BY <1>1, <1>2 DEF RecordMetrics, RecordOps, Between, Goto, OwnTypes, breakerVars
  <2> QED
    BY <2>1, Unmixed DEF FailuresInARow
<1>3. ASSUME \A c \in Calls : /\ ~RecordCircuit(c) /\ ~RecordMetrics(c)
                              /\ ~RecordState(c) /\ ~RecordOps(c)
      PROVE  FailuresInARow'
  <2>1. /\ state' = state
        /\ \A a \in Agents :
             /\ Between(a)' = Between(a)
             /\ \A c \in Between(a) : execErr'[c] = execErr[c]
             /\ failures'[a] \in {0, failures[a]}
    BY <1>1, <1>3, OthersLeaveAtRecords
  <2>2. \A a \in Agents : state[a].consecutive \in Nat
    BY <1>1 DEF OwnTypes
  <2> SUFFICES ASSUME NEW a \in Agents \ mixed'
               PROVE  /\ \A d, e \in AtRecords(a)' : d = e
                      /\ Between(a)' = {} => failures'[a] <= state'[a].consecutive
                      /\ \A d \in Between(a)' :
                           failures'[a] <= IF execErr'[d] THEN state'[a].consecutive + 1 ELSE 0
    BY DEF FailuresInARow
  <2>3. a \in Agents \ mixed /\ \A d, e \in AtRecords(a)' : d = e
    BY Unmixed
  <2> QED
    BY <2>1, <2>2, <2>3 DEF FailuresInARow
<1> QED
  BY <1>2, <1>3, CircuitKeepsFailures, StateKeepsFailures

\* Failures in a row that are recorded are added to those in memory, and a success
\* ends both.
LEMMA ExecutingKeepsLoaded ==
  ASSUME TypeOK, ReaderTypeOK, LoadedUnlessSetBack, Executes(Next)
  PROVE  LoadedUnlessSetBack'
<1> SUFFICES ASSUME NEW a \in Agents \ setBack'
             PROVE  state'[a].consecutive <= runs'[a].consecutive
  BY DEF LoadedUnlessSetBack
<1>1. OwnTypes /\ BreakerTypeOK /\ [Next]_vars
  BY DEF Executes, TypeOK, OwnTypes
<1>2. /\ runs \in [Agents -> Entries] /\ runs[a].consecutive \in Nat
      /\ state[a].consecutive \in Nat
  BY <1>1 DEF ReaderTypeOK, Entries, OwnTypes
<1>3. runs'[a] = IF state'[a] = state[a] THEN runs[a]
                 ELSE Updated(runs[a], state'[a].consecutive # 0)
  BY DEF Executes, UpdatedRuns
<1>4. CASE state'[a] = state[a]
  <2>1. a \notin setBack
    BY <1>4 DEF Executes
  <2> QED
    BY <1>3, <1>4, <2>1 DEF LoadedUnlessSetBack
<1>5. CASE state'[a] # state[a]
  <2>1. PICK c \in Calls : RecordState(c)
    <3>1. ASSUME NEW c \in Calls, RecordCircuit(c) \/ RecordMetrics(c) \/ RecordOps(c)
          PROVE  state' = state
      BY <3>1 DEF RecordCircuit, RecordMetrics, RecordOps, recordVars
    <3> QED
      BY <1>1, <1>5, <3>1, OthersLeaveAtRecords
  <2>2. a = AgentOf[c] /\ state'[a] = Updated(state[a], execErr[c])
    BY <1>1, <1>5, <2>1 DEF RecordState, OwnTypes
  <2>3. CASE execErr[c]
    <3>1. state'[a].consecutive = state[a].consecutive + 1
      BY <2>2, <2>3 DEF Updated
    <3>2. runs'[a].consecutive = runs[a].consecutive + 1
      BY <1>2, <1>3, <1>5, <3>1 DEF Updated
    <3>3. a \notin setBack
      BY <1>2, <3>1 DEF Executes
    <3> QED
      BY <1>2, <3>1, <3>2, <3>3 DEF LoadedUnlessSetBack
  <2>4. CASE ~execErr[c]
    <3>1. state'[a].consecutive = 0
      BY <2>2, <2>4 DEF Updated
    <3>2. runs'[a].consecutive = 0
      BY <1>3, <1>5, <3>1 DEF Updated
    <3> QED
      BY <3>1, <3>2
  <2> QED
    BY <2>3, <2>4
<1> QED
  BY <1>4, <1>5

\* A Load that leaves fewer failures in a row is remembered.
LEMMA LoadingKeepsLoaded ==
  ASSUME TypeOK, ReaderTypeOK, LoadedUnlessSetBack, SaveRuns \/ LoadRuns
  PROVE  LoadedUnlessSetBack'
<1> SUFFICES ASSUME NEW a \in Agents \ setBack'
             PROVE  state'[a].consecutive <= runs'[a].consecutive
  BY DEF LoadedUnlessSetBack
<1>1. state' = state /\ a \notin setBack
  BY DEF SaveRuns, LoadRuns, vars, recordVars
<1>2. state[a].consecutive <= runs[a].consecutive
  BY <1>1 DEF LoadedUnlessSetBack
<1>3. /\ state[a].consecutive \in Nat /\ runs[a].consecutive \in Nat
      /\ saved[a].consecutive \in Nat
  BY DEF TypeOK, ReaderTypeOK, Entries
<1>4. CASE SaveRuns
  BY <1>1, <1>2, <1>4 DEF SaveRuns
<1>5. CASE LoadRuns
  <2>1. runs' = saved /\ ~(saved[a].consecutive < runs[a].consecutive)
    BY <1>5 DEF LoadRuns
  <2> QED
    BY <1>1, <1>2, <1>3, <2>1
<1> QED
  BY <1>4, <1>5

\* Who is excused at each of the four times.
LEMMA WhoIsExcused ==
  ASSUME ReaderTypeOK, ReadSource
  PROVE  /\ part = 1 => disturbed' = mixed \cup {a \in Agents : AtRecords(a) # {}}
         /\ part = 3 => disturbed' = disturbed \cup setBack
         /\ part \in {2, 4} => disturbed' = disturbed
<1>1. /\ Sources[2] = "metrics" /\ Sources[3] = "state" /\ Sources[4] = "circuit"
      /\ "metrics" # "state" /\ "circuit" # "state"
  BY DEF Sources
<1>2. part = 1 => disturbed' = mixed \cup {a \in Agents : AtRecords(a) # {}}
  BY DEF ReadSource, Excused
<1>3. part > 1 => disturbed' = IF Sources[part] = "state" THEN disturbed \cup setBack
                               ELSE disturbed
  BY DEF ReadSource, Excused, ReaderTypeOK
<1>4. part = 3 => disturbed' = disturbed \cup setBack
  BY <1>1, <1>3
<1>5. part = 2 => disturbed' = disturbed
  BY <1>1, <1>3
<1>6. part = 4 => disturbed' = disturbed
  BY <1>1, <1>3
<1> QED
  BY <1>2, <1>4, <1>5, <1>6

LEMMA ReadingKeepsStill ==
  ASSUME TypeOK, ReaderTypeOK, DeadlineIffThreshold, FailuresInARow,
         LoadedUnlessSetBack, UndisturbedStill, ReadSource
  PROVE  UndisturbedStill'
<1>1. /\ part \in 1..4 /\ part' = part + 1
      /\ part = 1 => read' = [read EXCEPT !.history = ops]
      /\ part = 2 => read' = [read EXCEPT !.metrics = metrics]
      /\ part = 3 => read' = [read EXCEPT !.state = runs]
      /\ part = 4 => read' = [read EXCEPT !.circuit = {a \in Agents : now < openUntil[a]}]
  BY WhatIsRead
<1>2. /\ state' = state /\ mixed' = mixed
      /\ \A a \in Agents : AtRecords(a)' = AtRecords(a)
  BY DEF ReadSource, vars, callVars, recordVars, AtRecords
<1> SUFFICES ASSUME NEW a \in Agents \ disturbed'
             PROVE  /\ a \notin mixed' /\ AtRecords(a)' = {}
                    /\ part' >= 4
                         => state'[a].consecutive <= read'.state[a].consecutive
                    /\ part' >= 5 /\ a \in read'.circuit
                         => state'[a].consecutive >= Threshold
  BY DEF UndisturbedStill
<1>4. part >= 2 => a \in Agents \ disturbed
  BY <1>1, WhoIsExcused
<1>3. a \notin mixed /\ AtRecords(a) = {}
  <2>1. CASE part = 1
    BY <2>1, WhoIsExcused
  <2>2. CASE part # 1
    BY <1>1, <1>4, <2>2 DEF UndisturbedStill
  <2> QED
    BY <2>1, <2>2
<1>5. CASE part \in {1, 2}
  BY <1>1, <1>2, <1>3, <1>5
<1>6. CASE part = 3
  <2>1. part' = 4 /\ read'.state = runs
    BY <1>1, <1>6 DEF ReaderTypeOK
  <2>2. a \notin setBack
    BY <1>6, WhoIsExcused
  <2>3. state[a].consecutive <= runs[a].consecutive
    BY <2>2 DEF LoadedUnlessSetBack
  <2> QED
    BY <1>2, <1>3, <2>1, <2>3
<1>7. CASE part = 4
  <2>1. part' = 5 /\ read'.state = read.state
        /\ read'.circuit = {b \in Agents : now < openUntil[b]}
    BY <1>1, <1>7 DEF ReaderTypeOK
  <2>2. state[a].consecutive <= read.state[a].consecutive
    BY <1>4, <1>7 DEF UndisturbedStill
  <2>3. ASSUME now < openUntil[a] PROVE state[a].consecutive >= Threshold
    <3>1. HasEntry(a)
      BY <2>3 DEF TypeOK, BreakerTypeOK, HasEntry, NoEntry
    <3>2. failures[a] >= Threshold
      BY <3>1 DEF DeadlineIffThreshold
    <3>3. Between(a) = {}
      BY <1>3 DEF AtRecords, Between, Recording
    <3>4. failures[a] <= state[a].consecutive
      BY <1>3, <3>3 DEF FailuresInARow
    <3>5. failures[a] \in Nat /\ state[a].consecutive \in Nat /\ Threshold \in Nat
      BY BreakerAssumption DEF BreakerAssumption, TypeOK, BreakerTypeOK
    <3> QED
      BY <3>2, <3>4, <3>5
  <2> QED
    BY <1>2, <1>3, <2>1, <2>2, <2>3
<1> QED
  BY <1>1, <1>5, <1>6, <1>7

LEMMA ExecutingKeepsStill ==
  ASSUME TypeOK, ReaderTypeOK, UndisturbedStill, Executes(Next)
  PROVE  UndisturbedStill'
<1>1. [Next]_vars /\ OwnTypes /\ BreakerTypeOK
  BY DEF Executes, TypeOK, OwnTypes
<1>2. UNCHANGED <<part, read>>
  BY DEF Executes
<1> SUFFICES ASSUME part >= 2, NEW a \in Agents \ disturbed'
             PROVE  /\ a \notin mixed' /\ AtRecords(a)' = {}
                    /\ part >= 4 => state'[a].consecutive <= read.state[a].consecutive
                    /\ part >= 5 /\ a \in read.circuit => state'[a].consecutive >= Threshold
  BY <1>2 DEF UndisturbedStill
<1>3. AtRecords(a)' = {} /\ a \in Agents \ disturbed
  BY DEF Executes
<1>4. a \notin mixed'
  <2>1. a \notin mixed
    BY <1>3 DEF UndisturbedStill
  <2>2. Cardinality(AtRecords(a)') = 0
    BY <1>3, FS_EmptySet
  <2>3. ~(Cardinality(AtRecords(a)') > 1)
    BY <2>2
  <2> QED
    BY <2>1, <2>3 DEF Executes
<1>5. state'[a] = state[a]
  <2>1. ASSUME NEW c \in Calls, RecordState(c) PROVE state'[a] = state[a]
    <3>1. AgentOf[c] # a
      BY <1>1, <1>3, <2>1 DEF RecordState, Goto, AtRecords, Recording, OwnTypes
    <3> QED
      BY <1>1, <2>1, <3>1 DEF RecordState, OwnTypes
  <2>2. ASSUME NEW c \in Calls, RecordCircuit(c) \/ RecordMetrics(c) \/ RecordOps(c)
        PROVE  state' = state
    BY <2>2 DEF RecordCircuit, RecordMetrics, RecordOps, recordVars
  <2> QED
    BY <1>1, <2>1, <2>2, OthersLeaveAtRecords
<1> QED
  BY <1>3, <1>4, <1>5 DEF UndisturbedStill

\* A circuit shown open comes with as many failures in a row as it takes, for any
\* agent whose executions are recorded one at a time and none of them while the
\* answer is put together, and whose run history no Start has set back since it last
\* succeeded (manager.go:190-216, executor.go:122-146, scheduler.go:132-134).
THEOREM OpenExplained == SummarySafe => []SummaryExplainsOpen
<1> DEFINE Inv == FailuresInARow /\ LoadedUnlessSetBack /\ UndisturbedStill
<1>1. SummaryInit => Inv
  <2> SUFFICES ASSUME SummaryInit PROVE Inv
    OBVIOUS
  <2>1. \A a \in Agents : AtRecords(a) = {} /\ Between(a) = {}
    BY DEF SummaryInit, Init, AtRecords, Between, Recording
  <2>2. \A a \in Agents : /\ failures[a] = 0 /\ state[a].consecutive = 0
                          /\ runs[a].consecutive = 0
    BY DEF SummaryInit, Init, BreakerInit, NoRuns
  <2>3. \A a \in Agents : state[a].consecutive <= runs[a].consecutive
    <3> TAKE a \in Agents
    <3>1. state[a].consecutive = 0 /\ runs[a].consecutive = 0
      BY <2>2
    <3> QED
      BY <3>1
  <2> QED
    BY <2>1, <2>2, <2>3
    DEF SummaryInit, FailuresInARow, LoadedUnlessSetBack, UndisturbedStill
<1>2. TypeOK /\ ReaderTypeOK /\ DeadlineIffThreshold /\ Inv /\ [SummaryNext]_allVars
        => Inv'
  <2> SUFFICES ASSUME TypeOK, ReaderTypeOK, DeadlineIffThreshold, Inv,
                      [SummaryNext]_allVars
               PROVE  Inv'
    OBVIOUS
  <2>1. CASE ReadSource
    <3>1. FailuresInARow' /\ LoadedUnlessSetBack'
      BY <2>1 DEF ReadSource, vars, breakerVars, callVars, recordVars, historyVars,
                  FailuresInARow, LoadedUnlessSetBack, AtRecords, Between
    <3> QED
      BY <2>1, <3>1, ReadingKeepsStill
  <2>2. CASE Executes(Next)
    BY <2>2, StepKeepsFailures, ExecutingKeepsLoaded, ExecutingKeepsStill
  <2>3. CASE SaveRuns \/ LoadRuns
    <3>1. UNCHANGED <<vars, summaryVars>>
      BY <2>3 DEF SaveRuns, LoadRuns
    <3>2. FailuresInARow' /\ UndisturbedStill'
      BY <3>1 DEF summaryVars, vars, breakerVars, callVars, recordVars,
                  FailuresInARow, UndisturbedStill, AtRecords, Between
    <3> QED
      BY <2>3, <3>2, LoadingKeepsLoaded
  <2>4. CASE UNCHANGED allVars
    BY <2>4 DEF allVars, summaryVars, vars, breakerVars, callVars, recordVars, historyVars,
                FailuresInARow, LoadedUnlessSetBack, UndisturbedStill, AtRecords, Between
  <2> QED
    BY <2>1, <2>2, <2>3, <2>4 DEF SummaryNext
<1>3. TypeOK /\ ReaderTypeOK /\ Inv => SummaryExplainsOpen
  <2> SUFFICES ASSUME TypeOK, ReaderTypeOK, Inv, Answered, NEW a \in Agents \ disturbed,
                      ShownOpen(a)
               PROVE  read.state[a].consecutive >= Threshold
    BY DEF SummaryExplainsOpen
  <2>1. part >= 5
    BY DEF Answered, Sources, ReaderTypeOK
  <2>2. /\ state[a].consecutive <= read.state[a].consecutive
        /\ state[a].consecutive >= Threshold
    BY <2>1 DEF ShownOpen, UndisturbedStill, ReaderTypeOK
  <2>3. /\ state[a].consecutive \in Nat /\ read.state[a].consecutive \in Nat
        /\ Threshold \in Nat
    BY BreakerAssumption DEF BreakerAssumption, TypeOK, ReaderTypeOK, Entries
  <2> QED
    BY <2>2, <2>3
<1> QED
  BY <1>1, <1>2, <1>3, ReaderTyped, ImplementsExecutor, ExecutionsTyped, BreakerSound,
     PTL DEF SummarySafe
=============================================================================
