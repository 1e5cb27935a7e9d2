--------------------------- MODULE Executor_proofs ---------------------------
(***************************************************************************)
(* Proofs about CircuitBreaker, ConcurrencyController and Executor, for    *)
(* any agents, finite set of calls, capacity, number of attempts,          *)
(* threshold and timeout.  Executions use the breaker and the slots only   *)
(* through their methods, so Executor implements both of their             *)
(* specifications and their theorems hold of it.                           *)
(*                                                                         *)
(* Of the breaker, BreakerTypeOK and DeadlineIffThreshold are inductive    *)
(* together; DeadlineInReach needs BreakerTypeOK alone.                    *)
(***************************************************************************)
EXTENDS Executor, FiniteSetTheorems, TLAPS

\* The breaker's variables keep their types: a success resets a count, it never
\* makes it negative (production.go:236-265).
THEOREM BreakerTyped == BreakerSpec => []BreakerTypeOK
<1> USE BreakerAssumption DEF BreakerAssumption
<1>1. BreakerInit => BreakerTypeOK
  BY DEF BreakerInit, BreakerTypeOK, NoEntry
<1>2. BreakerTypeOK /\ [BreakerNext]_breakerVars => BreakerTypeOK'
  <2> SUFFICES ASSUME BreakerTypeOK, [BreakerNext]_breakerVars PROVE BreakerTypeOK'
    OBVIOUS
  <2> USE DEF BreakerTypeOK, NoEntry
  <2>1. ASSUME NEW a \in Agents, IsOpen(a) PROVE BreakerTypeOK'
    BY <2>1 DEF IsOpen
  <2>2. ASSUME NEW a \in Agents, RecordSuccess(a) PROVE BreakerTypeOK'
    BY <2>2 DEF RecordSuccess
  <2>3. ASSUME NEW a \in Agents, RecordFailure(a) PROVE BreakerTypeOK'
    BY <2>3 DEF RecordFailure
  <2>4. CASE ClockTicks
    BY <2>4 DEF ClockTicks
  <2>5. CASE UNCHANGED breakerVars
    BY <2>5 DEF breakerVars
  <2> QED
    BY <2>1, <2>2, <2>3, <2>4, <2>5 DEF BreakerNext
<1> QED
  BY <1>1, <1>2, PTL DEF BreakerSpec

-----------------------------------------------------------------------------

\* Every method and the clock keep the two maps in agreement.  Executor, whose
\* steps are these, cites this.
LEMMA StepKeepsAgreement ==
  ASSUME BreakerTypeOK, DeadlineIffThreshold,
         \/ \E a \in Agents : IsOpen(a) \/ RecordSuccess(a) \/ RecordFailure(a)
         \/ ClockTicks
         \/ UNCHANGED breakerVars
  PROVE  DeadlineIffThreshold'
<1> USE BreakerAssumption DEF BreakerAssumption, BreakerTypeOK, DeadlineIffThreshold, HasEntry, NoEntry
<1>1. ASSUME NEW a \in Agents, IsOpen(a) PROVE DeadlineIffThreshold'
  BY <1>1 DEF IsOpen
<1>2. ASSUME NEW a \in Agents, RecordSuccess(a) PROVE DeadlineIffThreshold'
  BY <1>2 DEF RecordSuccess
<1>3. ASSUME NEW a \in Agents, RecordFailure(a) PROVE DeadlineIffThreshold'
  BY <1>3 DEF RecordFailure
<1>4. CASE ClockTicks
  BY <1>4 DEF ClockTicks
<1>5. CASE UNCHANGED breakerVars
  BY <1>5 DEF breakerVars
<1> QED
  BY <1>1, <1>2, <1>3, <1>4, <1>5

\* An agent has a deadline exactly when its failures have reached the threshold,
\* in every order of successes, failures and expiries (production.go:236-265).
THEOREM MapsAgree == BreakerSpec => []DeadlineIffThreshold
<1>1. BreakerInit => DeadlineIffThreshold
  <2> SUFFICES ASSUME BreakerInit, NEW a \in Agents
               PROVE  HasEntry(a) <=> failures[a] >= Threshold
    BY DEF DeadlineIffThreshold
  <2>1. failures[a] = 0 /\ openUntil[a] = NoEntry
    BY DEF BreakerInit
  <2> QED
    BY <2>1, BreakerAssumption DEF BreakerAssumption, HasEntry
<1>2. BreakerTypeOK /\ DeadlineIffThreshold /\ [BreakerNext]_breakerVars => DeadlineIffThreshold'
  BY StepKeepsAgreement DEF BreakerNext
<1> QED
  BY <1>1, <1>2, BreakerTyped, PTL DEF BreakerSpec

-----------------------------------------------------------------------------

\* However many late failures extend an open breaker, its deadline is at most
\* one timeout away (production.go:258-265).
THEOREM DeadlinesInReach == BreakerSpec => []DeadlineInReach
<1> USE BreakerAssumption DEF BreakerAssumption, BreakerTypeOK, DeadlineInReach, NoEntry
<1>1. BreakerInit => DeadlineInReach
  <2> SUFFICES ASSUME BreakerInit, NEW a \in Agents PROVE openUntil[a] <= now + OpenTimeout
    OBVIOUS
  <2>1. openUntil[a] = -1 /\ now = 0
    BY DEF BreakerInit
  <2> QED
    BY <2>1
<1>2. BreakerTypeOK /\ DeadlineInReach /\ [BreakerNext]_breakerVars => DeadlineInReach'
  <2> SUFFICES ASSUME BreakerTypeOK, DeadlineInReach, [BreakerNext]_breakerVars PROVE DeadlineInReach'
    OBVIOUS
  <2>1. ASSUME NEW a \in Agents, IsOpen(a) PROVE DeadlineInReach'
    BY <2>1 DEF IsOpen
  <2>2. ASSUME NEW a \in Agents, RecordSuccess(a) PROVE DeadlineInReach'
    BY <2>2 DEF RecordSuccess
  <2>3. ASSUME NEW a \in Agents, RecordFailure(a) PROVE DeadlineInReach'
    BY <2>3 DEF RecordFailure
  <2>4. CASE ClockTicks
    BY <2>4 DEF ClockTicks
  <2>5. CASE UNCHANGED breakerVars
    BY <2>5 DEF breakerVars
  <2> QED
    BY <2>1, <2>2, <2>3, <2>4, <2>5 DEF BreakerNext
<1> QED
  BY <1>1, <1>2, BreakerTyped, PTL DEF BreakerSpec

-----------------------------------------------------------------------------

\* While IsOpen would answer true, no step but a recorded success opens the way,
\* and a deadline never moves back (production.go:236-265).
THEOREM BlocksUntilDeadline == BreakerSpec => OpensHoldUntilDeadline
<1> USE BreakerAssumption DEF BreakerAssumption, BreakerTypeOK, DeadlineInReach, NoEntry, HasEntry
<1> DEFINE Holds(a) ==
      HasEntry(a) => \/ openUntil'[a] >= openUntil[a]
                     \/ now > openUntil[a]
                     \/ RecordSuccess(a)
<1>1. BreakerTypeOK /\ DeadlineInReach /\ [BreakerNext]_breakerVars => [\A a \in Agents : Holds(a)]_breakerVars
  <2> SUFFICES ASSUME BreakerTypeOK, DeadlineInReach, [BreakerNext]_breakerVars, NEW a \in Agents
               PROVE  Holds(a) \/ UNCHANGED breakerVars
    OBVIOUS
  <2>1. ASSUME NEW b \in Agents, IsOpen(b) PROVE Holds(a)
    BY <2>1 DEF IsOpen, Expired
  <2>2. ASSUME NEW b \in Agents, RecordSuccess(b) PROVE Holds(a)
    <3>1. CASE a = b
      BY <2>2, <3>1
    <3>2. CASE a # b
      BY <2>2, <3>2 DEF RecordSuccess
    <3> QED
      BY <3>1, <3>2
  <2>3. ASSUME NEW b \in Agents, RecordFailure(b) PROVE Holds(a)
    BY <2>3 DEF RecordFailure
  <2>4. ASSUME ClockTicks PROVE Holds(a)
    BY <2>4 DEF ClockTicks
  <2> QED
    BY <2>1, <2>2, <2>3, <2>4 DEF BreakerNext
<1> QED
  BY <1>1, BreakerTyped, DeadlinesInReach, PTL DEF BreakerSpec, OpensHoldUntilDeadline

-----------------------------------------------------------------------------

LEMMA HoldersFinite == IsFiniteSet(Holders)
BY ControllerAssumption, FS_Subset DEF ControllerAssumption, Holders

\* What a step of one call does to the set of calls that hold a slot.
LEMMA HoldersChange ==
  ASSUME SlotTypeOK, NEW c \in Calls
  PROVE  /\ Acquire(c) => c \notin Holders /\ Holders' = Holders \cup {c}
         /\ Release(c) => c \in Holders /\ Holders' = Holders \ {c}
         /\ Enter(c) \/ GiveUp(c) \/ List(c) \/ Unlist(c) => Holders' = Holders
<1> USE DEF SlotTypeOK, Holders, Move
<1>1. Acquire(c) => c \notin Holders /\ Holders' = Holders \cup {c}
  BY DEF Acquire
<1>2. Release(c) => c \in Holders /\ Holders' = Holders \ {c}
  BY DEF Release
<1>3. Enter(c) \/ GiveUp(c) \/ List(c) \/ Unlist(c) => Holders' = Holders
  BY DEF Enter, GiveUp, List, Unlist
<1> QED
  BY <1>1, <1>2, <1>3

\* The types and the account of the slots are inductive together: that a release
\* leaves a natural number of tokens is due to its own token being among them.
Accounted == SlotTypeOK /\ SlotsAccounted

LEMMA StepKeepsAccount ==
  ASSUME Accounted, NEW c \in Calls, SlotStep(c)
  PROVE  Accounted'
<1> USE ControllerAssumption DEF ControllerAssumption, Accounted, SlotsAccounted
<1>0. Cardinality(Holders) \in Nat
  BY HoldersFinite, FS_CardinalityType
<1>1. CASE Acquire(c)
  <2>1. Holders' = Holders \cup {c} /\ c \notin Holders
    BY <1>1, HoldersChange
  <2>2. Cardinality(Holders') = Cardinality(Holders) + 1
    BY <2>1, HoldersFinite, FS_AddElement
  <2>3. SlotsAccounted'
    BY <1>0, <1>1, <2>2 DEF Acquire, SlotTypeOK
  <2>4. SlotTypeOK'
    BY <1>1 DEF Acquire, Move, SlotTypeOK, SlotStates
  <2> QED
    BY <2>3, <2>4
<1>2. CASE Release(c)
  <2>1. Holders' = Holders \ {c} /\ c \in Holders
    BY <1>2, HoldersChange
  <2>2. Cardinality(Holders') = Cardinality(Holders) - 1
    BY <2>1, HoldersFinite, FS_RemoveElement
  <2>3. IsFiniteSet(Holders')
    BY <2>1, HoldersFinite, FS_RemoveElement
  <2>4. Cardinality(Holders') \in Nat
    BY <2>3, FS_CardinalityType
  <2>5. agentCh' = Cardinality(Holders')
    BY <1>2, <2>2 DEF Release
  <2>6. agentCh' \in Nat /\ agentCh' <= MaxAgents
    BY <1>0, <1>2, <2>4, <2>5 DEF Release, SlotTypeOK
  <2>7. SlotTypeOK'
    BY <1>2, <2>6 DEF Release, Move, SlotTypeOK, SlotStates
  <2> QED
    BY <2>5, <2>6, <2>7
<1>3. CASE Enter(c) \/ GiveUp(c) \/ List(c) \/ Unlist(c)
  <2>1. Holders' = Holders
    BY <1>3, HoldersChange
  <2>2. agentCh' = agentCh
    BY <1>3 DEF Enter, GiveUp, List, Unlist
  <2>3. SlotTypeOK'
    BY <1>3 DEF Enter, GiveUp, List, Unlist, Move, SlotTypeOK, SlotStates
  <2> QED
    BY <2>1, <2>2, <2>3
<1> QED
  BY <1>1, <1>2, <1>3 DEF SlotStep

LEMMA StutterKeepsAccount == Accounted /\ UNCHANGED slotVars => Accounted'
BY DEF Accounted, SlotsAccounted, SlotTypeOK, Holders, slotVars

LEMMA InitAccounted == SlotInit => Accounted
<1> SUFFICES ASSUME SlotInit PROVE Accounted
  OBVIOUS
<1>1. SlotTypeOK
  BY DEF SlotInit, SlotTypeOK, SlotStates
<1>2. Holders = {}
  BY DEF SlotInit, Holders
<1>3. SlotsAccounted
  BY <1>2, FS_EmptySet, ControllerAssumption
  DEF SlotInit, SlotsAccounted, ControllerAssumption
<1> QED
  BY <1>1, <1>3 DEF Accounted

\* Whatever calls do, the channel, the active names and the calls keep their types and
\* there are as many tokens in the channel as calls that hold one (production.go:116-151).
THEOREM AlwaysAccounted == SlotSpec => []Accounted
<1>1. Accounted /\ [SlotNext]_slotVars => Accounted'
  BY StepKeepsAccount, StutterKeepsAccount DEF SlotNext
<1> QED
  BY <1>1, InitAccounted, PTL DEF SlotSpec

\* No path through WithAgentSlot leaks a slot or returns one twice, so at most
\* MaxAgents calls hold one (production.go:115-134).
THEOREM SlotsNeverLeak == SlotSpec => []SlotsAccounted
<1>1. Accounted => SlotsAccounted
  BY DEF Accounted
<1> QED
  BY <1>1, AlwaysAccounted, PTL

-----------------------------------------------------------------------------

LEMMA StepShowsNoGhosts ==
  ASSUME SlotTypeOK, NoGhostAgents, NEW c \in Calls, SlotStep(c)
  PROVE  NoGhostAgents'
<1> USE DEF SlotTypeOK, Running, Move
<1>1. \A d \in Running : d # c => d \in Running'
  BY DEF SlotStep, Enter, Acquire, GiveUp, List, Unlist, Release
<1>2. CASE c \notin Running
  <2>1. activeAgents' \subseteq activeAgents \cup {AgentOf[c]}
    BY <1>2 DEF SlotStep, Enter, Acquire, GiveUp, List, Unlist, Release
  <2>2. activeAgents' # activeAgents => c \in Running'
    BY <1>2 DEF SlotStep, Enter, Acquire, GiveUp, List, Unlist, Release
  <2> QED
    BY <1>1, <1>2, <2>1, <2>2 DEF NoGhostAgents
<1>3. CASE c \in Running
  <2>1. activeAgents' = activeAgents \ {AgentOf[c]}
    BY <1>3 DEF SlotStep, Enter, Acquire, GiveUp, List, Unlist, Release
  <2> QED
    BY <1>1, <2>1 DEF NoGhostAgents
<1> QED
  BY <1>2, <1>3

\* A name on /health is that of an agent at work: the deferred delete runs before
\* the slot is given back (production.go:122-132).
THEOREM NamesAreOfRunningAgents == SlotSpec => []NoGhostAgents
<1>1. SlotInit => NoGhostAgents
  BY DEF SlotInit, NoGhostAgents
<1>2. SlotTypeOK /\ NoGhostAgents /\ [SlotNext]_slotVars => NoGhostAgents'
  <2>1. NoGhostAgents /\ UNCHANGED slotVars => NoGhostAgents'
    BY DEF NoGhostAgents, Running, slotVars
  <2> QED
    BY <2>1, StepShowsNoGhosts DEF SlotNext
<1>3. Accounted => SlotTypeOK
  BY DEF Accounted
<1> QED
  BY <1>1, <1>2, <1>3, AlwaysAccounted, PTL DEF SlotSpec

-----------------------------------------------------------------------------

LEMMA CallsHaveAgents ==
  ASSUME NEW c \in Calls PROVE AgentOf[c] \in Agents
BY ExecutorAssumption DEF ExecutorAssumption

\* Every step of an execution is a call of a method of the breaker, a tick of
\* the clock or none of the breaker's business (executor.go:53, 123, 137).
THEOREM ImplementsBreaker == SafeSpec => BreakerSpec
<1>1. Init => BreakerInit
  BY DEF Init
<1>2. [Next]_vars => [BreakerNext]_breakerVars
  <2> SUFFICES ASSUME [Next]_vars PROVE [BreakerNext]_breakerVars
    OBVIOUS
  <2>1. ASSUME NEW c \in Calls, Begin(c) PROVE [BreakerNext]_breakerVars
    BY <2>1, CallsHaveAgents DEF Begin, BreakerNext
  <2>2. ASSUME NEW c \in Calls, RecordCircuit(c) PROVE [BreakerNext]_breakerVars
    BY <2>2, CallsHaveAgents DEF RecordCircuit, BreakerNext
  <2>3. ASSUME NEW c \in Calls, Proceed(c), ~RecordCircuit(c)
        PROVE  UNCHANGED breakerVars
    BY <2>3 DEF Proceed, AskSlot, GetSlot, LoseSlot, StartAgent, Reply, LeaveSlot,
       BackoffEnds, BackoffCancelled, RecordMetrics, RecordState, RecordOps
  <2>4. ASSUME NEW c \in Calls, Cancel(c) PROVE UNCHANGED breakerVars
    BY <2>4 DEF Cancel
  <2>5. CASE Tick
    BY <2>5 DEF Tick, BreakerNext
  <2>6. CASE UNCHANGED vars
    BY <2>6 DEF vars
  <2> QED
    BY <2>1, <2>2, <2>3, <2>4, <2>5, <2>6 DEF Next
<1> QED
  BY <1>1, <1>2, PTL DEF SafeSpec, BreakerSpec

\* Every step of an execution is a step of its call of WithAgentSlot or leaves
\* the slots alone (executor.go:79-115).
THEOREM ImplementsSlots == SafeSpec => SlotSpec
<1>1. Init => SlotInit
  BY DEF Init
<1>2. [Next]_vars => [SlotNext]_slotVars
  <2> SUFFICES ASSUME [Next]_vars PROVE [SlotNext]_slotVars
    OBVIOUS
  <2>1. ASSUME NEW c \in Calls, Proceed(c) PROVE SlotStep(c) \/ UNCHANGED slotVars
    BY <2>1 DEF Proceed, AskSlot, GetSlot, LoseSlot, StartAgent, Reply, LeaveSlot,
       BackoffEnds, BackoffCancelled, RecordCircuit, RecordMetrics, RecordState,
       RecordOps, SlotStep
  <2>2. ASSUME NEW c \in Calls, Begin(c) \/ Cancel(c) PROVE UNCHANGED slotVars
    BY <2>2 DEF Begin, Cancel
  <2>3. CASE Tick \/ UNCHANGED vars
    BY <2>3 DEF Tick, vars
  <2> QED
    BY <2>1, <2>2, <2>3 DEF Next, SlotNext
<1> QED
  BY <1>1, <1>2, PTL DEF SafeSpec, SlotSpec

\* The breaker's maps agree and no deadline is out of reach, however executions
\* overlap, fail, retry and are cancelled.
THEOREM BreakerSound == SafeSpec => []DeadlineIffThreshold /\ []DeadlineInReach
BY ImplementsBreaker, MapsAgree, DeadlinesInReach, PTL

\* Executions never leak a slot or return one twice.
THEOREM SlotsSound == SafeSpec => []SlotsAccounted
BY ImplementsSlots, SlotsNeverLeak, PTL

-----------------------------------------------------------------------------

\* The types of Executor's own variables; those of the other two come from the
\* specifications it implements.
OwnTypes ==
  /\ pc \in [Calls -> Locations]
  /\ attempt \in [Calls -> 0..MaxAttempts - 1]
  /\ attemptErr \in [Calls -> {"none"} \cup Errors]
  /\ execErr \in [Calls -> BOOLEAN]
  /\ cancelled \in SUBSET Calls
  /\ preOpen \in SUBSET Calls
  /\ metrics \in [Agents -> [ok : Nat, failed : Nat]]
  /\ state \in [Agents -> [runs : Nat, failed : Nat, consecutive : Nat]]
  /\ ops \in [Agents -> [ok : Nat, failed : Nat]]

LEMMA EndAttemptKeepsTypes ==
  ASSUME OwnTypes, NEW c \in Calls, NEW err \in {"none"} \cup Errors,
         EndAttempt(c, err)
  PROVE  /\ pc' \in [Calls -> Locations]
         /\ attempt' \in [Calls -> 0..MaxAttempts - 1]
         /\ attemptErr' \in [Calls -> {"none"} \cup Errors]
         /\ execErr' \in [Calls -> BOOLEAN]
<1> USE ExecutorAssumption DEF ExecutorAssumption, OwnTypes
<1>1. pc' \in [Calls -> Locations]
  BY DEF EndAttempt, Goto, Locations, Recording
<1>2. attempt' \in [Calls -> 0..MaxAttempts - 1]
  BY DEF EndAttempt
<1>3. attemptErr' \in [Calls -> {"none"} \cup Errors]
  BY DEF EndAttempt
<1>4. execErr' \in [Calls -> BOOLEAN]
  BY DEF EndAttempt
<1> QED
  BY <1>1, <1>2, <1>3, <1>4

LEMMA CountKeepsType ==
  ASSUME OwnTypes, NEW c \in Calls, NEW tally \in [Agents -> [ok : Nat, failed : Nat]]
  PROVE  Count(tally, c) \in [Agents -> [ok : Nat, failed : Nat]]
BY CallsHaveAgents DEF Count, OwnTypes

LEMMA ProceedKeepsTypes ==
  ASSUME OwnTypes, NEW c \in Calls, Proceed(c)
  PROVE  OwnTypes'
<1> USE DEF OwnTypes, Goto, Locations, Recording
<1>1. CASE AskSlot(c) \/ GetSlot(c) \/ StartAgent(c)
  BY <1>1 DEF AskSlot, GetSlot, StartAgent, callVars, recordVars
<1>2. CASE LoseSlot(c)
  BY <1>2, EndAttemptKeepsTypes DEF LoseSlot, Errors, recordVars
<1>3. ASSUME NEW err \in {"none"} \cup Errors, Reply(c, err) PROVE OwnTypes'
  BY <1>3 DEF Reply, recordVars
<1>4. CASE LeaveSlot(c)
  BY <1>4, EndAttemptKeepsTypes DEF LeaveSlot, recordVars
<1>5. CASE BackoffEnds(c) \/ BackoffCancelled(c)
  BY <1>5 DEF BackoffEnds, BackoffCancelled, Returned, recordVars
<1>6. CASE RecordCircuit(c)
  BY <1>6 DEF RecordCircuit, UnderWay, recordVars
<1>7. CASE RecordMetrics(c)
  BY <1>7, CountKeepsType DEF RecordMetrics
<1>8. CASE RecordState(c)
  BY <1>8, CallsHaveAgents DEF RecordState, Updated
<1>9. CASE RecordOps(c)
  BY <1>9, CountKeepsType DEF RecordOps, Returned
<1> QED
  BY <1>1, <1>2, <1>3, <1>4, <1>5, <1>6, <1>7, <1>8, <1>9 DEF Proceed

LEMMA StepKeepsTypes == OwnTypes /\ [Next]_vars => OwnTypes'
<1> SUFFICES ASSUME OwnTypes, [Next]_vars PROVE OwnTypes'
  OBVIOUS
<1>1. ASSUME NEW c \in Calls, Begin(c) PROVE OwnTypes'
  BY <1>1 DEF OwnTypes, Begin, Goto, Locations, Returned, recordVars
<1>2. ASSUME NEW c \in Calls, Cancel(c) PROVE OwnTypes'
  BY <1>2, ExecutorAssumption
  DEF ExecutorAssumption, OwnTypes, Cancel, callVars, recordVars
<1>3. CASE Tick \/ UNCHANGED vars
  BY <1>3 DEF OwnTypes, Tick, vars, callVars, recordVars
<1> QED
  BY <1>1, <1>2, <1>3, ProceedKeepsTypes DEF Next

LEMMA TypedFromStart == Init => OwnTypes
BY ExecutorAssumption DEF ExecutorAssumption, Init, OwnTypes, Locations

\* Whatever executions overlap, every variable keeps its type; above all no
\* counter of slots or failures goes below zero (executor.go:24-149).
THEOREM ExecutionsTyped == SafeSpec => []TypeOK
<1>1. Accounted => SlotTypeOK
  BY DEF Accounted
<1>2. OwnTypes /\ BreakerTypeOK /\ SlotTypeOK => TypeOK
  BY DEF OwnTypes, TypeOK
<1> QED
  BY <1>1, <1>2, TypedFromStart, StepKeepsTypes, ImplementsBreaker, BreakerTyped,
     ImplementsSlots, AlwaysAccounted, PTL DEF SafeSpec

-----------------------------------------------------------------------------

LEMMA StepConfinesSlots ==
  OwnTypes /\ SlotTypeOK /\ SlotsOnlyWhileAttempting /\ [Next]_vars
    => SlotsOnlyWhileAttempting'
<1> SUFFICES ASSUME OwnTypes, SlotTypeOK, SlotsOnlyWhileAttempting, [Next]_vars
             PROVE  SlotsOnlyWhileAttempting'
  OBVIOUS
<1> USE DEF OwnTypes, SlotTypeOK, SlotsOnlyWhileAttempting, Goto, Move
<1>1. ASSUME NEW c \in Calls, Begin(c) PROVE SlotsOnlyWhileAttempting'
  BY <1>1 DEF Begin, slotVars
<1>2. ASSUME NEW c \in Calls, Cancel(c) PROVE SlotsOnlyWhileAttempting'
  BY <1>2 DEF Cancel, slotVars, callVars
<1>3. CASE Tick \/ UNCHANGED vars
  BY <1>3 DEF Tick, vars, slotVars, callVars
<1>4. ASSUME NEW c \in Calls, AskSlot(c) PROVE SlotsOnlyWhileAttempting'
  BY <1>4 DEF AskSlot, Enter, callVars
<1>5. ASSUME NEW c \in Calls, LoseSlot(c) \/ LeaveSlot(c)
      PROVE  SlotsOnlyWhileAttempting'
  BY <1>5 DEF LoseSlot, LeaveSlot, GiveUp, Release, EndAttempt
<1>6. ASSUME NEW c \in Calls, GetSlot(c) \/ StartAgent(c)
      PROVE  SlotsOnlyWhileAttempting'
  BY <1>6 DEF GetSlot, StartAgent, Acquire, List, callVars
<1>7. ASSUME NEW c \in Calls, NEW err, Reply(c, err) PROVE SlotsOnlyWhileAttempting'
  BY <1>7 DEF Reply, Unlist
<1>8. ASSUME NEW c \in Calls, BackoffEnds(c) \/ BackoffCancelled(c)
      PROVE  SlotsOnlyWhileAttempting'
  BY <1>8 DEF BackoffEnds, BackoffCancelled, slotVars
<1>9. ASSUME NEW c \in Calls,
             RecordCircuit(c) \/ RecordMetrics(c) \/ RecordState(c) \/ RecordOps(c)
      PROVE  SlotsOnlyWhileAttempting'
  BY <1>9 DEF RecordCircuit, RecordMetrics, RecordState, RecordOps, slotVars
<1> QED
  BY <1>1, <1>2, <1>3, <1>4, <1>5, <1>6, <1>7, <1>8, <1>9 DEF Next, Proceed

\* No execution holds or waits for a slot outside its attempts: not in a backoff,
\* not after it was cancelled, refused or recorded (executor.go:70-115).
THEOREM SlotsConfined == SafeSpec => []SlotsOnlyWhileAttempting
<1>1. Init => SlotsOnlyWhileAttempting
  BY DEF Init, SlotInit, SlotsOnlyWhileAttempting
<1>2. TypeOK => OwnTypes /\ SlotTypeOK
  BY DEF TypeOK, OwnTypes
<1> QED
  BY <1>1, <1>2, StepConfinesSlots, ExecutionsTyped, PTL DEF SafeSpec

-----------------------------------------------------------------------------

\* OpenShutsOut is not inductive: while an expired deadline still stands, a late
\* failure makes the breaker block again.  What holds is that whoever is under
\* way while there is a deadline at all was so when it was set, since the check
\* of a newcomer removes a deadline that has expired.
DeadlineShutsOut ==
  \A a \in Agents : HasEntry(a) => UnderWay(a) \subseteq preOpen

\* No step but RecordCircuit and Begin changes a deadline or adds a call to those
\* under way.
LEMMA OthersLeaveDeadlines ==
  ASSUME OwnTypes, [Next]_vars,
         \A c \in Calls : ~Begin(c) /\ ~RecordCircuit(c)
  PROVE  /\ openUntil' = openUntil /\ preOpen' = preOpen
         /\ \A a \in Agents : UnderWay(a)' \subseteq UnderWay(a)
<1> USE DEF OwnTypes, UnderWay, Goto
<1> DEFINE Kept == /\ openUntil' = openUntil /\ preOpen' = preOpen
                   /\ \A a \in Agents : UnderWay(a)' \subseteq UnderWay(a)
<1>1. ASSUME NEW c \in Calls, AskSlot(c) \/ GetSlot(c) \/ StartAgent(c) PROVE Kept
  BY <1>1 DEF AskSlot, GetSlot, StartAgent, callVars, breakerVars
<1>2. ASSUME NEW c \in Calls, LoseSlot(c) \/ LeaveSlot(c) PROVE Kept
  BY <1>2 DEF LoseSlot, LeaveSlot, EndAttempt, breakerVars
<1>3. ASSUME NEW c \in Calls, NEW err, Reply(c, err) PROVE Kept
  BY <1>3 DEF Reply, breakerVars
<1>4. ASSUME NEW c \in Calls, BackoffEnds(c) \/ BackoffCancelled(c) PROVE Kept
  BY <1>4 DEF BackoffEnds, BackoffCancelled, breakerVars
<1>5. ASSUME NEW c \in Calls, RecordMetrics(c) \/ RecordState(c) \/ RecordOps(c)
      PROVE  Kept
  BY <1>5 DEF RecordMetrics, RecordState, RecordOps, breakerVars
<1>6. ASSUME NEW c \in Calls, Cancel(c) PROVE Kept
  BY <1>6 DEF Cancel, callVars, breakerVars
<1>7. CASE Tick \/ UNCHANGED vars
  BY <1>7 DEF Tick, ClockTicks, vars, callVars, breakerVars
<1> QED
  BY <1>1, <1>2, <1>3, <1>4, <1>5, <1>6, <1>7 DEF Next, Proceed

LEMMA BeginShutsOut ==
  ASSUME OwnTypes, BreakerTypeOK, DeadlineShutsOut, NEW c \in Calls, Begin(c)
  PROVE  DeadlineShutsOut'
<1> USE CallsHaveAgents
    DEF OwnTypes, BreakerTypeOK, DeadlineShutsOut, UnderWay, HasEntry, NoEntry, Goto
<1>1. CASE AgentOf[c] \notin Registered
  BY <1>1 DEF Begin, breakerVars
<1>2. CASE AgentOf[c] \in Registered /\ Blocks(AgentOf[c])
  BY <1>2 DEF Begin, IsOpen, Blocks, Expired
<1>3. CASE AgentOf[c] \in Registered /\ ~Blocks(AgentOf[c])
  <2>1. ~HasEntry(AgentOf[c])'
    BY <1>3 DEF Begin, IsOpen, Blocks, Expired
  <2>2. ASSUME NEW a \in Agents, a # AgentOf[c]
        PROVE  HasEntry(a)' = HasEntry(a) /\ UnderWay(a)' = UnderWay(a)
    BY <1>3, <2>2 DEF Begin, IsOpen
  <2>3. preOpen' = preOpen
    BY <1>3 DEF Begin
  <2> QED
    BY <2>1, <2>2, <2>3
<1> QED
  BY <1>1, <1>2, <1>3

LEMMA RecordShutsOut ==
  ASSUME OwnTypes, BreakerTypeOK, DeadlineShutsOut, NEW c \in Calls, RecordCircuit(c)
  PROVE  DeadlineShutsOut'
<1>1. ASSUME NEW a \in Agents PROVE UnderWay(a)' \subseteq UnderWay(a)
  BY DEF OwnTypes, UnderWay, RecordCircuit, Goto
<1>2. ASSUME NEW a \in Agents, a # AgentOf[c] PROVE HasEntry(a)' = HasEntry(a)
  BY <1>2 DEF BreakerTypeOK, RecordCircuit, RecordSuccess, RecordFailure, HasEntry
<1>3. preOpen \subseteq preOpen'
  BY DEF RecordCircuit
<1>4. HasEntry(AgentOf[c])' /\ ~HasEntry(AgentOf[c])
        => UnderWay(AgentOf[c]) \subseteq preOpen'
  BY DEF RecordCircuit, HasEntry
<1> QED
  BY <1>1, <1>2, <1>3, <1>4, CallsHaveAgents DEF DeadlineShutsOut

LEMMA StepShutsOut ==
  OwnTypes /\ BreakerTypeOK /\ DeadlineShutsOut /\ [Next]_vars => DeadlineShutsOut'
<1> SUFFICES ASSUME OwnTypes, BreakerTypeOK, DeadlineShutsOut, [Next]_vars,
                    \A c \in Calls : ~Begin(c) /\ ~RecordCircuit(c)
             PROVE  DeadlineShutsOut'
  BY BeginShutsOut, RecordShutsOut
<1> QED
  BY OthersLeaveDeadlines DEF DeadlineShutsOut, HasEntry

\* An execution past the circuit check asked the breaker before any deadline that
\* stands was set, expired ones included (executor.go:53, production.go:228-271).
THEOREM DeadlinesShutOut == SafeSpec => []DeadlineShutsOut
<1>1. Init => DeadlineShutsOut
  BY DEF Init, BreakerInit, DeadlineShutsOut, HasEntry
<1>2. TypeOK => OwnTypes /\ BreakerTypeOK
  BY DEF TypeOK, OwnTypes
<1> QED
  BY <1>1, <1>2, StepShutsOut, ExecutionsTyped, PTL DEF SafeSpec

\* While an agent's breaker blocks, nothing of that agent is past the check that
\* was not so when the breaker opened (executor.go:53-55, 123, 137).
THEOREM OpenKeepsOut == SafeSpec => []OpenShutsOut
<1>1. DeadlineShutsOut => OpenShutsOut
  BY DEF DeadlineShutsOut, OpenShutsOut, Blocks
<1> QED
  BY <1>1, DeadlinesShutOut, PTL

\* Only the success of a call that was under way when the breaker opened closes it
\* before its time (executor.go:137, production.go:251-256).
THEOREM ClosedByLateAnswersOnly == SafeSpec => ClosedEarlyOnlyByLateAnswer
<1>1. ASSUME OwnTypes, BreakerTypeOK, DeadlineShutsOut, [Next]_vars,
             NEW a \in Agents, Blocks(a), openUntil'[a] = NoEntry
      PROVE  \E c \in preOpen :
               AgentOf[c] = a /\ pc[c] = "recCircuit" /\ ~execErr[c]
  <2>1. HasEntry(a) /\ ~Expired(a) /\ openUntil[a] # NoEntry
    BY <1>1 DEF Blocks, HasEntry
  <2>2. ASSUME NEW c \in Calls, Begin(c) PROVE FALSE
    BY <1>1, <2>1, <2>2, CallsHaveAgents
    DEF Begin, IsOpen, BreakerTypeOK, breakerVars
  <2>3. PICK c \in Calls : RecordCircuit(c)
    BY <1>1, <2>1, <2>2, OthersLeaveDeadlines
  <2>4. AgentOf[c] = a /\ ~execErr[c]
    BY <1>1, <2>1, <2>3, BreakerAssumption, CallsHaveAgents
    DEF RecordCircuit, RecordSuccess, RecordFailure, BreakerTypeOK, NoEntry,
        BreakerAssumption
  <2>5. c \in UnderWay(a) /\ pc[c] = "recCircuit"
    BY <2>3, <2>4 DEF RecordCircuit, Goto, UnderWay
  <2> QED
    BY <1>1, <2>1, <2>4, <2>5 DEF DeadlineShutsOut
<1>2. OwnTypes /\ BreakerTypeOK /\ DeadlineShutsOut /\ [Next]_vars
        => [\A a \in Agents :
              Blocks(a) /\ openUntil'[a] = NoEntry
                => \E c \in preOpen : /\ AgentOf[c] = a
                                      /\ pc[c] = "recCircuit" /\ ~execErr[c]]_vars
  BY <1>1
<1>3. TypeOK => OwnTypes /\ BreakerTypeOK
  BY DEF TypeOK, OwnTypes
<1> QED
  BY <1>2, <1>3, ExecutionsTyped, DeadlinesShutOut, PTL
  DEF SafeSpec, ClosedEarlyOnlyByLateAnswer

-----------------------------------------------------------------------------

\* One more member of a finite set counts one more.
LEMMA OneMore ==
  ASSUME NEW S \in SUBSET Calls, NEW c \in Calls, c \notin S
  PROVE  /\ Cardinality(S) \in Nat
         /\ Cardinality(S \cup {c}) = Cardinality(S) + 1
BY ControllerAssumption, FS_Subset, FS_CardinalityType, FS_AddElement
DEF ControllerAssumption

\* What the outcome of a call is does not change once it has left its attempts,
\* so that a step that records nothing leaves all three sets and counts alone.
LEMMA OthersLeaveRecords ==
  ASSUME OwnTypes, [Next]_vars,
         \A c \in Calls : ~RecordMetrics(c) /\ ~RecordState(c) /\ ~RecordOps(c)
  PROVE  /\ metrics' = metrics /\ state' = state /\ ops' = ops
         /\ \A a \in Agents :
              /\ (Measured(a) \ Failures)' = Measured(a) \ Failures
              /\ (Measured(a) \cap Failures)' = Measured(a) \cap Failures
              /\ Stored(a)' = Stored(a)
              /\ (Stored(a) \cap Failures)' = Stored(a) \cap Failures
              /\ (Logged(a) \ Failures)' = Logged(a) \ Failures
              /\ (Logged(a) \cap Failures)' = Logged(a) \cap Failures
<1> DEFINE Kept ==
      /\ metrics' = metrics /\ state' = state /\ ops' = ops
      /\ \A c \in Calls :
           \/ pc'[c] = pc[c] /\ execErr'[c] = execErr[c]
           \/ /\ pc[c] \notin {"recState", "recOps", "done"}
              /\ pc'[c] \notin {"recState", "recOps", "done"}
<1> USE DEF OwnTypes, Goto, recordVars
<1>1. ASSUME NEW c \in Calls, AskSlot(c) \/ GetSlot(c) \/ StartAgent(c) PROVE Kept
  BY <1>1 DEF AskSlot, GetSlot, StartAgent, callVars
<1>2. ASSUME NEW c \in Calls, LoseSlot(c) \/ LeaveSlot(c) PROVE Kept
  BY <1>2 DEF LoseSlot, LeaveSlot, EndAttempt
<1>3. ASSUME NEW c \in Calls, NEW err, Reply(c, err) PROVE Kept
  BY <1>3 DEF Reply
<1>4. ASSUME NEW c \in Calls, BackoffEnds(c) \/ BackoffCancelled(c) PROVE Kept
  BY <1>4 DEF BackoffEnds, BackoffCancelled
<1>5. ASSUME NEW c \in Calls, Begin(c) \/ RecordCircuit(c) PROVE Kept
  BY <1>5 DEF Begin, RecordCircuit
<1>6. ASSUME NEW c \in Calls, Cancel(c) PROVE Kept
  BY <1>6 DEF Cancel, callVars
<1>7. ASSUME UNCHANGED <<callVars, recordVars>> PROVE Kept
  BY <1>7 DEF callVars
<1>8. ASSUME Tick \/ UNCHANGED vars PROVE Kept
  BY <1>7, <1>8 DEF Tick, vars
<1> HIDE DEF Kept
<1>9. Kept
  BY <1>1, <1>2, <1>3, <1>4, <1>5, <1>6, <1>8 DEF Next, Proceed
<1> QED
  BY <1>9 DEF Kept, Measured, Stored, Logged, At, Failures

\* A record that counts call c adds it to the set of what it has counted, and to
\* the failures among them or to the others.
LEMMA SetsGainOne ==
  ASSUME NEW S \in SUBSET Calls, NEW c \in Calls, c \notin S, NEW F \in SUBSET Calls
  PROVE  /\ Cardinality(S \cup {c}) = Cardinality(S) + 1
         /\ c \in F => /\ Cardinality((S \cup {c}) \cap F) = Cardinality(S \cap F) + 1
                       /\ (S \cup {c}) \ F = S \ F
         /\ c \notin F => /\ Cardinality((S \cup {c}) \ F) = Cardinality(S \ F) + 1
                          /\ (S \cup {c}) \cap F = S \cap F
<1>1. Cardinality(S \cup {c}) = Cardinality(S) + 1
  BY OneMore
<1>2. ASSUME c \in F
      PROVE  /\ Cardinality((S \cup {c}) \cap F) = Cardinality(S \cap F) + 1
             /\ (S \cup {c}) \ F = S \ F
  <2>1. (S \cup {c}) \cap F = (S \cap F) \cup {c} /\ c \notin S \cap F
    BY <1>2
  <2>2. Cardinality((S \cap F) \cup {c}) = Cardinality(S \cap F) + 1
    BY <2>1, OneMore
  <2> QED
    BY <1>2, <2>1, <2>2
<1>3. ASSUME c \notin F
      PROVE  /\ Cardinality((S \cup {c}) \ F) = Cardinality(S \ F) + 1
             /\ (S \cup {c}) \cap F = S \cap F
  <2>1. (S \cup {c}) \ F = (S \ F) \cup {c} /\ c \notin S \ F
    BY <1>3
  <2>2. Cardinality((S \ F) \cup {c}) = Cardinality(S \ F) + 1
    BY <2>1, OneMore
  <2> QED
    BY <1>3, <2>1, <2>2
<1> QED
  BY <1>1, <1>2, <1>3

LEMMA MetricsKeepAgreement ==
  ASSUME OwnTypes, RecordsAgree, NEW c \in Calls, RecordMetrics(c)
  PROVE  RecordsAgree'
<1> USE DEF OwnTypes, Goto, RecordsAgree
<1>1. /\ pc[c] = "recMetrics" /\ pc' = [pc EXCEPT ![c] = "recState"]
      /\ UNCHANGED <<execErr, state, ops>> /\ Failures' = Failures
  BY DEF RecordMetrics, Failures
<1>2. ASSUME NEW a \in Agents PROVE StateAgrees(a)' /\ OpsAgree(a)'
  <2>1. Stored(a)' = Stored(a) /\ Logged(a)' = Logged(a)
    BY <1>1 DEF Stored, Logged, At
  <2>2. StateAgrees(a) /\ OpsAgree(a)
    OBVIOUS
  <2> QED
    BY <1>1, <2>1, <2>2 DEF StateAgrees, OpsAgree
<1>3. ASSUME NEW a \in Agents, a # AgentOf[c] PROVE MetricsAgree(a)'
  <2>1. Measured(a)' = Measured(a) /\ metrics'[a] = metrics[a]
    BY <1>1, <1>3 DEF RecordMetrics, Measured, At, Count
  <2>2. MetricsAgree(a)
    BY <1>3
  <2> QED
    BY <1>1, <2>1, <2>2 DEF MetricsAgree
<1>4. MetricsAgree(AgentOf[c])'
  <2> DEFINE S == Measured(AgentOf[c])
  <2>1. S' = S \cup {c} /\ c \notin S /\ S \in SUBSET Calls /\ Failures \in SUBSET Calls
    BY <1>1 DEF Measured, At, Failures
  <2>2. MetricsAgree(AgentOf[c])
    BY CallsHaveAgents
  <2> HIDE DEF S
  <2>3. /\ Cardinality(S \cup {c}) = Cardinality(S) + 1
        /\ c \in Failures =>
             /\ Cardinality((S \cup {c}) \cap Failures) = Cardinality(S \cap Failures) + 1
             /\ (S \cup {c}) \ Failures = S \ Failures
        /\ c \notin Failures =>
             /\ Cardinality((S \cup {c}) \ Failures) = Cardinality(S \ Failures) + 1
             /\ (S \cup {c}) \cap Failures = S \cap Failures
    BY <2>1, SetsGainOne
  <2>4. CASE c \in Failures
    <3>1. /\ metrics'[AgentOf[c]].failed = metrics[AgentOf[c]].failed + 1
          /\ metrics'[AgentOf[c]].ok = metrics[AgentOf[c]].ok
      BY <2>4, CallsHaveAgents DEF RecordMetrics, Count, Failures
    <3>2. /\ Cardinality(S' \ Failures') = Cardinality(S \ Failures)
          /\ Cardinality(S' \cap Failures') = Cardinality(S \cap Failures) + 1
      BY <1>1, <2>1, <2>3, <2>4
    <3> QED
      BY <2>2, <3>1, <3>2 DEF MetricsAgree, S
  <2>5. CASE c \notin Failures
    <3>1. /\ metrics'[AgentOf[c]].failed = metrics[AgentOf[c]].failed
          /\ metrics'[AgentOf[c]].ok = metrics[AgentOf[c]].ok + 1
      BY <2>5, CallsHaveAgents DEF RecordMetrics, Count, Failures
    <3>2. /\ Cardinality(S' \ Failures') = Cardinality(S \ Failures) + 1
          /\ Cardinality(S' \cap Failures') = Cardinality(S \cap Failures)
      BY <1>1, <2>1, <2>3, <2>5
    <3> QED
      BY <2>2, <3>1, <3>2 DEF MetricsAgree, S
  <2> QED
    BY <2>4, <2>5
<1> QED
  BY <1>2, <1>3, <1>4

LEMMA StateKeepsAgreement ==
  ASSUME OwnTypes, RecordsAgree, NEW c \in Calls, RecordState(c)
  PROVE  RecordsAgree'
<1> USE DEF OwnTypes, Goto, RecordsAgree
<1>1. /\ pc[c] = "recState" /\ pc' = [pc EXCEPT ![c] = "recOps"]
      /\ UNCHANGED <<execErr, metrics, ops>> /\ Failures' = Failures
  BY DEF RecordState, Failures
<1>2. ASSUME NEW a \in Agents PROVE MetricsAgree(a)' /\ OpsAgree(a)'
  <2>1. Measured(a)' = Measured(a) /\ Logged(a)' = Logged(a)
    BY <1>1 DEF Measured, Logged, At
  <2>2. MetricsAgree(a) /\ OpsAgree(a)
    OBVIOUS
  <2> QED
    BY <1>1, <2>1, <2>2 DEF MetricsAgree, OpsAgree
<1>3. ASSUME NEW a \in Agents, a # AgentOf[c] PROVE StateAgrees(a)'
  <2>1. Stored(a)' = Stored(a) /\ state'[a] = state[a]
    BY <1>1, <1>3 DEF RecordState, Stored, At
  <2>2. StateAgrees(a)
    BY <1>3
  <2> QED
    BY <1>1, <2>1, <2>2 DEF StateAgrees
<1>4. StateAgrees(AgentOf[c])'
  <2> DEFINE S == Stored(AgentOf[c])
  <2>1. S' = S \cup {c} /\ c \notin S /\ S \in SUBSET Calls /\ Failures \in SUBSET Calls
    BY <1>1 DEF Stored, At, Failures
  <2>2. StateAgrees(AgentOf[c])
    BY CallsHaveAgents
  <2> HIDE DEF S
  <2>3. /\ Cardinality(S \cup {c}) = Cardinality(S) + 1
        /\ c \in Failures =>
             /\ Cardinality((S \cup {c}) \cap Failures) = Cardinality(S \cap Failures) + 1
             /\ (S \cup {c}) \ Failures = S \ Failures
        /\ c \notin Failures =>
             /\ Cardinality((S \cup {c}) \ Failures) = Cardinality(S \ Failures) + 1
             /\ (S \cup {c}) \cap Failures = S \cap Failures
    BY <2>1, SetsGainOne
  <2>4. CASE c \in Failures
    <3>1. /\ state'[AgentOf[c]].runs = state[AgentOf[c]].runs + 1
          /\ state'[AgentOf[c]].failed = state[AgentOf[c]].failed + 1
      BY <2>4, CallsHaveAgents DEF RecordState, Updated, Failures
    <3>2. /\ Cardinality(S') = Cardinality(S) + 1
          /\ Cardinality(S' \cap Failures') = Cardinality(S \cap Failures) + 1
      BY <1>1, <2>1, <2>3, <2>4
    <3> QED
      BY <2>2, <3>1, <3>2 DEF StateAgrees, S
  <2>5. CASE c \notin Failures
    <3>1. /\ state'[AgentOf[c]].runs = state[AgentOf[c]].runs + 1
          /\ state'[AgentOf[c]].failed = state[AgentOf[c]].failed
      BY <2>5, CallsHaveAgents DEF RecordState, Updated, Failures
    <3>2. /\ Cardinality(S') = Cardinality(S) + 1
          /\ Cardinality(S' \cap Failures') = Cardinality(S \cap Failures)
      BY <1>1, <2>1, <2>3, <2>5
    <3> QED
      BY <2>2, <3>1, <3>2 DEF StateAgrees, S
  <2> QED
    BY <2>4, <2>5
<1> QED
  BY <1>2, <1>3, <1>4

LEMMA OpsKeepAgreement ==
  ASSUME OwnTypes, RecordsAgree, NEW c \in Calls, RecordOps(c)
  PROVE  RecordsAgree'
<1> USE DEF OwnTypes, Goto, RecordsAgree
<1>1. /\ pc[c] = "recOps" /\ pc' = [pc EXCEPT ![c] = "done"]
      /\ UNCHANGED <<execErr, metrics, state>> /\ Failures' = Failures
  BY DEF RecordOps, Failures
<1>2. ASSUME NEW a \in Agents PROVE MetricsAgree(a)' /\ StateAgrees(a)'
  <2>1. Measured(a)' = Measured(a) /\ Stored(a)' = Stored(a)
    BY <1>1 DEF Measured, Stored, At
  <2>2. MetricsAgree(a) /\ StateAgrees(a)
    OBVIOUS
  <2> QED
    BY <1>1, <2>1, <2>2 DEF MetricsAgree, StateAgrees
<1>3. ASSUME NEW a \in Agents, a # AgentOf[c] PROVE OpsAgree(a)'
  <2>1. Logged(a)' = Logged(a) /\ ops'[a] = ops[a]
    BY <1>1, <1>3 DEF RecordOps, Logged, At, Count
  <2>2. OpsAgree(a)
    BY <1>3
  <2> QED
    BY <1>1, <2>1, <2>2 DEF OpsAgree
<1>4. OpsAgree(AgentOf[c])'
  <2> DEFINE S == Logged(AgentOf[c])
  <2>1. S' = S \cup {c} /\ c \notin S /\ S \in SUBSET Calls /\ Failures \in SUBSET Calls
    BY <1>1 DEF Logged, At, Failures
  <2>2. OpsAgree(AgentOf[c])
    BY CallsHaveAgents
  <2> HIDE DEF S
  <2>3. /\ Cardinality(S \cup {c}) = Cardinality(S) + 1
        /\ c \in Failures =>
             /\ Cardinality((S \cup {c}) \cap Failures) = Cardinality(S \cap Failures) + 1
             /\ (S \cup {c}) \ Failures = S \ Failures
        /\ c \notin Failures =>
             /\ Cardinality((S \cup {c}) \ Failures) = Cardinality(S \ Failures) + 1
             /\ (S \cup {c}) \cap Failures = S \cap Failures
    BY <2>1, SetsGainOne
  <2>4. CASE c \in Failures
    <3>1. /\ ops'[AgentOf[c]].failed = ops[AgentOf[c]].failed + 1
          /\ ops'[AgentOf[c]].ok = ops[AgentOf[c]].ok
      BY <2>4, CallsHaveAgents DEF RecordOps, Count, Failures
    <3>2. /\ Cardinality(S' \ Failures') = Cardinality(S \ Failures)
          /\ Cardinality(S' \cap Failures') = Cardinality(S \cap Failures) + 1
      BY <1>1, <2>1, <2>3, <2>4
    <3> QED
      BY <2>2, <3>1, <3>2 DEF OpsAgree, S
  <2>5. CASE c \notin Failures
    <3>1. /\ ops'[AgentOf[c]].failed = ops[AgentOf[c]].failed
          /\ ops'[AgentOf[c]].ok = ops[AgentOf[c]].ok + 1
      BY <2>5, CallsHaveAgents DEF RecordOps, Count, Failures
    <3>2. /\ Cardinality(S' \ Failures') = Cardinality(S \ Failures) + 1
          /\ Cardinality(S' \cap Failures') = Cardinality(S \cap Failures)
      BY <1>1, <2>1, <2>3, <2>5
    <3> QED
      BY <2>2, <3>1, <3>2 DEF OpsAgree, S
  <2> QED
    BY <2>4, <2>5
<1> QED
  BY <1>2, <1>3, <1>4

LEMMA StepKeepsAgreed == OwnTypes /\ RecordsAgree /\ [Next]_vars => RecordsAgree'
<1> SUFFICES ASSUME OwnTypes, RecordsAgree, [Next]_vars,
                    \A c \in Calls : ~RecordMetrics(c) /\ ~RecordState(c) /\ ~RecordOps(c)
             PROVE  RecordsAgree'
  BY MetricsKeepAgreement, StateKeepsAgreement, OpsKeepAgreement
<1> QED
  BY OthersLeaveRecords DEF RecordsAgree, MetricsAgree, StateAgrees, OpsAgree

\* Metrics, state and history have counted the same executions, but for those
\* that are between two of the records, for any number of executions of any agents
\* at once (executor.go:122-148).
THEOREM RecordsAlwaysAgree == SafeSpec => []RecordsAgree
<1>1. Init => RecordsAgree
  <2> SUFFICES ASSUME Init, NEW a \in Agents
               PROVE  MetricsAgree(a) /\ StateAgrees(a) /\ OpsAgree(a)
    BY DEF RecordsAgree
  <2>1. Measured(a) = {} /\ Stored(a) = {} /\ Logged(a) = {}
    BY DEF Init, Measured, Stored, Logged, At
  <2>2. Cardinality({}) = 0
    BY FS_EmptySet
  <2> QED
    BY <2>1, <2>2 DEF Init, MetricsAgree, StateAgrees, OpsAgree
<1>2. TypeOK => OwnTypes
  BY DEF TypeOK, OwnTypes
<1> QED
  BY <1>1, <1>2, StepKeepsAgreed, ExecutionsTyped, PTL DEF SafeSpec
=============================================================================
