--------------------------- MODULE Scheduler_proofs ---------------------------
(***************************************************************************)
(* Proofs about Scheduler, for any agents and intervals and any number of  *)
(* loops and of triggered rounds.                                          *)
(*                                                                         *)
(* That there is one live loop depends on a round never outliving the loop *)
(* it belongs to, and that on where agents can be due or active: RoundInv. *)
(***************************************************************************)
EXTENDS Scheduler, TLAPS

\* Agents are due only while a round looks for them or executes them, and active
\* only while it executes them.
RoundInv ==
  \A r \in Rounds :
    /\ phase[r] # "exec" => active[r] = {}
    /\ phase[r] \notin {"scan", "exec"} => due[r] = {}

\* Goroutines of a round are all gone when its loop waits for a tick: a loop
\* never has two rounds (scheduler.go:152-169, 214-225).
LoopWaitsForRound ==
  \A l \in Loops :
    loop[l] # "round" => phase[l] = "none" /\ due[l] = {} /\ active[l] = {}

\* When nothing is dirty the file has the history that is in memory.
CleanMeansSaved == ~dirty => age = savedAge

\* There is a loop to cancel when Stop looks for one.
CancelSet == running => current \in Loops

Inv ==
  /\ TypeOK
  /\ CancelSet
  /\ RoundInv
  /\ LoopWaitsForRound
  /\ OneLiveLoop
  /\ CleanMeansSaved

\* The invariants hold at the start.
LEMMA InitHolds == Init => Inv /\ UnsavedOnlyInRounds
<1> SUFFICES ASSUME Init PROVE Inv /\ UnsavedOnlyInRounds
  OBVIOUS
<1> USE SchedulerAssumption DEF SchedulerAssumption, Init
<1>0. Never \in Ages
  BY DEF Ages, Never
<1>1. TypeOK
  BY <1>0 DEF TypeOK
<1>2. RoundInv
  BY DEF RoundInv
<1>3. LoopWaitsForRound
  BY DEF LoopWaitsForRound, Rounds
<1>4. OneLiveLoop
  BY DEF OneLiveLoop, Live
<1>6. CancelSet
  BY DEF CancelSet
<1>5. CleanMeansSaved /\ UnsavedOnlyInRounds
  BY DEF CleanMeansSaved, UnsavedOnlyInRounds
<1> QED
  BY <1>1, <1>2, <1>3, <1>4, <1>5, <1>6 DEF Inv

-----------------------------------------------------------------------------

LEMMA OlderIsAge == ASSUME NEW f \in Ages PROVE Older(f) \in Ages
BY SchedulerAssumption DEF SchedulerAssumption, Ages, Older

LEMMA RecordedIsAge ==
  ASSUME NEW f \in Ages, NEW a \in Agents, NEW late \in Nat, late <= Interval[a]
  PROVE  [f EXCEPT ![a] = late] \in Ages
BY DEF Ages

\* Types.
LEMMA StepKeepsType == Inv /\ [Next]_vars => TypeOK'
<1> SUFFICES ASSUME Inv, [Next]_vars PROVE TypeOK'
  OBVIOUS
<1> USE SchedulerAssumption DEF SchedulerAssumption, Inv, TypeOK, Rounds,
        loopVars, roundVars, stateVars
<1>1. ASSUME NEW l \in Loops, Start(l) PROVE TypeOK'
  BY <1>1 DEF Start
<1>2. CASE Stop
  BY <1>2 DEF Stop, CancelSet
<1>3. ASSUME NEW l \in Loops,
             ContextEnds(l) \/ TickerFires(l) \/ LoopExits(l) \/ RoundBegins(l)
      PROVE  TypeOK'
  BY <1>3 DEF ContextEnds, TickerFires, LoopExits, RoundBegins
<1>4. ASSUME NEW l \in Loops, NEW a \in Agents, ScanAgent(l, a) PROVE TypeOK'
  BY <1>4 DEF ScanAgent
<1>5. ASSUME NEW l \in Loops, ScanEnds(l) PROVE TypeOK'
  BY <1>5 DEF ScanEnds
<1>6. ASSUME NEW t \in Triggers, NEW s \in SUBSET Agents, Trigger(t, s) PROVE TypeOK'
  BY <1>6 DEF Trigger
<1>7. ASSUME NEW r \in Rounds, NEW a \in Agents, ExecBegins(r, a) \/ ExecUnrecorded(r, a)
      PROVE  TypeOK'
  BY <1>7 DEF ExecBegins, ExecUnrecorded
<1>8. ASSUME NEW r \in Rounds, NEW a \in Agents, NEW late \in 0..1,
             ExecRecorded(r, a, late)
      PROVE  TypeOK'
  <2>1. age' = [age EXCEPT ![a] = late] /\ late <= Interval[a]
    BY <1>8 DEF ExecRecorded
  <2>2. age \in Ages /\ late \in Nat
    OBVIOUS
  <2>3. age' \in Ages
    BY ONLY <2>1, <2>2, RecordedIsAge, a \in Agents
  <2> QED
    BY <1>8, <2>3 DEF ExecRecorded
<1>9. ASSUME NEW r \in Rounds, ExecEnds(r) PROVE TypeOK'
  BY <1>9 DEF ExecEnds
<1>10. ASSUME NEW r \in Rounds, NEW ok \in Saves, SaveRound(r, ok) PROVE TypeOK'
  BY <1>10 DEF SaveRound, SaveIfDirty
<1>11. ASSUME NEW l \in Loops, NEW ok \in Saves, ResaveRound(l, ok) PROVE TypeOK'
  BY <1>11 DEF ResaveRound, SaveIfDirty
<1>12. CASE SecondPasses
  BY <1>12, OlderIsAge DEF SecondPasses
<1>13. CASE UNCHANGED vars
  BY <1>13 DEF vars
<1> QED
  BY <1>1, <1>2, <1>3, <1>4, <1>5, <1>6, <1>7, <1>8, <1>9, <1>10, <1>11, <1>12, <1>13
  DEF Next, Select, LoopRoundStep, RoundStep, ExecStep

\* A round is bound to its phase and its loop.
LEMMA StepKeepsRounds == Inv /\ [Next]_vars => RoundInv' /\ LoopWaitsForRound'
<1> DEFINE Bound == RoundInv /\ LoopWaitsForRound
<1> SUFFICES ASSUME Inv, [Next]_vars PROVE Bound'
  OBVIOUS
<1> USE SchedulerAssumption DEF SchedulerAssumption, Inv, TypeOK, Rounds, RoundInv,
        LoopWaitsForRound, loopVars, roundVars, stateVars
<1>1. ASSUME NEW l \in Loops, Start(l) PROVE Bound'
  BY <1>1 DEF Start
<1>2. CASE Stop
  BY <1>2 DEF Stop
<1>3. ASSUME NEW l \in Loops,
             ContextEnds(l) \/ TickerFires(l) \/ LoopExits(l) \/ RoundBegins(l)
      PROVE  Bound'
  BY <1>3 DEF ContextEnds, TickerFires, LoopExits, RoundBegins
<1>4. ASSUME NEW l \in Loops, NEW a \in Agents, ScanAgent(l, a) PROVE Bound'
  BY <1>4 DEF ScanAgent
<1>5. ASSUME NEW l \in Loops, ScanEnds(l) PROVE Bound'
  BY <1>5 DEF ScanEnds
<1>6. ASSUME NEW t \in Triggers, NEW s \in SUBSET Agents, Trigger(t, s) PROVE Bound'
  BY <1>6 DEF Trigger
<1>7. ASSUME NEW r \in Rounds, NEW a \in Agents, ExecBegins(r, a) PROVE Bound'
  BY <1>7 DEF ExecBegins
<1>8. ASSUME NEW r \in Rounds, NEW a \in Agents, NEW late \in 0..1,
             ExecRecorded(r, a, late) \/ ExecUnrecorded(r, a)
      PROVE  Bound'
  BY <1>8 DEF ExecRecorded, ExecUnrecorded
<1>9. ASSUME NEW r \in Rounds, ExecEnds(r) PROVE Bound'
  BY <1>9 DEF ExecEnds
<1>10. ASSUME NEW r \in Rounds, NEW ok \in Saves, SaveRound(r, ok) PROVE Bound'
  BY <1>10 DEF SaveRound
<1>11. ASSUME NEW l \in Loops, NEW ok \in Saves, ResaveRound(l, ok) PROVE Bound'
  BY <1>11 DEF ResaveRound
<1>12. CASE SecondPasses \/ UNCHANGED vars
  BY <1>12 DEF SecondPasses, vars
<1> QED
  BY <1>1, <1>2, <1>3, <1>4, <1>5, <1>6, <1>7, <1>8, <1>9, <1>10, <1>11, <1>12
  DEF Next, Select, LoopRoundStep, RoundStep, ExecStep

\* Only Start, Stop, the end of a context and the exit of a loop touch what makes a
\* loop live: the other steps move a loop that exists between its states.
LEMMA StepKeepsOneLoop == Inv /\ [Next]_vars => OneLiveLoop'
<1> SUFFICES ASSUME Inv, [Next]_vars PROVE OneLiveLoop'
  OBVIOUS
<1> USE SchedulerAssumption DEF SchedulerAssumption, Inv, TypeOK, OneLiveLoop, Live,
        LoopWaitsForRound, loopVars, roundVars, stateVars
<1>1. ASSUME NEW l \in Loops, Start(l) PROVE OneLiveLoop'
  BY <1>1 DEF Start
<1>2. CASE Stop
  BY <1>2 DEF Stop
<1>3. ASSUME NEW l \in Loops, LoopExits(l) PROVE OneLiveLoop'
  BY <1>3 DEF LoopExits
<1>11. ASSUME NEW l \in Loops, ContextEnds(l) PROVE OneLiveLoop'
  BY <1>11 DEF ContextEnds
<1>4. ASSUME UNCHANGED <<running, current, done>>,
             \A l \in Loops : loop[l] = "none" <=> loop'[l] = "none"
      PROVE  OneLiveLoop'
  BY <1>4
<1>5. ASSUME NEW l \in Loops, TickerFires(l) \/ RoundBegins(l) \/ ScanEnds(l)
      PROVE  OneLiveLoop'
  BY <1>4, <1>5 DEF TickerFires, RoundBegins, ScanEnds
<1>6. ASSUME NEW l \in Loops, NEW ok \in Saves, ResaveRound(l, ok) PROVE OneLiveLoop'
  BY <1>4, <1>6 DEF ResaveRound
<1>7. ASSUME NEW l \in Loops, NEW a \in Agents, ScanAgent(l, a)
      PROVE  OneLiveLoop'
  BY <1>4, <1>7 DEF ScanAgent
<1>8. ASSUME NEW t \in Triggers, NEW s \in SUBSET Agents, Trigger(t, s)
      PROVE  OneLiveLoop'
  BY <1>4, <1>8 DEF Trigger
<1>9. ASSUME NEW r \in Rounds, RoundStep(r) PROVE OneLiveLoop'
  BY <1>4, <1>9
  DEF RoundStep, ExecStep, ExecBegins, ExecRecorded, ExecUnrecorded, ExecEnds, SaveRound
<1>10. CASE SecondPasses \/ UNCHANGED vars
  BY <1>4, <1>10 DEF SecondPasses, vars
<1> QED
  BY <1>1, <1>2, <1>3, <1>5, <1>6, <1>7, <1>8, <1>9, <1>10, <1>11
  DEF Next, Select, LoopRoundStep

LEMMA StepKeepsClean == Inv /\ [Next]_vars => CleanMeansSaved'
<1> SUFFICES ASSUME Inv, [Next]_vars PROVE CleanMeansSaved'
  OBVIOUS
<1> USE DEF Inv, CleanMeansSaved, loopVars, roundVars, stateVars
<1>1. ASSUME NEW l \in Loops, Start(l) PROVE CleanMeansSaved'
  BY <1>1 DEF Start
<1>2. ASSUME NEW r, NEW a, NEW late, ExecRecorded(r, a, late) PROVE CleanMeansSaved'
  BY <1>2 DEF ExecRecorded
<1>3. ASSUME NEW ok, SaveIfDirty(ok), UNCHANGED age PROVE CleanMeansSaved'
  BY <1>3 DEF SaveIfDirty
<1>4. ASSUME NEW r, NEW ok, SaveRound(r, ok) \/ ResaveRound(r, ok)
      PROVE  CleanMeansSaved'
  BY <1>3, <1>4 DEF SaveRound, ResaveRound
<1>5. CASE SecondPasses
  BY <1>5 DEF SecondPasses
<1>6. ASSUME UNCHANGED stateVars PROVE CleanMeansSaved'
  BY <1>6
<1>7. ASSUME NEW l, NEW a,
             \/ ContextEnds(l) \/ TickerFires(l) \/ LoopExits(l) \/ RoundBegins(l)
             \/ ScanAgent(l, a) \/ ScanEnds(l) \/ Stop
      PROVE  CleanMeansSaved'
  BY <1>6, <1>7
  DEF ContextEnds, TickerFires, LoopExits, RoundBegins, ScanAgent, ScanEnds, Stop
<1>8. ASSUME NEW r, NEW a, NEW s,
             \/ Trigger(r, s) \/ ExecBegins(r, a) \/ ExecUnrecorded(r, a)
             \/ ExecEnds(r) \/ UNCHANGED vars
      PROVE  CleanMeansSaved'
  BY <1>6, <1>8 DEF Trigger, ExecBegins, ExecUnrecorded, ExecEnds, vars
<1> QED
  BY <1>1, <1>2, <1>4, <1>5, <1>7, <1>8
  DEF Next, Select, LoopRoundStep, RoundStep, ExecStep

LEMMA StepKeepsCancel == Inv /\ [Next]_vars => CancelSet'
<1> SUFFICES ASSUME Inv, [Next]_vars PROVE CancelSet'
  OBVIOUS
<1> USE DEF Inv, CancelSet, loopVars, roundVars, stateVars
<1>1. ASSUME NEW l \in Loops, Start(l) PROVE CancelSet'
  BY <1>1 DEF Start
<1>2. CASE Stop
  BY <1>2 DEF Stop
<1>3. ASSUME UNCHANGED <<running, current>> PROVE CancelSet'
  BY <1>3
<1>4. ASSUME NEW l, NEW a, NEW ok,
             \/ ContextEnds(l) \/ TickerFires(l) \/ LoopExits(l) \/ RoundBegins(l)
             \/ ScanAgent(l, a) \/ ScanEnds(l) \/ ResaveRound(l, ok)
      PROVE  CancelSet'
  BY <1>3, <1>4
  DEF ContextEnds, TickerFires, LoopExits, RoundBegins, ScanAgent, ScanEnds,
      ResaveRound
<1>5. ASSUME NEW r, NEW a, NEW s, NEW ok, NEW late,
             \/ Trigger(r, s) \/ ExecBegins(r, a) \/ ExecUnrecorded(r, a)
             \/ ExecRecorded(r, a, late) \/ ExecEnds(r) \/ SaveRound(r, ok)
             \/ SecondPasses \/ UNCHANGED vars
      PROVE  CancelSet'
  BY <1>3, <1>5
  DEF Trigger, ExecBegins, ExecUnrecorded, ExecRecorded, ExecEnds, SaveRound,
      SecondPasses, vars
<1> QED
  BY <1>1, <1>2, <1>4, <1>5 DEF Next, Select, LoopRoundStep, RoundStep, ExecStep

\* The inductive invariant holds in every state.
THEOREM InvAlways == Spec => []Inv
<1>1. Inv /\ [Next]_vars => Inv'
  BY StepKeepsType, StepKeepsCancel, StepKeepsRounds, StepKeepsOneLoop, StepKeepsClean
  DEF Inv
<1> QED
  BY <1>1, InitHolds, PTL DEF Spec

\* The fields of the scheduler and of the run history keep their types, whatever
\* the order of Start, Stop, triggers and rounds (scheduler.go:18-45).
THEOREM TypeCorrect == Spec => []TypeOK
<1>1. Inv => TypeOK
  BY DEF Inv
<1> QED
  BY <1>1, InvAlways, PTL

\* No order of Start, Stop, cancelled contexts, ticks and exits leaves two loops
\* scheduling for ever; and there is the one `running` speaks of, as long as the
\* caller of Start keeps its context (scheduler.go:126-169).
THEOREM AtMostOneLoop == Spec => []OneLiveLoop
<1>1. Inv => OneLiveLoop
  BY DEF Inv
<1> QED
  BY <1>1, InvAlways, PTL

\* Saves that fail included, a clean state is the one on file
\* (scheduler.go:133, 202, 226, state.go:111).
THEOREM CleanIsSaved == Spec => []CleanMeansSaved
<1>1. Inv => CleanMeansSaved
  BY DEF Inv
<1> QED
  BY <1>1, InvAlways, PTL

-----------------------------------------------------------------------------

\* Where saves succeed, what may be dirty after a step: only a recorded run makes
\* it dirty, in a round that goes on, and a round that saves leaves it clean.
LEMMA StepKeepsUnsaved ==
  ASSUME Inv, UnsavedOnlyInRounds, [Next]_vars
  PROVE  UnsavedOnlyInRounds'
<1> SUFFICES ASSUME Saves = {TRUE}, dirty' PROVE InProgress' # {}
  BY DEF UnsavedOnlyInRounds
<1> USE DEF InProgress, loopVars, roundVars, stateVars
<1>0. phase \in [Rounds -> {"none", "scan", "exec", "save", "resave"}]
  BY DEF Inv, TypeOK
<1>2. dirty => InProgress # {}
  BY DEF UnsavedOnlyInRounds
<1>3. ASSUME UNCHANGED <<phase, dirty>> PROVE InProgress' # {}
  BY <1>2, <1>3
<1>4. ASSUME NEW r \in Rounds, dirty, phase[r] \notin {"exec", "save"},
             NEW p, phase' = [phase EXCEPT ![r] = p]
      PROVE  InProgress' # {}
  BY <1>0, <1>2, <1>4
<1>5. ASSUME NEW l \in Loops, RoundBegins(l) \/ ScanEnds(l) PROVE InProgress' # {}
  <2>1. l \in Rounds /\ dirty
    BY <1>5 DEF Rounds, RoundBegins, ScanEnds
  <2>2. CASE RoundBegins(l)
    <3>1. phase[l] = "none"
      BY <2>2 DEF RoundBegins, Inv, LoopWaitsForRound
    <3> QED
      BY <1>4, <2>1, <2>2, <3>1 DEF RoundBegins
  <2>3. CASE ScanEnds(l)
    BY <1>4, <2>1, <2>3 DEF ScanEnds
  <2> QED
    BY <1>5, <2>2, <2>3
<1>6. ASSUME NEW r \in Rounds, NEW a, NEW late, ExecRecorded(r, a, late)
      PROVE  InProgress' # {}
  <2>1. phase[r] = "exec" /\ phase' = phase
    BY <1>6 DEF ExecRecorded, Inv, RoundInv
  <2> QED
    BY <2>1
<1>7. ASSUME NEW r \in Rounds, NEW ok \in Saves, SaveRound(r, ok) PROVE FALSE
  BY <1>7 DEF SaveRound, SaveIfDirty
<1>8. ASSUME NEW l \in Loops, NEW ok \in Saves, ResaveRound(l, ok) PROVE FALSE
  BY <1>8 DEF ResaveRound, SaveIfDirty
<1>9. ASSUME NEW l, NEW a,
             \/ Start(l) \/ Stop \/ ContextEnds(l) \/ TickerFires(l) \/ LoopExits(l)
             \/ ScanAgent(l, a)
             \/ ExecBegins(l, a) \/ ExecUnrecorded(l, a)
             \/ SecondPasses \/ UNCHANGED vars
      PROVE  InProgress' # {}
  BY <1>3, <1>9
  DEF Start, Stop, ContextEnds, TickerFires, LoopExits, ScanAgent, ExecBegins,
      ExecUnrecorded, SecondPasses, vars
<1>10. Triggers \subseteq Rounds /\ Loops \subseteq Rounds
  BY DEF Rounds
<1> HIDE DEF InProgress, loopVars, roundVars, stateVars
<1>11. ASSUME NEW l \in Loops,
              Start(l) \/ ContextEnds(l) \/ TickerFires(l) \/ Select(l) \/ LoopRoundStep(l)
       PROVE  InProgress' # {}
  BY <1>5, <1>8, <1>9, <1>10, <1>11 DEF Select, LoopRoundStep
<1>12. ASSUME NEW t \in Triggers, NEW requested, Trigger(t, requested)
       PROVE  InProgress' # {}
  <2>1. t \in Rounds /\ phase[t] = "none" /\ dirty /\ phase' = [phase EXCEPT ![t] = "exec"]
    BY <1>10, <1>12 DEF Trigger, stateVars
  <2> QED
    BY <1>4, <2>1
<1>13. ASSUME NEW r \in Rounds, ExecEnds(r) PROVE InProgress' # {}
  BY <1>0, <1>13 DEF ExecEnds, InProgress
<1>14. ASSUME NEW r \in Rounds, RoundStep(r) PROVE InProgress' # {}
  BY <1>6, <1>7, <1>9, <1>13, <1>14 DEF RoundStep, ExecStep
<1> QED
  BY <1>9, <1>11, <1>12, <1>14 DEF Next

\* Where saves succeed, runs that are recorded and not saved belong to rounds in
\* progress, whatever rounds of stopped loops and of /trigger run beside each
\* other (scheduler.go:201-204, 225-228).
THEOREM NothingUnsavedOutsideRounds == Spec => []UnsavedOnlyInRounds
<1>1. Init => UnsavedOnlyInRounds
  BY InitHolds
<1>2. Inv /\ UnsavedOnlyInRounds /\ [Next]_vars => UnsavedOnlyInRounds'
  BY StepKeepsUnsaved
<1> QED
  BY <1>1, <1>2, InvAlways, PTL DEF Spec

LEMMA OlderIsNoYounger ==
  ASSUME NEW f \in Ages, NEW a \in Agents
  PROVE  f[a] \in Nat /\ Older(f)[a] \in Nat /\ f[a] <= Older(f)[a]
BY SchedulerAssumption DEF SchedulerAssumption, Ages, Older

\* An age grows past what the clock makes it only in Start, and then the file is
\* behind memory.
LEMMA StepSetsBack ==
  ASSUME Saves = {TRUE}, Inv, UnsavedOnlyInRounds, [Next]_vars,
         NEW a \in Agents, age'[a] > Older(age)[a]
  PROVE  InProgress # {}
<1> USE DEF stateVars
<1>0. age \in Ages /\ age[a] \in Nat /\ Older(age)[a] \in Nat /\ age[a] <= Older(age)[a]
  BY OlderIsNoYounger DEF Inv, TypeOK
<1>1. ASSUME age' = age PROVE FALSE
  BY <1>0, <1>1
<1>2. dirty => InProgress # {}
  BY DEF UnsavedOnlyInRounds
<1>3. ASSUME NEW l, Start(l) PROVE dirty
  BY <1>1, <1>3 DEF Start, Inv, CleanMeansSaved
<1>4. ASSUME NEW r \in Rounds, NEW b, NEW late, ExecRecorded(r, b, late)
      PROVE  InProgress # {}
  BY <1>4 DEF ExecRecorded, Inv, RoundInv, InProgress
<1>5. CASE SecondPasses
  BY <1>0, <1>5 DEF SecondPasses
<1>6. ASSUME NEW l, NEW b, NEW ok,
             \/ Stop \/ ContextEnds(l) \/ TickerFires(l) \/ LoopExits(l) \/ RoundBegins(l)
             \/ ScanAgent(l, b) \/ ScanEnds(l) \/ ResaveRound(l, ok)
      PROVE  FALSE
  BY <1>1, <1>6
  DEF Stop, ContextEnds, TickerFires, LoopExits, RoundBegins, ScanAgent, ScanEnds,
      ResaveRound
<1>7. ASSUME NEW r, NEW b, NEW s, NEW ok,
             \/ Trigger(r, s) \/ ExecBegins(r, b) \/ ExecUnrecorded(r, b)
             \/ ExecEnds(r) \/ SaveRound(r, ok) \/ UNCHANGED vars
      PROVE  FALSE
  BY <1>1, <1>7
  DEF Trigger, ExecBegins, ExecUnrecorded, ExecEnds, SaveRound, vars
<1> QED
  BY <1>2, <1>3, <1>4, <1>5, <1>6, <1>7
  DEF Next, Select, LoopRoundStep, RoundStep, ExecStep

\* Where saves succeed, only a Start during a round sets the run history back
\* (scheduler.go:126-150, state.go:73-79).
THEOREM OnlyStartsInRoundsSetBack == Saves = {TRUE} /\ Spec => SetBackOnlyInRounds
<1> SUFFICES ASSUME Saves = {TRUE} PROVE Spec => SetBackOnlyInRounds
  OBVIOUS
<1>1. Inv /\ UnsavedOnlyInRounds /\ [Next]_vars
        => [(\E a \in Agents : age'[a] > Older(age)[a]) => InProgress # {}]_vars
  BY StepSetsBack
<1> QED
  BY <1>1, InvAlways, NothingUnsavedOutsideRounds, PTL DEF Spec, SetBackOnlyInRounds

=============================================================================
