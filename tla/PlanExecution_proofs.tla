------------------------- MODULE PlanExecution_proofs -------------------------
(***************************************************************************)
(* Proofs about PlanExecution, for any agents, registries, plan texts and  *)
(* number of parallel tasks.                                               *)
(*                                                                         *)
(* What the plan's author asked a step to depend on is honoured only where *)
(* the plan was read as it was written: DependenciesHonoured is proved for *)
(* workflow files without dependencies, as depends_on of a file is lost.   *)
(*                                                                         *)
(* At the end, a theorem about the agents that plans name: the functions   *)
(* of SkillRegistry, for any tree of skills.                               *)
(***************************************************************************)
EXTENDS PlanExecution, FiniteSetTheorems, TLAPS

\* Phases in which the round has no plan yet.
Planning == {"workflow", "selfDriven", "traditional", "fallback"}

\* A round that is planned starts from nothing.
PlanningFresh ==
  phase \in Planning => plan = NoPlan /\ step = 1 /\ ran = {} /\ since = [a \in Agents |-> 0]

\* Outside its steps a round is before the first, without a plan, or past the last.
StepInPlan ==
  /\ step <= Len(plan.steps) + 1
  /\ phase = "run" => step <= Len(plan.steps)
  /\ phase \notin {"pick", "run"} => step = Len(plan.steps) + 1

\* Had all its dependencies given results when the turn of step k came?
Satisfied(k) == \A a \in plan.steps[k].after : since[a] \in 1..(k - 1)

\* What ran in step k.
RanIn(k) == {i \in DOMAIN plan.steps[k].agents : <<k, i>> \in ran}

\* The steps that are over have run all their tasks, or none.
PastStepsWhole ==
  \A k \in 1..(step - 1) : RanIn(k) = IF Satisfied(k) THEN Tasks(k) ELSE {}

\* The current step has run the tasks that no longer wait.
CurrentStep ==
  IF phase = "run"
  THEN /\ Satisfied(step)
       /\ waiting \subseteq Tasks(step)
       /\ RanIn(step) = Tasks(step) \ waiting
       /\ active \subseteq RanIn(step)
  ELSE waiting = {} /\ active = {}

\* Whatever ran is a task of a step whose turn has come.
RanAreTasks ==
  \A task \in ran :
    /\ task[1] \in DOMAIN plan.steps /\ task[2] \in Tasks(task[1])
    /\ task[1] <= step /\ (phase # "run" => task[1] < step)

\* Results come from steps that ran, and from agents that may run.
ResultsCome ==
  \A a \in Agents :
    /\ since[a] <= step /\ (phase # "run" => since[a] < step)
    /\ since[a] # 0 => a \notin plan.skip

\* A sequential step works down its list.
InOrder ==
  phase = "run" /\ plan.steps[step].mode = "sequential" =>
    /\ \A i \in waiting : \A j \in Tasks(step) : i < j => j \in waiting
    /\ \A i \in active : \A j \in Tasks(step) : j \in waiting <=> i < j
    /\ \A i, j \in active : i = j

PlanInv ==
  /\ TypeOK /\ PlanningFresh /\ StepInPlan /\ CurrentStep
  /\ PastStepsWhole /\ RanAreTasks /\ ResultsCome /\ InOrder
  /\ IsFiniteSet(active) /\ Cardinality(active) <= MaxParallel

\* No dependency of what the author asked for is lost in the plan made of it.
KeepsDependencies(steps, p) ==
  \A k \in DOMAIN p.steps :
    k \in DOMAIN steps /\ steps[k].after \subseteq p.steps[k].after

\* Steps of workflow files depend on nothing.
UndemandingWorkflows ==
  \A text \in Workflows : \A k \in DOMAIN text.steps : text.steps[k].after = {}

Plans == [steps : Seq(Steps), skip : SUBSET Agents]

\* Phases after the last step.
Ending == {"selfSummary", "summary", "save"}

-----------------------------------------------------------------------------

\* Types.

LEMMA ThinkingStepTyped ==
  ASSUME ThinkingTypeOK, ThinkingBegins \/ ThinkingStep PROVE ThinkingTypeOK'
<1> USE DEF ThinkingTypeOK, Think, Asking
<1>1. CASE ThinkingBegins
  BY <1>1 DEF ThinkingBegins
<1>2. ASSUME NEW complex \in BOOLEAN, Analysed(complex) PROVE ThinkingTypeOK'
  BY <1>2 DEF Analysed
<1>3. ASSUME NEW outline \in Outlines, Planned(outline) PROVE ThinkingTypeOK'
  BY <1>3 DEF Planned
<1>4. ASSUME NEW list \in CommandLists, CommandsNamed(list) PROVE ThinkingTypeOK'
  BY <1>4, ThinkingAssumption DEF CommandsNamed
<1>5. CASE RunCommand
  <2>1. Tail(commands) \in Seq(CommandKinds)
    BY <1>5 DEF RunCommand
  <2>2. \A end \in {"output", "error"} : Append(results, end) \in Seq({"output", "error"})
    OBVIOUS
  <2>3. results' = results \/ \E end \in {"output", "error"} : results' = Append(results, end)
    BY <1>5 DEF RunCommand
  <2>4. results' \in Seq({"output", "error"})
    BY <2>2, <2>3
  <2> QED
    BY <1>5, <2>1, <2>4 DEF RunCommand
<1>6. CASE CommandsRun \/ Reported \/ AskingFails
  BY <1>6 DEF CommandsRun, Reported, AskingFails
<1> QED
  BY <1>1, <1>2, <1>3, <1>4, <1>5, <1>6 DEF ThinkingStep

LEMMA ThinkingEndTyped ==
  ASSUME ThinkingTypeOK, NEW end, ThinkingEnds(end) PROVE ThinkingTypeOK'
BY DEF ThinkingTypeOK, ThinkingEnds, Think

LEMMA ThinkingStays ==
  ASSUME ThinkingTypeOK, UNCHANGED thinkingVars PROVE ThinkingTypeOK'
BY DEF ThinkingTypeOK, thinkingVars

\* How a text is read does not change what kind of thing it is.
LEMMA ReadingTyped ==
  ASSUME NEW text \in Texts
  PROVE  /\ FromJSON(text) \in Plans
         /\ LoadFromFile(text) \in Plans
<1> USE DEF Texts
<1>1. Legacy(text.invoke) \in Steps
  BY DEF Legacy, Steps, Modes
<1>2. FromJSON(text).steps \in Seq(Steps)
  BY <1>1 DEF FromJSON
<1>3. \A k \in DOMAIN text.steps : [text.steps[k] EXCEPT !.after = {}] \in Steps
  <2> SUFFICES ASSUME NEW k \in DOMAIN text.steps
               PROVE  [text.steps[k] EXCEPT !.after = {}] \in Steps
    OBVIOUS
  <2>1. text.steps[k] \in Steps
    OBVIOUS
  <2> QED
    BY <2>1 DEF Steps
<1>4. LoadFromFile(text).steps \in Seq(Steps)
  <2>1. DOMAIN text.steps = 1..Len(text.steps) /\ Len(text.steps) \in Nat
    OBVIOUS
  <2> QED
    BY <1>3, <2>1 DEF LoadFromFile
<1> QED
  BY <1>2, <1>4 DEF FromJSON, LoadFromFile, Plans

LEMMA FallbackTyped ==
  ASSUME TypeOK, NEW names \in [1..Cardinality(registered) -> registered]
  PROVE  <<Legacy(names)>> \in Seq(Steps)
<1>1. Cardinality(registered) \in Nat /\ registered \subseteq Agents
  BY PlanAssumption, FS_CardinalityType DEF TypeOK
<1>2. names \in Seq(Agents)
  BY <1>1
<1> QED
  BY <1>2 DEF Legacy, Steps, Modes

-----------------------------------------------------------------------------

\* The round by kinds of steps.

PlansStep ==
  \E from \in Planning, steps \in Seq(Steps), p \in Plans :
    /\ TakePlan(from, steps, p)
    /\ UndemandingWorkflows => KeepsDependencies(steps, p)

SeeksStep ==
  /\ phase \in Planning /\ phase' \in Planning \cup {"idle"}
  /\ phase' = "idle" => registered = {}
  /\ UNCHANGED <<planVars, taskVars, dirty>>

EndingStep ==
  /\ phase \in Ending /\ phase' \in Ending \cup {"idle"}
  /\ dirty' \in BOOLEAN /\ (dirty' => dirty /\ (phase = "save" => Saves # {TRUE}))
  /\ UNCHANGED <<planVars, taskVars>>

LEMMA ReadingKeeps ==
  ASSUME NEW text \in Texts
  PROVE  /\ KeepsDependencies(FromJSON(text).steps, FromJSON(text))
         /\ (\A k \in DOMAIN text.steps : text.steps[k].after = {})
              => KeepsDependencies(text.steps, LoadFromFile(text))
<1>1. DOMAIN LoadFromFile(text).steps = DOMAIN text.steps
  BY DEF LoadFromFile
<1> QED
  BY <1>1 DEF KeepsDependencies

LEMMA TextsTyped ==
  Workflows \subseteq Texts /\ Outlines \subseteq Texts /\ Answers \subseteq Texts
BY PlanAssumption

LEMMA SelfDrivenKinds ==
  ASSUME TypeOK, PlanSelfDriven
  PROVE  ThinkingTypeOK' /\ (PlansStep \/ SeeksStep)
<1>0. ThinkingTypeOK
  BY DEF TypeOK
<1>1. CASE OrchestratorThinks
  BY <1>0, <1>1, ThinkingStepTyped DEF OrchestratorThinks, SeeksStep, Planning
<1>2. ASSUME NEW text \in Outlines, PlanFromOutline(text)
      PROVE  ThinkingTypeOK' /\ (PlansStep \/ SeeksStep)
  <2>1. FromJSON(text) \in Plans /\ FromJSON(text).steps \in Seq(Steps)
    BY TextsTyped, ReadingTyped DEF Plans
  <2>2. KeepsDependencies(FromJSON(text).steps, FromJSON(text))
    BY TextsTyped, ReadingKeeps
  <2>3. TakePlan("selfDriven", FromJSON(text).steps, FromJSON(text))
    BY <1>2 DEF PlanFromOutline
  <2>4. PlansStep
    BY <2>1, <2>2, <2>3 DEF PlansStep, Planning
  <2> QED
    BY <1>0, <1>2, <2>4, ThinkingEndTyped DEF PlanFromOutline
<1>3. CASE NoOutline
  <2>1. ThinkingTypeOK'
    BY <1>0, <1>3, ThinkingEndTyped DEF NoOutline
  <2>2. NoPlanFrom("selfDriven", "traditional")
    BY <1>3 DEF NoOutline
  <2> QED
    BY <2>1, <2>2 DEF NoPlanFrom, Goto, SeeksStep, Planning
<1> QED
  BY <1>1, <1>2, <1>3, ThinkingStays DEF PlanSelfDriven

LEMMA OtherwiseKinds ==
  ASSUME TypeOK, PlanOtherwise
  PROVE  PlansStep \/ SeeksStep
<1>1. ASSUME NEW text \in Workflows, PlanFromWorkflow(text) PROVE PlansStep
  <2>1. LoadFromFile(text) \in Plans /\ text.steps \in Seq(Steps)
    BY TextsTyped, ReadingTyped DEF Texts
  <2>2. UndemandingWorkflows => KeepsDependencies(text.steps, LoadFromFile(text))
    BY TextsTyped, ReadingKeeps DEF UndemandingWorkflows
  <2> QED
    BY <1>1, <2>1, <2>2 DEF PlanFromWorkflow, PlansStep, Planning
<1>2. ASSUME NEW text \in Answers, PlanFromAnswer(text) PROVE PlansStep
  <2>1. FromJSON(text) \in Plans /\ FromJSON(text).steps \in Seq(Steps)
    BY TextsTyped, ReadingTyped DEF Plans
  <2>2. KeepsDependencies(FromJSON(text).steps, FromJSON(text))
    BY TextsTyped, ReadingKeeps
  <2> QED
    BY <1>2, <2>1, <2>2 DEF PlanFromAnswer, PlansStep, Planning
<1>3. ASSUME NEW names \in [1..Cardinality(registered) -> registered],
             FallbackPlan(names)
      PROVE  PlansStep
  <2> DEFINE p == [steps |-> <<Legacy(names)>>, skip |-> {}]
  <2>1. <<Legacy(names)>> \in Seq(Steps)
    BY FallbackTyped
  <2>2. p \in Plans
    BY <2>1 DEF Plans
  <2>3. KeepsDependencies(<<Legacy(names)>>, p)
    BY DEF KeepsDependencies
  <2> QED
    BY <1>3, <2>1, <2>2, <2>3 DEF FallbackPlan, PlansStep, Planning
<1>4. CASE \/ NoPlanFrom("workflow", IF SelfDriven THEN "selfDriven" ELSE "traditional")
           \/ NoPlanFrom("traditional", "fallback") \/ NothingToPlan
  BY <1>4 DEF NothingToPlan, NoPlanFrom, Goto, SeeksStep, Planning
<1> QED
  BY <1>1, <1>2, <1>3, <1>4 DEF PlanOtherwise

LEMMA ConcludeKinds ==
  ASSUME TypeOK, Conclude PROVE ThinkingTypeOK' /\ EndingStep
<1> USE DEF EndingStep, Ending, Finish, Goto
<1>0. ThinkingTypeOK /\ dirty \in BOOLEAN
  BY DEF TypeOK
<1>1. CASE SummaryThinks
  BY <1>0, <1>1, ThinkingStepTyped DEF SummaryThinks
<1>2. CASE SelfSummarises
  BY <1>0, <1>2, ThinkingEndTyped DEF SelfSummarises
<1>3. CASE SelfSummaryFails
  <2>1. phase = "selfSummary" /\ phase' \in {"summary", "save"}
    BY <1>3 DEF SelfSummaryFails
  <2>2. UNCHANGED <<planVars, taskVars, dirty>>
    BY <1>3 DEF SelfSummaryFails
  <2> QED
    BY <1>0, <1>3, <2>1, <2>2, ThinkingEndTyped DEF SelfSummaryFails
<1>4. CASE Summarises \/ SummaryFails
  <2>1. phase = "summary" /\ phase' \in {"save", "idle"}
    BY <1>4 DEF Summarises, SummaryFails
  <2>2. UNCHANGED <<planVars, taskVars, dirty>>
    BY <1>4 DEF Summarises, SummaryFails
  <2> QED
    BY <1>0, <1>4, <2>1, <2>2, ThinkingStays DEF Summarises, SummaryFails
<1>5. CASE SaveIfDirty
  <2>1. PICK ok \in Saves : dirty' = (dirty /\ ~ok)
    BY <1>5 DEF SaveIfDirty
  <2>2. dirty' \in BOOLEAN /\ (dirty' => dirty /\ ok # TRUE)
    BY <2>1, Zenon
  <2>3. ok # TRUE => Saves # {TRUE}
    <3> SUFFICES ASSUME Saves = {TRUE} PROVE ok = TRUE
      OBVIOUS
    <3> QED
      BY Zenon
  <2> QED
    BY <1>0, <1>5, <2>2, <2>3, ThinkingStays DEF SaveIfDirty
<1> QED
  BY <1>1, <1>2, <1>3, <1>4, <1>5 DEF Conclude

\* All there is to a step of the round but for its thinking.
LEMMA Kinds ==
  ASSUME TypeOK, [Next]_vars
  PROVE  /\ ThinkingTypeOK'
         /\ \/ RoundBegins \/ PlansStep \/ SeeksStep
            \/ PassOver \/ EnterStep \/ StepEnds \/ StepsEnd
            \/ \E i \in waiting : StartTask(i)
            \/ \E i \in active, text, recorded \in BOOLEAN : TaskEnds(i, text, recorded)
            \/ EndingStep
            \/ UNCHANGED <<phase, planVars, taskVars, dirty>>
<1>0. ThinkingTypeOK
  BY DEF TypeOK
<1>1. CASE RoundBegins
  BY <1>0, <1>1, ThinkingStays DEF RoundBegins
<1>2. CASE Plan
  BY <1>0, <1>2, SelfDrivenKinds, OtherwiseKinds, ThinkingStays DEF Plan
<1>3. CASE PassOver \/ EnterStep \/ StepEnds \/ StepsEnd
  BY <1>0, <1>3, ThinkingStays DEF PassOver, EnterStep, StepEnds, StepsEnd
<1>4. ASSUME NEW i \in waiting, StartTask(i) PROVE ThinkingTypeOK'
  BY <1>0, <1>4, ThinkingStays DEF StartTask
<1>5. ASSUME NEW i \in active, NEW text \in BOOLEAN, NEW recorded \in BOOLEAN,
             TaskEnds(i, text, recorded)
      PROVE  ThinkingTypeOK'
  BY <1>0, <1>5, ThinkingStays DEF TaskEnds
<1>6. CASE Conclude
  BY <1>6, ConcludeKinds
<1>7. CASE UNCHANGED vars
  BY <1>0, <1>7, ThinkingStays DEF vars
<1> QED
  BY <1>1, <1>2, <1>3, <1>4, <1>5, <1>6, <1>7 DEF Next, RunSteps

-----------------------------------------------------------------------------

LEMMA StepAt ==
  ASSUME TypeOK, NEW k \in 1..Len(plan.steps)
  PROVE  /\ plan.steps[k] \in Steps
         /\ DOMAIN plan.steps[k].agents = 1..Len(plan.steps[k].agents)
         /\ Len(plan.steps[k].agents) \in Nat
         /\ Tasks(k) \subseteq DOMAIN plan.steps[k].agents
         /\ \A i \in DOMAIN plan.steps[k].agents : AgentAt(k, i) \in Agents
<1>1. plan.steps[k] \in Steps
  BY DEF TypeOK
<1>2. plan.steps[k].agents \in Seq(Agents)
  BY <1>1 DEF Steps
<1> QED
  BY <1>1, <1>2 DEF Tasks, AgentAt

LEMMA TypesStart == Init => TypeOK
<1> SUFFICES ASSUME Init PROVE TypeOK
  OBVIOUS
<1>1. ThinkingTypeOK
  BY DEF Init, ThinkingInit, ThinkingTypeOK
<1>2. asked \in Seq(Steps) /\ plan \in [steps : Seq(Steps), skip : SUBSET Agents]
  BY DEF Init, NoPlan
<1>3. registered \in Registries /\ phase \in Phases 
  BY DEF Init, Phases
<1>5. step \in Nat \ {0}
  BY DEF Init
<1>6. dirty \in BOOLEAN
  BY DEF Init
<1>4. since \in [Agents -> Nat] /\ waiting = {} /\ active = {} /\ ran = {}
  BY DEF Init
<1> QED
  BY <1>1, <1>2, <1>3, <1>4, <1>5, <1>6 DEF TypeOK

LEMMA TypesStep == TypeOK /\ [Next]_vars => TypeOK'
<1> SUFFICES ASSUME TypeOK, [Next]_vars PROVE TypeOK'
  OBVIOUS
<1> USE DEF Goto, Phases, taskVars, planVars
<1>0. ThinkingTypeOK'
  BY Kinds
<1>1. CASE RoundBegins
  BY <1>0, <1>1 DEF TypeOK, RoundBegins, NoPlan
<1>2. CASE PlansStep
  BY <1>0, <1>2 DEF TypeOK, PlansStep, TakePlan, Plans
<1>3. CASE SeeksStep \/ EndingStep
  BY <1>0, <1>3 DEF TypeOK, SeeksStep, Planning, EndingStep, Ending
<1>4. CASE PassOver
  BY <1>0, <1>4 DEF TypeOK, PassOver
<1>10. CASE StepEnds
  BY <1>0, <1>10 DEF TypeOK, StepEnds
<1>9. CASE StepsEnd
  BY <1>0, <1>9 DEF TypeOK, StepsEnd
<1>5. CASE EnterStep
  <2>1. step \in 1..Len(plan.steps)
    BY <1>5 DEF TypeOK, EnterStep
  <2>2. waiting' \in SUBSET (Nat \ {0})
    BY <1>5, <2>1, StepAt DEF EnterStep
  <2> QED
    BY <1>0, <1>5, <2>2 DEF TypeOK, EnterStep
<1>6. ASSUME NEW i \in waiting, StartTask(i) PROVE TypeOK'
  <2>1. <<step, i>> \in (Nat \ {0}) \X (Nat \ {0})
    BY DEF TypeOK
  <2>2. ran' \in SUBSET ((Nat \ {0}) \X (Nat \ {0}))
    BY <1>6, <2>1 DEF TypeOK, StartTask
  <2> QED
    BY <1>0, <1>6, <2>2 DEF TypeOK, StartTask
<1>7. ASSUME NEW i \in active, NEW text \in BOOLEAN, NEW recorded \in BOOLEAN,
             TaskEnds(i, text, recorded)
      PROVE  TypeOK'
  BY <1>0, <1>7 DEF TypeOK, TaskEnds
<1>8. CASE UNCHANGED <<phase, planVars, taskVars, dirty>>
  BY <1>0, <1>8 DEF TypeOK
<1> QED
  BY <1>1, <1>2, <1>3, <1>4, <1>5, <1>6, <1>7, <1>8, <1>9, <1>10,
     Kinds

\* Every variable of a round keeps its type, whatever plans are written and however
\* tasks end.
THEOREM TypeCorrect == SafeSpec => []TypeOK
BY TypesStart, TypesStep, PTL DEF SafeSpec

-----------------------------------------------------------------------------

\* The inductive invariant: steps between rounds, and before and after the plan.

LEMMA PlanInvStarts == Init => PlanInv
<1> SUFFICES ASSUME Init PROVE PlanInv
  OBVIOUS
<1>1. Cardinality({}) = 0 /\ IsFiniteSet({})
  BY FS_EmptySet
<1> QED
  BY <1>1, TypesStart, PlanAssumption
  DEF Init, PlanInv, PlanningFresh, Planning, StepInPlan, CurrentStep, PastStepsWhole,
      RanAreTasks, ResultsCome, InOrder, NoPlan

LEMMA RoundBeginsInv == ASSUME PlanInv, TypeOK', RoundBegins PROVE PlanInv'
BY DEF RoundBegins, Goto, PlanInv, PlanningFresh, Planning, StepInPlan, CurrentStep,
       PastStepsWhole, RanAreTasks, ResultsCome, InOrder, NoPlan

LEMMA PlansInv == ASSUME PlanInv, TypeOK', PlansStep PROVE PlanInv'
BY DEF PlansStep, TakePlan, taskVars, Goto, PlanInv, PlanningFresh, Planning, StepInPlan,
       CurrentStep, PastStepsWhole, RanAreTasks, ResultsCome, InOrder, NoPlan, TypeOK

LEMMA OutsideInv == ASSUME PlanInv, TypeOK', SeeksStep \/ EndingStep PROVE PlanInv'
<1> USE DEF SeeksStep, EndingStep, taskVars, planVars, Planning, Ending
<1>1. phase' \notin {"pick", "run"} /\ phase \notin {"pick", "run"}
  OBVIOUS
<1>2. phase' \in Planning => phase \in Planning
  OBVIOUS
<1>3. PlanningFresh' /\ StepInPlan' /\ CurrentStep' /\ InOrder'
  BY <1>1, <1>2 DEF PlanInv, PlanningFresh, StepInPlan, CurrentStep, InOrder
<1>4. PastStepsWhole' /\ RanAreTasks' /\ ResultsCome'
  BY <1>1 DEF PlanInv, PastStepsWhole, RanAreTasks, ResultsCome, RanIn, Satisfied, Tasks
<1> QED
  BY <1>3, <1>4 DEF PlanInv

LEMMA StepsEndInv == ASSUME PlanInv, TypeOK', StepsEnd PROVE PlanInv'
<1> USE DEF StepsEnd, taskVars, planVars, Goto
<1>1. phase = "pick" /\ phase' \in {"selfSummary", "summary"}
  OBVIOUS
<1>2. step = Len(plan.steps) + 1
  BY DEF PlanInv, StepInPlan, TypeOK
<1>3. PlanningFresh' /\ StepInPlan' /\ CurrentStep' /\ InOrder'
  BY <1>1, <1>2 DEF PlanInv, PlanningFresh, Planning, StepInPlan, CurrentStep, InOrder
<1>4. PastStepsWhole' /\ RanAreTasks' /\ ResultsCome'
  BY <1>1 DEF PlanInv, PastStepsWhole, RanAreTasks, ResultsCome, RanIn, Satisfied, Tasks
<1> QED
  BY <1>3, <1>4 DEF PlanInv

-----------------------------------------------------------------------------

\* The same, within the plan.

\* What a step had when its turn came does not change by results of later steps.
LEMMA PassOverInv == ASSUME PlanInv, TypeOK', PassOver PROVE PlanInv'
<1> USE DEF PassOver, planVars
<1>1. phase = "pick" /\ phase' = "pick" /\ step \in 1..Len(plan.steps) /\ step' = step + 1
  BY DEF PlanInv, TypeOK
<1>2. PlanningFresh' /\ StepInPlan' /\ CurrentStep' /\ InOrder'
  BY <1>1 DEF PlanInv, PlanningFresh, Planning, StepInPlan, CurrentStep, InOrder, TypeOK
<1>3. RanIn(step) = {}
  BY <1>1 DEF PlanInv, RanAreTasks, RanIn, TypeOK
<1>4. Satisfied(step) <=> DependenciesMet(step)
  <2>1. plan.steps[step].after \subseteq Agents
    BY <1>1, StepAt DEF PlanInv, Steps
  <2> QED
    BY <1>1, <2>1 DEF PlanInv, ResultsCome, Satisfied, DependenciesMet, TypeOK
<1>5. PastStepsWhole'
  <2> SUFFICES ASSUME NEW k \in 1..step
               PROVE  RanIn(k) = IF Satisfied(k) THEN Tasks(k) ELSE {}
    BY <1>1 DEF PlanInv, TypeOK, PastStepsWhole, RanIn, Satisfied, Tasks
  <2>1. CASE k = step
    BY <1>3, <1>4, <2>1
  <2>2. CASE k # step
    BY <1>1, <2>2 DEF PlanInv, PastStepsWhole, TypeOK
  <2> QED
    BY <2>1, <2>2
<1>6. RanAreTasks' /\ ResultsCome'
  BY <1>1 DEF PlanInv, RanAreTasks, ResultsCome, TypeOK, Tasks
<1> QED
  BY <1>2, <1>5, <1>6 DEF PlanInv

LEMMA EnterStepInv == ASSUME PlanInv, TypeOK', EnterStep PROVE PlanInv'
<1> USE DEF EnterStep, planVars, Goto
<1>1. phase = "pick" /\ phase' = "run" /\ step \in 1..Len(plan.steps) /\ step' = step
  BY DEF PlanInv, TypeOK
<1>2. RanIn(step) = {} /\ active = {}
  BY <1>1 DEF PlanInv, RanAreTasks, RanIn, TypeOK, CurrentStep
<1>3. Satisfied(step)
  <2>1. plan.steps[step].after \subseteq Agents
    BY <1>1, StepAt DEF PlanInv, Steps
  <2> QED
    BY <1>1, <2>1 DEF PlanInv, ResultsCome, Satisfied, DependenciesMet, TypeOK
<1>4. CurrentStep'
  BY <1>1, <1>2, <1>3 DEF CurrentStep, RanIn, Satisfied, Tasks
<1>5. InOrder'
  BY <1>1, <1>2 DEF InOrder, Tasks
<1>6. PlanningFresh' /\ StepInPlan'
  BY <1>1 DEF PlanInv, PlanningFresh, Planning, StepInPlan
<1>7. PastStepsWhole' /\ RanAreTasks' /\ ResultsCome'
  BY <1>1 DEF PlanInv, PastStepsWhole, RanAreTasks, ResultsCome, RanIn, Satisfied, Tasks,
              TypeOK
<1> QED
  BY <1>1, <1>4, <1>5, <1>6, <1>7 DEF PlanInv

LEMMA StepEndsInv == ASSUME PlanInv, TypeOK', StepEnds PROVE PlanInv'
<1> USE DEF StepEnds, planVars, Goto
<1>1. phase = "run" /\ phase' = "pick" /\ step \in 1..Len(plan.steps) /\ step' = step + 1
  BY DEF PlanInv, TypeOK, StepInPlan
<1>2. RanIn(step) = Tasks(step) /\ Satisfied(step)
  BY <1>1 DEF PlanInv, CurrentStep
<1>3. PlanningFresh' /\ StepInPlan' /\ CurrentStep' /\ InOrder'
  BY <1>1 DEF PlanInv, PlanningFresh, Planning, StepInPlan, CurrentStep, InOrder, TypeOK
<1>4. PastStepsWhole'
  <2> SUFFICES ASSUME NEW k \in 1..step
               PROVE  RanIn(k) = IF Satisfied(k) THEN Tasks(k) ELSE {}
    BY <1>1 DEF PlanInv, TypeOK, PastStepsWhole, RanIn, Satisfied, Tasks
  <2>1. CASE k = step
    BY <1>2, <2>1
  <2>2. CASE k # step
    <3>1. k \in 1..(step - 1)
      BY <1>1, <2>2
    <3> QED
      BY <3>1 DEF PlanInv, PastStepsWhole
  <2> QED
    BY <2>1, <2>2
<1>5. RanAreTasks' /\ ResultsCome'
  BY <1>1 DEF PlanInv, RanAreTasks, ResultsCome, TypeOK, Tasks
<1> QED
  BY <1>3, <1>4, <1>5 DEF PlanInv

LEMMA StartTaskInv ==
  ASSUME PlanInv, TypeOK', NEW i \in waiting, StartTask(i) PROVE PlanInv'
<1> USE DEF StartTask, planVars
<1>1. phase = "run" /\ phase' = "run" /\ step \in 1..Len(plan.steps) /\ step' = step
  BY DEF PlanInv, TypeOK, StepInPlan
<1>2. i \in Tasks(step) /\ i \notin active
  BY <1>1 DEF PlanInv, CurrentStep
<1>3. /\ RanIn(step)' = RanIn(step) \cup {i}
      /\ \A k \in 1..(step - 1) : RanIn(k)' = RanIn(k)
  BY <1>1, <1>2 DEF RanIn, Tasks
<1>4. CurrentStep'
  BY <1>1, <1>2, <1>3 DEF PlanInv, CurrentStep, Satisfied, Tasks
<1>5. PastStepsWhole'
  BY <1>1, <1>3 DEF PlanInv, PastStepsWhole, Satisfied, Tasks
<1>6. PlanningFresh' /\ StepInPlan' /\ ResultsCome'
  BY <1>1 DEF PlanInv, PlanningFresh, Planning, StepInPlan, ResultsCome
<1>7. RanAreTasks'
  BY <1>1, <1>2 DEF PlanInv, RanAreTasks, Tasks, TypeOK
<1>8. InOrder'
  <2> SUFFICES ASSUME plan.steps[step].mode = "sequential" PROVE InOrder'
    BY DEF InOrder
  <2>1. active = {} /\ \A j \in waiting : i <= j
    BY DEF MayStart
  <2>2. \A j \in Tasks(step) : j \in Nat
    BY <1>1, StepAt DEF PlanInv
  <2>3. \A j \in Tasks(step) : i < j => j \in waiting
    BY <1>1 DEF PlanInv, InOrder
  <2>4. \A j \in waiting' : \A k \in Tasks(step) : j < k => k \in waiting'
    <3> SUFFICES ASSUME NEW j \in waiting', NEW k \in Tasks(step), j < k
                 PROVE  k \in waiting /\ k # i
      OBVIOUS
    <3>1. j \in waiting /\ i <= j /\ j \in Nat
      BY <2>1 DEF PlanInv, TypeOK
    <3>2. k \in waiting
      BY <1>1, <3>1 DEF PlanInv, InOrder
    <3>3. i \in Nat /\ k \in Nat
      BY <2>2, <1>2
    <3> HIDE DEF StartTask
    <3>4. k # i
      BY <3>1, <3>3
    <3> QED
      BY <3>2, <3>4
  <2>5. \A j \in Tasks(step) : j \in waiting' <=> i < j
    BY <2>1, <2>2, <2>3, <1>2
  <2> QED
    BY <1>1, <2>1, <2>4, <2>5 DEF InOrder, Tasks
<1>9. IsFiniteSet(active') /\ Cardinality(active') <= MaxParallel
  <2>1. IsFiniteSet(active) /\ Cardinality(active) \in Nat
    BY FS_CardinalityType DEF PlanInv
  <2>2. IsFiniteSet(active') /\ Cardinality(active') = Cardinality(active) + 1
    BY <1>2, <2>1, FS_AddElement
  <2>3. Cardinality(active) < MaxParallel
    BY <2>1, PlanAssumption, FS_EmptySet DEF MayStart
  <2> QED
    BY <2>1, <2>2, <2>3, PlanAssumption
<1> QED
  BY <1>4, <1>5, <1>6, <1>7, <1>8, <1>9 DEF PlanInv

\* A result dates from the current step, so it cannot change what was said of an
\* earlier one.
LEMMA TaskEndsInv ==
  ASSUME PlanInv, TypeOK', NEW i \in active, NEW text \in BOOLEAN,
         NEW recorded \in BOOLEAN, TaskEnds(i, text, recorded)
  PROVE  PlanInv'
<1> USE DEF TaskEnds, planVars
<1>1. phase = "run" /\ phase' = "run" /\ step \in 1..Len(plan.steps) /\ step' = step
  BY DEF PlanInv, TypeOK, StepInPlan, CurrentStep
<1>2. i \in Tasks(step)
  BY <1>1 DEF PlanInv, CurrentStep
<1> DEFINE b == AgentAt(step, i)
<1>3. b \in Agents /\ b \notin plan.skip
  BY <1>1, <1>2, StepAt DEF PlanInv, Tasks, AgentAt
<1>4. \A a \in Agents : since'[a] = since[a] \/ (a = b /\ since[a] = 0 /\ since'[a] = step)
  BY <1>3 DEF PlanInv, TypeOK
<1>5. \A k \in 1..step : \A a \in Agents : since'[a] \in 1..(k - 1) <=> since[a] \in 1..(k - 1)
  BY <1>1, <1>4 DEF PlanInv, TypeOK
<1>6. \A k \in 1..step : Satisfied(k)' <=> Satisfied(k)
  <2> SUFFICES ASSUME NEW k \in 1..step PROVE Satisfied(k)' <=> Satisfied(k)
    OBVIOUS
  <2>1. k \in 1..Len(plan.steps)
    BY <1>1 DEF PlanInv, TypeOK
  <2>2. plan.steps[k].after \subseteq Agents
    BY <2>1, StepAt DEF PlanInv, Steps
  <2> QED
    BY <1>5, <2>2 DEF Satisfied
<1>7. CurrentStep'
  BY <1>1, <1>6 DEF PlanInv, CurrentStep, RanIn, Tasks
<1>8. PastStepsWhole'
  <2>1. \A k \in 1..(step - 1) :
          RanIn(k)' = RanIn(k) /\ Tasks(k)' = Tasks(k) /\ (Satisfied(k)' <=> Satisfied(k))
    BY <1>1, <1>6 DEF RanIn, Tasks
  <2> QED
    BY <1>1, <2>1 DEF PlanInv, PastStepsWhole
<1>9. ResultsCome'
  BY <1>1, <1>3, <1>4 DEF PlanInv, ResultsCome, TypeOK
<1>10. PlanningFresh' /\ StepInPlan' /\ RanAreTasks'
  BY <1>1 DEF PlanInv, PlanningFresh, Planning, StepInPlan, RanAreTasks, Tasks
<1>11. InOrder'
  BY <1>1 DEF PlanInv, InOrder, Tasks
<1>12. IsFiniteSet(active') /\ Cardinality(active') <= MaxParallel
  <2>1. IsFiniteSet(active') /\ Cardinality(active') <= Cardinality(active)
    BY FS_Subset DEF PlanInv
  <2> QED
    BY <2>1, FS_CardinalityType, PlanAssumption DEF PlanInv
<1> QED
  BY <1>7, <1>8, <1>9, <1>10, <1>11, <1>12 DEF PlanInv

LEMMA PlanInvStep == PlanInv /\ [Next]_vars => PlanInv'
<1> SUFFICES ASSUME PlanInv, [Next]_vars PROVE PlanInv'
  OBVIOUS
<1>1. TypeOK /\ TypeOK'
  BY TypesStep DEF PlanInv
<1>2. CASE UNCHANGED <<phase, planVars, taskVars, dirty>>
  <2> USE <1>2 DEF planVars, taskVars
  <2>1. PlanningFresh' /\ StepInPlan' /\ CurrentStep' /\ InOrder'
    BY DEF PlanInv, PlanningFresh, StepInPlan, CurrentStep, InOrder, RanIn, Satisfied,
           Tasks
  <2>2. PastStepsWhole' /\ RanAreTasks' /\ ResultsCome'
    BY DEF PlanInv, PastStepsWhole, RanAreTasks, ResultsCome, RanIn, Satisfied, Tasks
  <2> QED
    BY <1>1, <2>1, <2>2 DEF PlanInv
<1> QED
  BY <1>1, <1>2, Kinds, RoundBeginsInv, PlansInv, OutsideInv, PassOverInv, EnterStepInv,
     StepEndsInv, StepsEndInv, StartTaskInv, TaskEndsInv

LEMMA PlanInvAlways == SafeSpec => []PlanInv
BY PlanInvStarts, PlanInvStep, PTL DEF SafeSpec

-----------------------------------------------------------------------------

\* Whatever a step asks for, an agent that the plan says to skip is not run, and no
\* dependency is taken for satisfied by it.
THEOREM SkippedStayOut == SafeSpec => []SkippedNeverRun
<1>1. PlanInv => SkippedNeverRun
  <2> SUFFICES ASSUME PlanInv, NEW a \in plan.skip
               PROVE  since[a] = 0 /\ \A task \in ran : AgentAt(task[1], task[2]) # a
    BY DEF SkippedNeverRun
  <2>1. a \in Agents
    BY DEF PlanInv, TypeOK
  <2> QED
    BY <2>1 DEF PlanInv, ResultsCome, RanAreTasks, Tasks, AgentAt
<1> QED
  BY <1>1, PlanInvAlways, PTL

\* Steps never overlap, tasks of a sequential step come one after the other in the
\* order of its list, and no parallel step has more than MaxParallel at work.
THEOREM StepsApart == SafeSpec => []StepsKeepApart
<1>1. PlanInv => StepsKeepApart
  <2> SUFFICES ASSUME PlanInv PROVE StepsKeepApart
    OBVIOUS
  <2>1. phase # "run" => waiting = {} /\ active = {}
    BY DEF PlanInv, CurrentStep
  <2>2. Cardinality(active) <= MaxParallel
    BY DEF PlanInv
  <2>3. ASSUME NEW i \in active, plan.steps[step].mode = "sequential"
        PROVE  active = {i} /\ \A j \in Tasks(step) : j \in waiting <=> i < j
    BY <2>1, <2>3 DEF PlanInv, InOrder
  <2> QED
    BY <2>1, <2>2, <2>3 DEF StepsKeepApart
<1> QED
  BY <1>1, PlanInvAlways, PTL

\* When results are summed up, each step has run all its tasks or, where one of its
\* dependencies gave no result before its turn, none.
THEOREM PlansCarriedOut == SafeSpec => []PlanCarriedOut
<1>1. PlanInv => PlanCarriedOut
  <2> SUFFICES ASSUME PlanInv, phase \in {"selfSummary", "summary", "save"},
                      NEW k \in DOMAIN plan.steps
               PROVE  {task[2] : task \in {t \in ran : t[1] = k}} =
                        IF Satisfied(k) THEN Tasks(k) ELSE {}
    BY DEF PlanCarriedOut, Satisfied
  <2>1. k \in 1..(step - 1)
    BY DEF PlanInv, StepInPlan, TypeOK
  <2>2. {task[2] : task \in {t \in ran : t[1] = k}} = RanIn(k)
    <3>1. \A t \in ran : t = <<t[1], t[2]>>
      BY DEF PlanInv, TypeOK
    <3>2. \A t \in ran : t[1] = k => t[2] \in DOMAIN plan.steps[k].agents
      BY DEF PlanInv, RanAreTasks, Tasks
    <3> QED
      BY <3>1, <3>2 DEF RanIn
  <2> QED
    BY <2>1, <2>2 DEF PlanInv, PastStepsWhole
<1> QED
  BY <1>1, PlanInvAlways, PTL

-----------------------------------------------------------------------------

LEMMA DependenciesStay ==
  ASSUME UndemandingWorkflows, KeepsDependencies(asked, plan), TypeOK, [Next]_vars
  PROVE  KeepsDependencies(asked, plan)'
<1>1. CASE RoundBegins
  BY <1>1 DEF RoundBegins, NoPlan, KeepsDependencies
<1>2. CASE PlansStep
  BY <1>2 DEF PlansStep, TakePlan
<1>3. CASE UNCHANGED <<asked, plan>>
  BY <1>3
<1> QED
  BY <1>1, <1>2, <1>3, Kinds
  DEF SeeksStep, PassOver, EnterStep, StepEnds, StepsEnd, StartTask, TaskEnds, EndingStep,
      planVars

\* Where dependencies of a workflow file do not come into it, an agent runs in a step
\* only when every agent the plan's author made the step depend on gave a result in
\* an earlier one.
THEOREM DependenciesSafe ==
  ASSUME UndemandingWorkflows PROVE SafeSpec => []DependenciesHonoured
<1>1. Init => KeepsDependencies(asked, plan)
  BY DEF Init, NoPlan, KeepsDependencies
<1>2. PlanInv /\ KeepsDependencies(asked, plan) => DependenciesHonoured
  <2> SUFFICES ASSUME PlanInv, KeepsDependencies(asked, plan),
                      NEW task \in ran, NEW a \in asked[task[1]].after
               PROVE  since[a] \in 1..(task[1] - 1)
    BY DEF DependenciesHonoured
  <2>1. /\ task = <<task[1], task[2]>> /\ task[1] \in DOMAIN plan.steps
        /\ task[2] \in Tasks(task[1]) /\ task[1] \in 1..step
        /\ phase # "run" => task[1] < step
    BY DEF PlanInv, RanAreTasks, TypeOK
  <2>2. a \in plan.steps[task[1]].after
    BY <2>1 DEF KeepsDependencies
  <2>3. task[2] \in RanIn(task[1])
    BY <2>1 DEF RanIn, Tasks
  <2>4. Satisfied(task[1])
    BY <2>1, <2>3 DEF PlanInv, PastStepsWhole, CurrentStep, TypeOK
  <2> QED
    BY <2>2, <2>4 DEF Satisfied
<1>3. TypeOK /\ KeepsDependencies(asked, plan) /\ [Next]_vars
        => KeepsDependencies(asked, plan)'
  BY DependenciesStay
<1> QED
  BY <1>1, <1>2, <1>3, TypeCorrect, PlanInvAlways, PTL DEF SafeSpec

-----------------------------------------------------------------------------

\* Who has run is registered, and a round with steps to come or behind it has a plan.
SavesInv ==
  /\ dirty => registered # {}
  /\ phase \notin Planning \cup {"idle"} => plan.steps # <<>>

LEMMA SavesInvStep == ASSUME SavesInv, PlanInv, [Next]_vars PROVE SavesInv'
<1> USE DEF SavesInv, planVars, taskVars, Goto
<1>0. TypeOK
  BY DEF PlanInv
<1>1. CASE RoundBegins
  BY <1>1 DEF RoundBegins, Planning
<1>2. CASE PlansStep
  BY <1>2 DEF PlansStep, TakePlan
<1>3. CASE SeeksStep
  BY <1>3 DEF SeeksStep, Planning
<1>8. CASE EndingStep
  <2>1. UNCHANGED <<registered, plan>> /\ (dirty' => dirty)
    BY <1>8 DEF EndingStep
  <2>2. phase \notin Planning \cup {"idle"}
    BY <1>8 DEF EndingStep, Ending, Planning
  <2> QED
    BY <2>1, <2>2
<1>4. CASE PassOver \/ EnterStep \/ StepEnds \/ StepsEnd
  BY <1>4 DEF PassOver, EnterStep, StepEnds, StepsEnd, Planning
<1>5. ASSUME NEW i \in waiting, StartTask(i) PROVE SavesInv'
  BY <1>5 DEF StartTask
<1>6. ASSUME NEW i \in active, NEW text \in BOOLEAN, NEW recorded \in BOOLEAN,
             TaskEnds(i, text, recorded)
      PROVE  SavesInv'
  BY <1>6 DEF TaskEnds
<1>7. CASE UNCHANGED <<phase, planVars, taskVars, dirty>>
  BY <1>7
<1> QED
  BY <1>0, <1>1, <1>2, <1>3, <1>4, <1>5, <1>6, <1>7, <1>8, Kinds

\* Runs that a round leaves unsaved, of whatever round they are, are left by its summary
\* or a failed save after the last step of a plan, never for want of one.
THEOREM UnsavedByFailureOrSummary == SafeSpec => LeftBySummaryOrFailure
<1>1. Init => SavesInv
  BY DEF Init, SavesInv
<1>2. SavesInv /\ PlanInv /\ [Next]_vars => SavesInv'
  BY SavesInvStep
<1>3. SavesInv /\ PlanInv /\ [Next]_vars
        => [phase # "idle" /\ phase' = "idle" /\ dirty'
              => /\ plan.steps # <<>> /\ step > Len(plan.steps)
                 /\ phase = "save" => Saves # {TRUE}]_vars
  <2> SUFFICES ASSUME SavesInv, PlanInv, [Next]_vars, phase # "idle", phase' = "idle", dirty'
               PROVE  /\ plan.steps # <<>> /\ step > Len(plan.steps)
                      /\ phase = "save" => Saves # {TRUE}
    OBVIOUS
  <2>1. TypeOK
    BY DEF PlanInv
  <2>2. SeeksStep \/ EndingStep
    BY <2>1, Kinds
    DEF RoundBegins, PlansStep, TakePlan, PassOver, EnterStep, StepEnds, StepsEnd, StartTask,
        TaskEnds, Goto
  <2>3. ~SeeksStep
    BY DEF SeeksStep, SavesInv, planVars
  <2>4. EndingStep
    BY <2>2, <2>3
  <2>5. phase \in Ending /\ (phase = "save" => Saves # {TRUE})
    BY <2>4 DEF EndingStep
  <2>6. step = Len(plan.steps) + 1 /\ plan.steps # <<>>
    BY <2>5 DEF PlanInv, StepInPlan, SavesInv, Ending, Planning
  <2>7. step > Len(plan.steps)
    BY <2>1, <2>6 DEF TypeOK
  <2> QED
    BY <2>5, <2>6, <2>7, Zenon
<1> QED
  BY <1>1, <1>2, <1>3, PlanInvAlways, PTL DEF SafeSpec, LeftBySummaryOrFailure

-----------------------------------------------------------------------------

\* A file has at most one named definition, and a directory at most one that counts.
LEMMA DefinedOnce ==
  ASSUME NEW dir, NEW d \in Defined(dir), NEW e \in Defined(dir) PROVE d = e
BY DEF Defined, Named

\* A definition that the registry takes from a file that can be parsed is the one the
\* agent is built from, unless none is found.
LEMMA SameDefinition ==
  ASSUME NEW dir, NEW d \in Defined(dir), NEW e \in LoadAgentDSL(dir) PROVE e = d
BY DEF Defined, Named, LoadAgentDSL

\* Whatever files define, an agent of a registry that could be read is built under the
\* name of its spec and with the spec's sub-skills, with a model or without, and also
\* where only one of the two readers can make sense of a file; or with none, if its
\* definition lists none and the spec has those that were found (registry.go:107-251,
\* dsl.go:224-294, executor.go:313-323).
THEOREM BuiltAsRegistered ==
  ASSUME NEW tree \in Trees, NEW onlyPositive \in BOOLEAN
  PROVE  Misbuilt(tree, onlyPositive) = {}
<1> SUFFICES ASSUME NEW s \in NewFileRegistry(tree, onlyPositive), NEW hasModel \in BOOLEAN
             PROVE  LET agent == BuildWorkerAgent(s, tree[s.dir], hasModel) IN
                    /\ agent.name = s.name
                    /\ \/ agent.subSkills = s.subSkills
                       \/ /\ \A d \in Defined(tree[s.dir]) : d.subSkills = {}
                          /\ agent.subSkills = {}
  BY DEF Misbuilt
<1>1. PICK k \in DOMAIN tree : \E d \in Defined(tree[k]) : s = SpecOf(k, tree[k], d)
  BY DEF NewFileRegistry
<1>2. PICK d \in Defined(tree[k]) : s = SpecOf(k, tree[k], d)
  BY <1>1
<1>3. /\ s.dir = k /\ s.name = d.name
      /\ d.subSkills # {} => s.subSkills = d.subSkills
  BY <1>2 DEF SpecOf
<1>4. \A e \in Defined(tree[k]) : e = d
  BY DefinedOnce
<1>5. CASE hasModel /\ LoadAgentDSL(tree[k]) # {}
  <2> DEFINE dsl == CHOOSE e \in LoadAgentDSL(tree[k]) : TRUE
  <2>1. dsl = d
    BY <1>5, SameDefinition
  <2>2. BuildWorkerAgent(s, tree[k], hasModel) = [name |-> d.name, subSkills |-> d.subSkills]
    BY <1>5, <2>1 DEF BuildWorkerAgent
  <2> QED
    BY <1>3, <1>4, <2>2
<1>6. CASE ~(hasModel /\ LoadAgentDSL(tree[k]) # {})
  <2>1. BuildWorkerAgent(s, tree[k], hasModel) = [name |-> s.name, subSkills |-> s.subSkills]
    BY <1>6 DEF BuildWorkerAgent
  <2> QED
    BY <1>3, <2>1
<1> QED
  BY <1>5, <1>6

\* No registry in use is made of a tree by which an agent would run under another name
\* than it is registered by, or with other sub-skills, but for those found that an agent
\* built from the AgentDSL never has, however large the trees.
THEOREM OnlyScannedEverLost == SafeSpec => []OnlyScannedSkillsLost
<1>1. Misfits = {}
  <2> SUFFICES ASSUME NEW t \in Skills \X BOOLEAN PROVE Misbuilt(t[1], t[2]) = {}
    BY DEF Misfits
  <2> QED
    BY BuiltAsRegistered, SkillAssumption
<1>2. OnlyScannedSkillsLost
  BY <1>1 DEF OnlyScannedSkillsLost
<1> QED
  BY <1>2, PTL
=============================================================================
