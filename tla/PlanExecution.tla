--------------------------- MODULE PlanExecution ---------------------------
(***************************************************************************)
(* The intelligent round of internal/scheduler/scheduler.go: where its     *)
(* plan comes from, how internal/plan/plan.go reads it, the steps that are *)
(* run or passed over, the agents of a step run one by one or together,    *)
(* the summary and the save.                                               *)
(*                                                                         *)
(* Plan texts come from outside: a workflow file, the answer to the        *)
(* self-driven orchestrator's prompt or to the orchestrator's.  Execution  *)
(* of one agent is Executor's; here it gives a text or not and is recorded *)
(* or not.  Without an orchestrator or a summary the round is a simple one *)
(* (Scheduler).  The registry is made of a tree of skills (SkillRegistry). *)
(***************************************************************************)
EXTENDS Integers, FiniteSets, Thinking, SkillRegistry

CONSTANTS
  Agents,         \* names a plan may use
  Registries,     \* what the registry may hold when the scheduler is made
  Workflows,      \* what a workflow file may hold; {}: no path is set
  Answers,        \* what the model may answer to OrchestratorAgent.Plan
  SelfDriven,     \* is there a self-driven orchestrator?
  Traditional,    \* is there an OrchestratorAgent?
  SelfSummary,    \* is there a self-driven summary?
  Summary,        \* is there a SummaryAgent?
  MaxParallel,    \* maxParallel, 5 when cfg.MaxConcurrentAgents is not positive
  Saves           \* may a save succeed only ({TRUE}), or also fail?

Modes == {"parallel", "sequential"}

Steps == [agents : Seq(Agents), mode : Modes, after : SUBSET Agents]

\* A text that has been written: its steps, the agents_to_invoke of the legacy
\* format, and skip_agents.  after stands for depends_on.
Texts == [steps : Seq(Steps), invoke : Seq(Agents), skip : SUBSET Agents]

ASSUME PlanAssumption ==
  /\ \A names \in Registries : names \subseteq Agents /\ IsFiniteSet(names)
  /\ Workflows \subseteq Texts /\ Outlines \subseteq Texts /\ Answers \subseteq Texts
  /\ {SelfDriven, Traditional, SelfSummary, Summary} \subseteq BOOLEAN
  /\ SelfDriven \/ Traditional
  /\ SelfSummary \/ Summary
  /\ MaxParallel \in Nat \ {0}
  /\ Saves \in {{TRUE}, {TRUE, FALSE}}

VARIABLES
  registered, \* the names in the registry
  phase,      \* where the round is
  asked,      \* history: the steps as the author of the plan wrote them
  plan,       \* planObj: steps and skip
  step,       \* stepIdx + 1
  waiting,    \* tasks of the step that have not begun: indices into its agents
  active,     \* tasks of the step that hold sem, or the sequential one
  since,      \* results: the step whose task gave an agent a result, 0 if none
  ran,        \* history: <<step, task>> begun in this round
  dirty       \* StatePersistence.dirty

planVars == <<registered, asked, plan>>
taskVars == <<step, waiting, active, since, ran>>
vars == <<phase, planVars, taskVars, dirty, thinkingVars>>

Phases == {"idle", "workflow", "selfDriven", "traditional", "fallback",
           "pick", "run", "selfSummary", "summary", "save"}

NoPlan == [steps |-> <<>>, skip |-> {}]

TypeOK ==
  /\ registered \in Registries
  /\ phase \in Phases
  /\ asked \in Seq(Steps)
  /\ plan \in [steps : Seq(Steps), skip : SUBSET Agents]
  /\ step \in Nat \ {0}
  /\ waiting \in SUBSET (Nat \ {0})
  /\ active \in SUBSET (Nat \ {0})
  /\ since \in [Agents -> Nat]
  /\ ran \in SUBSET ((Nat \ {0}) \X (Nat \ {0}))
  /\ dirty \in BOOLEAN
  /\ ThinkingTypeOK

Init ==
  /\ registered \in Registries
  /\ phase = "idle"
  /\ asked = <<>> /\ plan = NoPlan
  /\ step = 1 /\ waiting = {} /\ active = {}
  /\ since = [a \in Agents |-> 0]
  /\ ran = {}
  /\ dirty = FALSE
  /\ ThinkingInit

Goto(from, to) == phase = from /\ phase' = to

-----------------------------------------------------------------------------

Legacy(agents) == [agents |-> agents, mode |-> "parallel", after |-> {}]

\* FromJSON: steps as they are; the legacy format is one parallel step.
FromJSON(text) ==
  [steps |-> IF text.steps = <<>> /\ text.invoke # <<>>
             THEN <<Legacy(text.invoke)>> ELSE text.steps,
   skip |-> text.skip]

\* LoadFromFile unmarshals YAML into the same Step, whose fields carry json tags
\* only: yaml.v3 then wants the key dependson, and a documented depends_on (and
\* focus_areas and timeout_seconds) is not read.
LoadFromFile(text) ==
  [steps |-> [k \in DOMAIN text.steps |-> [text.steps[k] EXCEPT !.after = {}]],
   skip |-> text.skip]

AgentAt(k, i) == plan.steps[k].agents[i]

\* Mutants of Tasks and DependenciesMet, used to show what the properties detect.
TasksIgnoringSkips(k) == DOMAIN plan.steps[k].agents

DependenciesPlanned(k) ==
  \A a \in plan.steps[k].after :
    \E j \in 1..(k - 1) : \E i \in DOMAIN plan.steps[j].agents : AgentAt(j, i) = a

\* Tasks of step k: its agents less those to skip, by their index.
Tasks(k) ==
  {i \in DOMAIN plan.steps[k].agents : plan.steps[k].agents[i] \notin plan.skip}

DependenciesMet(k) == \A a \in plan.steps[k].after : since[a] # 0

-----------------------------------------------------------------------------

\* Mutants of the definitions below, used to show what the properties detect.
StartTaskAnyMode(i) ==
  /\ phase = "run" /\ i \in waiting
  /\ Cardinality(active) < MaxParallel
  /\ waiting' = waiting \ {i} /\ active' = active \cup {i}
  /\ ran' = ran \cup {<<step, i>>}
  /\ UNCHANGED <<phase, planVars, step, since, dirty, thinkingVars>>

TaskEndsKeepingSem(i, text, recorded) ==
  /\ i \in active
  /\ text => recorded
  /\ since' = [since EXCEPT ![AgentAt(step, i)] = IF text /\ @ = 0 THEN step ELSE @]
  /\ dirty' = (dirty \/ recorded)
  /\ UNCHANGED <<phase, planVars, step, waiting, active, ran, thinkingVars>>

PassOverUnfiltered ==
  /\ phase = "pick" /\ step <= Len(plan.steps)
  /\ \/ plan.steps[step].agents = <<>> \/ ~DependenciesMet(step)
     \/ \E a \in plan.skip : \E i \in DOMAIN plan.steps[step].agents : AgentAt(step, i) = a
  /\ step' = step + 1
  /\ UNCHANGED <<phase, planVars, waiting, active, since, ran, dirty, thinkingVars>>

-----------------------------------------------------------------------------

\* A tick takes the loop into a round.
RoundBegins ==
  /\ Goto("idle", "workflow")
  /\ asked' = <<>> /\ plan' = NoPlan
  /\ step' = 1 /\ since' = [a \in Agents |-> 0] /\ ran' = {}
  /\ UNCHANGED <<registered, waiting, active, dirty, thinkingVars>>

TakePlan(from, steps, p) ==
  /\ Goto(from, "pick")
  /\ p.steps # <<>>
  /\ asked' = steps /\ plan' = p
  /\ UNCHANGED <<registered, taskVars, dirty>>

\* A source that is missing, fails or has no steps: on to the next one.
NoPlanFrom(from, to) ==
  /\ Goto(from, to)
  /\ UNCHANGED <<planVars, taskVars, dirty>>

PlanFromWorkflow(text) ==
  TakePlan("workflow", text.steps, LoadFromFile(text))

\* The self-driven orchestrator thinks, and the plan is the outline it then has:
\* none for a task found simple.
OrchestratorThinks ==
  /\ phase = "selfDriven"
  /\ ThinkingBegins \/ ThinkingStep
  /\ UNCHANGED <<phase, planVars, taskVars, dirty>>

PlanFromOutline(text) ==
  /\ outlines = <<text>> /\ ThinkingEnds("thought")
  /\ TakePlan("selfDriven", FromJSON(text).steps, FromJSON(text))

NoOutline ==
  /\ \/ ThinkingEnds("failed")
     \/ /\ \A text \in Outlines : outlines = <<text>> => FromJSON(text).steps = <<>>
        /\ ThinkingEnds("thought")
  /\ NoPlanFrom("selfDriven", "traditional")

PlanSelfDriven ==
  OrchestratorThinks \/ (\E text \in Outlines : PlanFromOutline(text)) \/ NoOutline

PlanFromAnswer(text) ==
  /\ Traditional
  /\ TakePlan("traditional", FromJSON(text).steps, FromJSON(text))

\* createFallbackPlan: one parallel step of every agent there is.
FallbackPlan(names) ==
  /\ registered # {}
  /\ {names[i] : i \in DOMAIN names} = registered
  /\ Len(names) = Cardinality(registered)
  /\ TakePlan("fallback", <<Legacy(names)>>, [steps |-> <<Legacy(names)>>, skip |-> {}])

\* Mutant of NothingToPlan.
NothingToPlanGivesUp == NoPlanFrom("fallback", "idle")

NothingToPlan ==
  /\ registered = {}
  /\ NoPlanFrom("fallback", "idle")

PlanOtherwise ==
  \/ \E text \in Workflows : PlanFromWorkflow(text)
  \/ NoPlanFrom("workflow", IF SelfDriven THEN "selfDriven" ELSE "traditional")
  \/ \E text \in Answers : PlanFromAnswer(text)
  \/ NoPlanFrom("traditional", "fallback")
  \/ \E names \in [1..Cardinality(registered) -> registered] : FallbackPlan(names)
  \/ NothingToPlan

Plan == PlanSelfDriven \/ (PlanOtherwise /\ UNCHANGED thinkingVars)

-----------------------------------------------------------------------------

\* A step without agents, with a dependency that has no result, or with nothing
\* left after skip_agents is passed over.
PassOver ==
  /\ phase = "pick" /\ step <= Len(plan.steps)
  /\ Tasks(step) = {} \/ ~DependenciesMet(step)
  /\ step' = step + 1
  /\ UNCHANGED <<phase, planVars, waiting, active, since, ran, dirty, thinkingVars>>

EnterStep ==
  /\ step <= Len(plan.steps)
  /\ Goto("pick", "run")
  /\ Tasks(step) # {} /\ DependenciesMet(step)
  /\ waiting' = Tasks(step)
  /\ UNCHANGED <<planVars, step, active, since, ran, dirty, thinkingVars>>

\* Any mode but sequential is parallel: a goroutine per task, each taking sem.
MayStart(i) ==
  IF plan.steps[step].mode = "sequential"
  THEN active = {} /\ \A j \in waiting : i <= j
  ELSE Cardinality(active) < MaxParallel

StartTask(i) ==
  /\ phase = "run" /\ i \in waiting
  /\ MayStart(i)
  /\ waiting' = waiting \ {i} /\ active' = active \cup {i}
  /\ ran' = ran \cup {<<step, i>>}
  /\ UNCHANGED <<phase, planVars, step, since, dirty, thinkingVars>>

\* Execute returns, with a text or without, and has recorded the run unless the
\* agent is unknown, its circuit open or a backoff cancelled.
TaskEnds(i, text, recorded) ==
  /\ i \in active
  /\ text => recorded
  /\ recorded => AgentAt(step, i) \in registered
  /\ active' = active \ {i}
  /\ since' = [since EXCEPT ![AgentAt(step, i)] = IF text /\ @ = 0 THEN step ELSE @]
  /\ dirty' = (dirty \/ recorded)
  /\ UNCHANGED <<phase, planVars, step, waiting, ran, thinkingVars>>

StepEnds ==
  /\ Goto("run", "pick")
  /\ waiting = {} /\ active = {}
  /\ step' = step + 1
  /\ UNCHANGED <<planVars, waiting, active, since, ran, dirty, thinkingVars>>

StepsEnd ==
  /\ step > Len(plan.steps)
  /\ Goto("pick", IF SelfSummary THEN "selfSummary" ELSE "summary")
  /\ UNCHANGED <<planVars, taskVars, dirty, thinkingVars>>

RunSteps ==
  \/ PassOver \/ EnterStep \/ StepEnds \/ StepsEnd
  \/ \E i \in waiting : StartTask(i)
  \/ \E i \in active, text, recorded \in BOOLEAN : TaskEnds(i, text, recorded)

-----------------------------------------------------------------------------

Finish(from, to) ==
  /\ Goto(from, to)
  /\ UNCHANGED <<planVars, taskVars, dirty>>

SummaryThinks ==
  /\ phase = "selfSummary"
  /\ ThinkingBegins \/ ThinkingStep
  /\ UNCHANGED <<phase, planVars, taskVars, dirty>>

\* The self-driven summary, when it succeeds, ends the round before the save, as
\* does a SummaryAgent that fails.
SelfSummarises == ThinkingEnds("thought") /\ Finish("selfSummary", "idle")
SelfSummaryFails ==
  /\ ThinkingEnds("failed")
  /\ Finish("selfSummary", IF Summary THEN "summary" ELSE "save")

Summarises == Summary /\ Finish("summary", "save") /\ UNCHANGED thinkingVars
SummaryFails == Summary /\ Finish("summary", "idle") /\ UNCHANGED thinkingVars

SaveIfDirty ==
  /\ Goto("save", "idle")
  /\ \E ok \in Saves : dirty' = (dirty /\ ~ok)
  /\ UNCHANGED <<planVars, taskVars, thinkingVars>>

Conclude ==
  \/ SummaryThinks \/ SelfSummarises \/ SelfSummaryFails
  \/ Summarises \/ SummaryFails \/ SaveIfDirty

Next == RoundBegins \/ Plan \/ RunSteps \/ Conclude

\* The round waits for the model, or for a command that thinking runs.  Its context is
\* the one Start was given, which has no deadline: an answer may never come, and kubectl
\* logs -f or get -w may run on (scheduler.go:135, 270 and 421, thinking.go:342-378).
AwaitsOutside ==
  \/ phase = "traditional" /\ Traditional
  \/ phase = "summary"
  \/ thinking \in Asking
  \/ thinking = "execute" /\ commands # <<>> /\ Head(commands) = "allowed"

\* Fairness: the loop and the goroutines of a step run when they can, and executions,
\* which have a deadline, end (Executor!CallsReturn).  Nothing is assumed of what the
\* round waits for outside.
Fairness ==
  /\ WF_vars(Plan /\ ~AwaitsOutside)
  /\ WF_vars(RunSteps)
  /\ WF_vars(Conclude /\ ~AwaitsOutside)

SafeSpec == Init /\ [][Next]_vars

Spec == SafeSpec /\ Fairness

-----------------------------------------------------------------------------

\* An agent runs in a step only when every agent the plan's author made that step
\* depend on gave a result in an earlier step of the round.
\* docs/plan-centric-architecture.md:84: "Agents listed in `depends_on` must have
\* been executed and produced results in earlier steps".
DependenciesHonoured ==
  \A task \in ran : \A a \in asked[task[1]].after : since[a] \in 1..(task[1] - 1)

\* An agent that the plan says to skip is run in no step, whatever the step asks
\* for, and no result of it can satisfy a dependency (scheduler.go:315-331).
SkippedNeverRun ==
  \A a \in plan.skip :
    since[a] = 0 /\ \A task \in ran : AgentAt(task[1], task[2]) # a

\* Steps do not overlap: agents at work are agents of the current step, one at a
\* time in a sequential step and in the order of the list, at most MaxParallel
\* in a parallel one (scheduler.go:354-399).
StepsKeepApart ==
  /\ phase # "run" => waiting = {} /\ active = {}
  /\ Cardinality(active) <= MaxParallel
  /\ \A i \in active : plan.steps[step].mode = "sequential"
        => active = {i} /\ \A j \in Tasks(step) : j \in waiting <=> i < j

\* By the time the results are summed up, every step has run all its agents or,
\* for want of a dependency's result, none: no step is half done, and one whose
\* dependencies all gave results before its turn is not passed over.
PlanCarriedOut ==
  phase \in {"selfSummary", "summary", "save"} =>
    \A k \in DOMAIN plan.steps :
      {task[2] : task \in {t \in ran : t[1] = k}} =
        IF \A a \in plan.steps[k].after : since[a] \in 1..(k - 1)
        THEN Tasks(k) ELSE {}

\* A plan that is carried out names somebody to run: the planners before it may fail,
\* but then docs/usage-guide.md:61 says: "If both fail, run all agents in parallel";
\* plan.go:174: "IsEmpty checks if plan has no valid steps."
PlansNameAgents ==
  phase = "pick" => \E k \in DOMAIN plan.steps : plan.steps[k].agents # <<>>

\* Runs left unsaved at the end of a round, its own or those of earlier ones, are left
\* by a plan that was carried out to its last step, and then by the summary or by a
\* save that failed: no round that cannot be planned ends with runs that it should
\* have saved (scheduler.go:261-293 and 419-437).
LeftBySummaryOrFailure ==
  [][phase # "idle" /\ phase' = "idle" /\ dirty'
       => /\ plan.steps # <<>> /\ step > Len(plan.steps)
          /\ phase = "save" => Saves # {TRUE}]_vars

\* No tree of skills makes a registry like the one in use and an agent that, when it
\* is built from its directory again, has another name than its Spec, so that limits,
\* breaker and records are kept for a name it does not run by, or other sub-skills than
\* its Spec, but for one loss: where none are configured, the registry gives the Spec
\* those it finds in sub-skills/, and the agent that is built from the AgentDSL has
\* none.  Registry and agents are read by two pieces of code, of files that one of them
\* may take and the other refuse (registry.go:107-251, dsl.go:224-294,
\* executor.go:313-323).
OnlyScannedSkillsLost == \A specs \in Misfits : NamesIn(specs) # registered

\* A round comes to its end whatever its plan, failures and dependencies, unless it
\* waits for ever for one answer of the model or one command (scheduler.go:261-437).
RoundsEnd == []<>(phase = "idle") \/ <>[]AwaitsOutside
=============================================================================
