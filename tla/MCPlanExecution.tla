-------------------------- MODULE MCPlanExecution --------------------------
\* Plans of up to two steps over two agents, one of them perhaps unknown to the
\* registry, and a few of three steps, with and without agents to skip.
EXTENDS PlanExecution

CONSTANTS a, b, p

TwoAgents == {a, b}
Both == {TwoAgents}
AllOrNone == {TwoAgents, {}}

Lists == {<<>>, <<a>>, <<b>>, <<a, b>>, <<b, a, b>>}

SmallSteps ==
  {s \in [agents : Lists, mode : Modes, after : {{}, {a}}] :
     Len(s.agents) < 2 => s.mode = "sequential"}

Text(steps, invoke, skip) == [steps |-> steps, invoke |-> invoke, skip |-> skip]

TwoSteps ==
  {Text(<<s, t>>, <<>>, skip) : s, t \in SmallSteps, skip \in {{}, {b}}}

Chain ==
  LET Seq1(l, d) == [agents |-> l, mode |-> "sequential", after |-> d] IN
  Text(<<Seq1(<<a>>, {}), Seq1(<<b>>, {a}), Seq1(<<a, b>>, {a, b})>>, <<>>, {})

LegacyTexts == {Text(<<>>, <<a, b>>, {}), Text(<<>>, <<>>, {})}

AllTexts == TwoSteps \cup {Chain} \cup LegacyTexts

\* What createPlan's prompt asks for: steps with depends_on and no agents.
Descriptions ==
  {Text(<<[agents |-> <<>>, mode |-> "parallel", after |-> {}]>>, <<>>, {})}

\* The same, and JSON that is no plan.
DescriptionsOrNoPlan == Descriptions \cup {Text(<<>>, <<>>, {})}

\* Saves that may fail.
MayFail == BOOLEAN

\* A workflow file whose steps depend on nothing.
Undemanding ==
  {Text(<<[agents |-> <<a, b>>, mode |-> "parallel", after |-> {}],
          [agents |-> <<b>>, mode |-> "sequential", after |-> {}]>>, <<>>, {b})}

NoTexts == {}

\* No command, and one of each kind.
TwoLists == {<<>>, <<"other", "refused", "allowed">>}

-----------------------------------------------------------------------------

\* Trees of two directories.  Only an agent with sub-skills has an interval.
OnePath == {p}
SomeDefinitions ==
  [name : Names \cup {NoName}, interval : {0}, subSkills : {{}}, rest : {"fine", "bad"}]
  \cup [name : Names, interval : {1}, subSkills : {Paths}, rest : {"fine"}]
SomeFiles == [kind : {"absent", "bad"}] \cup [kind : {"parsed"}, def : SomeDefinitions]
SomeDirectories == [yaml : SomeFiles, md : SomeFiles, scanned : {{}, Paths}]
SomeTrees == {<<d, e>> : d, e \in SomeDirectories}
=============================================================================
