----------------------------- MODULE MCExecutor -----------------------------
\* An instance of Executor: three overlapping calls of one agent, with the breaker,
\* the slots and the records they share, and a call of an unknown agent.
EXTENDS Executor, TLC

CONSTANTS a1, a2, c1, c2, c3, c4

ThreeCalls == {c1, c2, c3}
FourCalls == ThreeCalls \cup {c4}
OneAgent == {a1}
TwoAgents == {a1, a2}
AllOfOne == [c \in ThreeCalls |-> a1]
OneUnknown == [c \in FourCalls |-> IF c = c4 THEN a2 ELSE a1]

CallSymmetry == Permutations(ThreeCalls)
=============================================================================
