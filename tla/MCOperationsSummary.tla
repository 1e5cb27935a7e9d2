------------------------ MODULE MCOperationsSummary ------------------------
\* Two executions of one agent, which may be recorded one after the other or at
\* once, beside a reader.
EXTENDS OperationsSummary

CONSTANTS a1, c1, c2

TwoCalls == {c1, c2}
OneAgent == {a1}
AllOfOne == [c \in TwoCalls |-> a1]
OnlyC1 == {c1}

\* The program starts without a state file.
NoFile == {[a \in OneAgent |-> [runs |-> 0, failed |-> 0, consecutive |-> 0]]}
=============================================================================
