---------------------------- MODULE MCScheduler ----------------------------
\* Two loops, so that a stopped one may still be in its round when the next is
\* started, and one triggered round beside them.
EXTENDS Scheduler

CONSTANTS a1, l1, l2, t1

OneAgent == {a1}
TwoLoops == {l1, l2}
OneTrigger == {t1}
EveryTwoSeconds == [a \in OneAgent |-> 2]
Always == {TRUE}
=============================================================================
