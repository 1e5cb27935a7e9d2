------------------------------ MODULE Thinking ------------------------------
(***************************************************************************)
(* ThinkAndExecute of internal/agent/thinking.go, which the self-driven    *)
(* orchestrator, summary and workers are made of: analyse the task, make a *)
(* plan if it is complex, have the model name commands, run them, have the *)
(* model report.  Whoever thinks ends it with ThinkingEnds.                *)
(*                                                                         *)
(* Of an answer of the model only what steers the rest is kept; an error,  *)
(* an empty answer and one that cannot be parsed are one failure.          *)
(***************************************************************************)
EXTENDS Sequences

CONSTANTS
  Outlines,       \* what the model may answer to createPlan: any JSON
  CommandLists    \* what the model may answer to PLAN_COMMANDS

\* What executeDirect makes of an element of the answer: it is no command, it is
\* a command that is not allowed or has no words, or it is run.
CommandKinds == {"other", "refused", "allowed"}

ASSUME ThinkingAssumption == CommandLists \subseteq Seq(CommandKinds)

VARIABLES
  thinking,   \* where ThinkAndExecute is
  outlines,   \* <<planJSON>> once there is a plan
  commands,   \* cmds not yet looked at
  results     \* results: what became of each command

thinkingVars == <<thinking, outlines, commands, results>>

\* The places where the model is asked.
Asking == {"analyse", "plan", "command", "report"}

ThinkingTypeOK ==
  /\ thinking \in {"none", "execute", "thought", "failed"} \cup Asking
  /\ outlines \in Seq(Outlines)
  /\ commands \in Seq(CommandKinds)
  /\ results \in Seq({"output", "error"})

ThinkingInit ==
  /\ thinking = "none"
  /\ outlines = <<>> /\ commands = <<>> /\ results = <<>>

Think(from, to) == thinking = from /\ thinking' = to

-----------------------------------------------------------------------------

ThinkingBegins ==
  /\ Think("none", "analyse")
  /\ UNCHANGED <<outlines, commands, results>>

\* A simple task goes on to its commands without a plan.
Analysed(complex) ==
  /\ Think("analyse", IF complex THEN "plan" ELSE "command")
  /\ UNCHANGED <<outlines, commands, results>>

Planned(outline) ==
  /\ Think("plan", "command")
  /\ outlines' = <<outline>>
  /\ UNCHANGED <<commands, results>>

CommandsNamed(list) ==
  /\ Think("command", "execute")
  /\ commands' = list
  /\ UNCHANGED <<outlines, results>>

\* A command that is refused or fails has its result, and the next one is run.
RunCommand ==
  /\ commands # <<>>
  /\ Think("execute", "execute")
  /\ commands' = Tail(commands)
  /\ \/ Head(commands) = "other" /\ UNCHANGED results
     \/ Head(commands) = "refused" /\ results' = Append(results, "error")
     \/ /\ Head(commands) = "allowed"
        /\ \E end \in {"output", "error"} : results' = Append(results, end)
  /\ UNCHANGED outlines

CommandsRun ==
  /\ commands = <<>>
  /\ Think("execute", "report")
  /\ UNCHANGED <<outlines, commands, results>>

\* The text of the report may be empty.
Reported ==
  /\ Think("report", "thought")
  /\ UNCHANGED <<outlines, commands, results>>

AskingFails ==
  /\ thinking \in Asking
  /\ thinking' = "failed"
  /\ UNCHANGED <<outlines, commands, results>>

ThinkingStep ==
  \/ \E complex \in BOOLEAN : Analysed(complex)
  \/ \E outline \in Outlines : Planned(outline)
  \/ \E list \in CommandLists : CommandsNamed(list)
  \/ RunCommand \/ CommandsRun \/ Reported \/ AskingFails

\* The caller takes the result, or the error, with which no plan comes.
ThinkingEnds(end) ==
  /\ Think(end, "none")
  /\ outlines' = <<>> /\ commands' = <<>> /\ results' = <<>>
=============================================================================
