---------------------------- MODULE SkillRegistry ----------------------------
(***************************************************************************)
(* How a directory of skills becomes agents: NewFileRegistry of            *)
(* internal/agent/registry.go reads it once, at startup, for the registry; *)
(* LoadAgentDSL of internal/agent/dsl.go reads an agent's directory again  *)
(* when buildWorkerAgent (executor.go) makes the agent that is run, by     *)
(* rules of its own.                                                       *)
(*                                                                         *)
(* A tree is the sequence of its directories, in the order in which the    *)
(* walk comes to the file that counts.  Descriptions, report sections and  *)
(* prompts are left out.                                                   *)
(***************************************************************************)
EXTENDS Integers, Sequences

CONSTANTS
  Names,          \* what an agent may be called
  NoName,         \* the name of a definition without one
  Paths,          \* sub-skills
  Skills          \* the trees that may be read

\* What a file defines.  rest stands for the keys that only the AgentDSL has: the
\* registry does not notice when one of them cannot be parsed.
Definitions ==
  [name : Names \cup {NoName}, interval : Int, subSkills : SUBSET Paths,
   rest : {"fine", "bad"}]

\* An agent.yaml or a SKILL.md is missing, cannot be parsed or defines something; a
\* SKILL.md without frontmatter counts as one that cannot be parsed.
Files == [kind : {"absent", "bad"}] \cup [kind : {"parsed"}, def : Definitions]

\* scanned: the files of sub-skills/.
Directories == [yaml : Files, md : Files, scanned : SUBSET Paths]

Trees == Seq(Directories)

ASSUME SkillAssumption == NoName \notin Names /\ Skills \subseteq Trees

-----------------------------------------------------------------------------

\* The named definition in a file, if any.
Named(file) ==
  IF file.kind = "parsed" /\ file.def.name # NoName THEN {file.def} ELSE {}

\* Mutant of Defined.
DefinedByBoth(dir) == Named(dir.yaml) \cup Named(dir.md)

\* The agent that a directory defines: SKILL.md counts only where there is no
\* agent.yaml, be it one without a name.
Defined(dir) == Named(IF dir.yaml.kind = "absent" THEN dir.md ELSE dir.yaml)

\* Sub-skills that are not configured are looked for.
SpecOf(k, dir, def) ==
  [name |-> def.name, dir |-> k, interval |-> def.interval,
   subSkills |-> IF def.subSkills = {} THEN dir.scanned ELSE def.subSkills]

\* An agent.yaml that cannot be parsed fails the whole registry.
Loads(tree) == \A k \in DOMAIN tree : tree[k].yaml.kind # "bad"

\* With onlyPositive, agents without an interval are left out.  Of agents of one
\* name the last one stays.
NewFileRegistry(tree, onlyPositive) ==
  LET specs ==
        UNION {{SpecOf(k, tree[k], d) : d \in Defined(tree[k])} : k \in DOMAIN tree}
      kept == {s \in specs : onlyPositive => s.interval > 0}
  IN  {s \in kept : \A t \in kept : t.name = s.name => t.dir <= s.dir}

\* LoadAgentDSL: the definition it finds, if any.  It goes on to SKILL.md from an
\* agent.yaml without a name, but not from one it cannot parse.
LoadAgentDSL(dir) ==
  IF \/ dir.yaml.kind = "bad"
     \/ dir.yaml.kind = "parsed" /\ dir.yaml.def.rest = "bad" THEN {}
  ELSE IF Named(dir.yaml) # {} THEN Named(dir.yaml) ELSE Named(dir.md)

\* The agent that buildWorkerAgent makes: of the DSL if it loads and there is a
\* model for it, else of the spec.
BuildWorkerAgent(spec, dir, hasModel) ==
  IF hasModel /\ LoadAgentDSL(dir) # {}
  THEN LET dsl == CHOOSE d \in LoadAgentDSL(dir) : TRUE IN
       [name |-> dsl.name, subSkills |-> dsl.subSkills]
  ELSE [name |-> spec.name, subSkills |-> spec.subSkills]

\* The specs whose agent runs under another name than the one it is scheduled,
\* limited and recorded by, or with other sub-skills than the Spec's.  That it has none
\* is let pass where the Spec's were not configured but found.
Misbuilt(tree, onlyPositive) ==
  {s \in NewFileRegistry(tree, onlyPositive) :
     \E hasModel \in BOOLEAN :
       LET dir == tree[s.dir]
           agent == BuildWorkerAgent(s, dir, hasModel)
           found == \A d \in Defined(dir) : d.subSkills = {}
       IN  \/ agent.name # s.name
           \/ agent.subSkills # s.subSkills /\ ~(found /\ agent.subSkills = {})}

\* The registries that have such specs, and are made of a tree that can be read.
Misfits ==
  {NewFileRegistry(t[1], t[2]) :
     t \in {u \in Skills \X BOOLEAN : Loads(u[1]) /\ Misbuilt(u[1], u[2]) # {}}}

NamesIn(specs) == {s.name : s \in specs}
=============================================================================
