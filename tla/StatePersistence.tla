-------------------------- MODULE StatePersistence --------------------------
(***************************************************************************)
(* StatePersistence of internal/runtime/state.go: the run history of each  *)
(* agent, kept in memory under a mutex and saved to a file by writing a    *)
(* temporary file and renaming it.                                         *)
(*                                                                         *)
(* Save holds the mutex from end to end, so no update falls between its    *)
(* steps, but the process may die between any two of them and each file    *)
(* operation may fail.  A crash is the death of the process: what the      *)
(* operating system has taken stays.                                       *)
(*                                                                         *)
(* An agent without an entry is modelled as one with a zero entry, which   *)
(* every reader treats alike.  Pipelines, never written, and LastSaved and *)
(* Version, never read, are left out.                                      *)
(***************************************************************************)
EXTENDS Integers

CONSTANTS
  Agents,
  PersistState,    \* cfg.PersistState
  MaxRuns,         \* bound on the runs of an agent, for model checking
  MaxTime          \* bound on the clock, in seconds, for model checking

ASSUME PersistenceAssumption ==
  /\ PersistState \in BOOLEAN
  /\ MaxRuns \in Nat
  /\ MaxTime \in Nat \ {0}

VARIABLES
  now,       \* the clock, in whole seconds
  mem,       \* StatePersistence.state.Agents
  dirty,     \* StatePersistence.dirty
  process,   \* life of the process: "down", "starting" until the first Load
             \* has been tried, then "up"
  saving,    \* where Save is: "no", "writing" or "renaming"
  file,      \* cfg.StateFile
  tmp,       \* cfg.StateFile with .tmp
  unread     \* history: the process started without being able to read a file
             \* that is there, and no Load or Save has succeeded since

vars == <<now, mem, dirty, process, saving, file, tmp, unread>>

\* AgentState, without its name.
AgentState ==
  [runs : Nat, failed : Nat, consecutive : Nat, lastRun : Nat, lastSuccess : Nat]

NoRun == [runs |-> 0, failed |-> 0, consecutive |-> 0, lastRun |-> 0, lastSuccess |-> 0]

History == [Agents -> AgentState]
Fresh == [a \in Agents |-> NoRun]

\* Contents of a file: absent, cut short, or all of a history.
Absent == [kind |-> "absent", of |-> Fresh]
Torn == [kind |-> "torn", of |-> Fresh]
Whole(h) == [kind |-> "whole", of |-> h]

Contents == [kind : {"absent", "torn", "whole"}, of : History]

TypeOK ==
  /\ now \in Nat
  /\ mem \in History
  /\ dirty \in BOOLEAN
  /\ process \in {"down", "starting", "up"}
  /\ saving \in {"no", "writing", "renaming"}
  /\ file \in Contents
  /\ tmp \in Contents
  /\ unread \in BOOLEAN

Init ==
  /\ now = 1
  /\ mem = Fresh
  /\ dirty = FALSE
  /\ process = "starting"
  /\ saving = "no"
  /\ file = Absent
  /\ tmp = Absent
  /\ unread = FALSE

-----------------------------------------------------------------------------

\* Mutants of the definitions below, used to show what the properties detect.
RanOutlivesSuccess(s, t, success) ==
  [runs |-> s.runs + 1,
   failed |-> IF success THEN s.failed ELSE s.failed + 1,
   consecutive |-> s.consecutive + 1,
   lastRun |-> t,
   lastSuccess |-> IF success THEN t ELSE s.lastSuccess]

LoadTakesEmptyForAbsent ==
  /\ process # "down" /\ saving = "no"
  /\ process' = "up"
  /\ mem' = Fresh
  /\ unread' = FALSE
  /\ UNCHANGED <<now, dirty, saving, file, tmp>>

SaveInPlace ==
  /\ process = "up" /\ saving = "no"
  /\ PersistState
  /\ saving' = "writing"
  /\ file' = Torn
  /\ UNCHANGED <<now, mem, dirty, process, tmp, unread>>

WriteFailsCleans ==
  /\ saving = "writing"
  /\ saving' = "no"
  /\ dirty' = FALSE
  /\ UNCHANGED <<now, mem, process, file, tmp, unread>>

SaveRenamesUnwritten ==
  /\ saving \in {"writing", "renaming"}
  /\ saving' = "no"
  /\ file' = tmp
  /\ tmp' = Absent
  /\ dirty' = FALSE
  /\ unread' = FALSE
  /\ UNCHANGED <<now, mem, process>>

-----------------------------------------------------------------------------

\* One run more in an agent's entry.  t is when the caller took the time, which
\* may be before another caller that got the mutex first.
Ran(s, t, success) ==
  [runs |-> s.runs + 1,
   failed |-> IF success THEN s.failed ELSE s.failed + 1,
   consecutive |-> IF success THEN 0 ELSE s.consecutive + 1,
   lastRun |-> t,
   lastSuccess |-> IF success THEN t ELSE s.lastSuccess]

\* Executions end only after Start has called Load: at startup the scheduler is
\* started before the HTTP server listens (docs/workflow.md:24-30).
UpdateAgent(a, t, success) ==
  /\ process = "up" /\ saving = "no"
  /\ mem' = [mem EXCEPT ![a] = Ran(@, t, success)]
  /\ dirty' = TRUE
  /\ UNCHANGED <<now, process, saving, file, tmp, unread>>

\* Load, at startup and at every later Start of the scheduler.  It never
\* touches dirty.
Load ==
  /\ process # "down" /\ saving = "no"
  /\ process' = "up"
  /\ IF ~PersistState \/ file.kind = "absent"
     THEN mem' = Fresh
     ELSE file.kind = "whole" /\ mem' = file.of
  /\ unread' = FALSE
  /\ UNCHANGED <<now, dirty, saving, file, tmp>>

\* ReadFile or Unmarshal fails: the error is dropped and memory kept.
LoadFails ==
  /\ process # "down" /\ saving = "no"
  /\ PersistState
  /\ file.kind # "absent"
  /\ process' = "up"
  /\ unread' = (unread \/ process = "starting")
  /\ UNCHANGED <<now, mem, dirty, saving, file, tmp>>

\* Callers ask IsDirty first, in a critical section of its own, so by the time
\* they save another caller may have done so.  MkdirAll and Marshal come first
\* and change nothing here; opening the temporary file empties it.
SaveBegins ==
  /\ process = "up" /\ saving = "no"
  /\ PersistState
  /\ saving' = "writing"
  /\ tmp' = Torn
  /\ UNCHANGED <<now, mem, dirty, process, file, unread>>

SaveWrites ==
  /\ saving = "writing"
  /\ saving' = "renaming"
  /\ tmp' = Whole(mem)
  /\ UNCHANGED <<now, mem, dirty, process, file, unread>>

\* WriteFile fails: Save returns and leaves what was written.
WriteFails ==
  /\ saving = "writing"
  /\ saving' = "no"
  /\ UNCHANGED <<now, mem, dirty, process, file, tmp, unread>>

SaveRenames ==
  /\ saving = "renaming"
  /\ saving' = "no"
  /\ file' = tmp
  /\ tmp' = Absent
  /\ dirty' = FALSE
  /\ unread' = FALSE
  /\ UNCHANGED <<now, mem, process>>

\* Whether the temporary file can be removed is not looked at.
RenameFails ==
  /\ saving = "renaming"
  /\ saving' = "no"
  /\ tmp' \in {tmp, Absent}
  /\ UNCHANGED <<now, mem, dirty, process, file, unread>>

Crash ==
  /\ process # "down"
  /\ process' = "down"
  /\ mem' = Fresh
  /\ dirty' = FALSE
  /\ saving' = "no"
  /\ unread' = FALSE
  /\ UNCHANGED <<now, file, tmp>>

\* NewStatePersistence in a new process.
Restart ==
  /\ process = "down"
  /\ process' = "starting"
  /\ UNCHANGED <<now, mem, dirty, saving, file, tmp, unread>>

Tick ==
  /\ now < MaxTime
  /\ now' = now + 1
  /\ UNCHANGED <<mem, dirty, process, saving, file, tmp, unread>>

Next ==
  \/ \E a \in Agents, t \in {now - 1, now} \cap (Nat \ {0}), success \in BOOLEAN :
        mem[a].runs < MaxRuns /\ UpdateAgent(a, t, success)
  \/ Load \/ LoadFails
  \/ SaveBegins \/ SaveWrites \/ WriteFails \/ SaveRenames \/ RenameFails
  \/ Crash \/ Restart
  \/ Tick

Spec == Init /\ [][Next]_vars

-----------------------------------------------------------------------------

\* The state file is absent or complete, wherever a save fails or the process
\* dies: a restart never meets half a file of this program's making
\* (state.go:103-110).
FileNeverTorn == file.kind # "torn"

Saved == IF file.kind = "absent" THEN Fresh ELSE file.of

\* A process that is up and not dirty would lose nothing by dying: what is in
\* memory is on file, unless the process never got to read it.  IsDirty may
\* therefore decide whether to save (state.go:111, 141, scheduler.go:202, 226, 435).
CleanMeansSaved ==
  process = "up" /\ PersistState /\ ~unread /\ ~dirty => mem = Saved

\* The counters of an entry fit one another, in memory, on file and after any
\* number of reloads; an agent that never succeeded has failed every time, and
\* one with no failure since its last success ran last when it succeeded.
Sane(s) ==
  /\ s.consecutive <= s.failed /\ s.failed <= s.runs
  /\ s.runs = s.failed <=> s.lastSuccess = 0
  /\ s.consecutive = 0 => s.lastRun = s.lastSuccess
  /\ s.runs = 0 <=> s.lastRun = 0

HistorySane == \A a \in Agents : Sane(mem[a]) /\ Sane(Saved[a])

\* The history on file is set back by nothing but the first save of a process
\* that could not read it: otherwise a save after a restart or after a second
\* Start adds to what was saved before (state.go:48-113, scheduler.go:133).
SavedRunsNeverDecrease ==
  [][~unread => \A a \in Agents : Saved'[a].runs >= Saved[a].runs]_vars

\* The temporary file makes a save one step: memory and file behave as the
\* store that replaces its disk by the whole memory at once.
Store == INSTANCE DurableStore WITH
  Values <- History, Empty <- Fresh, mem <- mem, disk <- Saved

StoreSpec == Store!Spec
=============================================================================
