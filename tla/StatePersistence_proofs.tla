----------------------- MODULE StatePersistence_proofs -----------------------
(***************************************************************************)
(* Proofs about StatePersistence, for any agents and without the bounds of *)
(* the runs.  That the file is never torn is not inductive alone: it needs *)
(* what the temporary file holds between the write and the rename, and     *)
(* that memory cannot change there because Save keeps its lock.            *)
(***************************************************************************)
EXTENDS StatePersistence, TLAPS

\* Between the write and the rename the temporary file holds all of memory.
TmpComplete == saving = "renaming" => tmp = Whole(mem)

\* A process that has not tried to load has nothing in memory and saves nothing.
NotUpIsFresh ==
  process # "up" => mem = Fresh /\ dirty = FALSE /\ saving = "no"

FilesInv == TypeOK /\ FileNeverTorn /\ TmpComplete /\ NotUpIsFresh

LEMMA FreshIsHistory == Fresh \in History
BY DEF Fresh, NoRun, History, AgentState

LEMMA ContentsKinds ==
  /\ Absent \in Contents /\ Torn \in Contents
  /\ \A h \in History : Whole(h) \in Contents
  /\ Absent.kind = "absent" /\ Absent.of = Fresh /\ Torn.kind = "torn"
  /\ \A h : Whole(h).kind = "whole" /\ Whole(h).of = h
BY FreshIsHistory DEF Absent, Torn, Whole, Contents

LEMMA RanIsState ==
  ASSUME NEW s \in AgentState, NEW t \in Nat, NEW success \in BOOLEAN
  PROVE  Ran(s, t, success) \in AgentState
BY DEF Ran, AgentState

LEMMA FilesInit == Init => FilesInv
<1> SUFFICES ASSUME Init PROVE FilesInv
  OBVIOUS
<1>1. TypeOK
  BY FreshIsHistory, ContentsKinds DEF Init, TypeOK
<1>2. FileNeverTorn /\ TmpComplete /\ NotUpIsFresh
  BY ContentsKinds DEF Init, FileNeverTorn, TmpComplete, NotUpIsFresh
<1> QED
  BY <1>1, <1>2 DEF FilesInv

LEMMA UpdateKeepsFiles ==
  ASSUME FilesInv, NEW a \in Agents, NEW t \in Nat, NEW success \in BOOLEAN,
         UpdateAgent(a, t, success)
  PROVE  FilesInv'
<1>1. Ran(mem[a], t, success) \in AgentState
  BY RanIsState DEF FilesInv, TypeOK, History
<1>2. mem' \in History
  BY <1>1 DEF UpdateAgent, FilesInv, TypeOK, History
<1> QED
  BY <1>2
  DEF UpdateAgent, FilesInv, TypeOK, FileNeverTorn, TmpComplete, NotUpIsFresh

LEMMA StepKeepsFiles == FilesInv /\ [Next]_vars => FilesInv'
<1> SUFFICES ASSUME FilesInv, [Next]_vars PROVE FilesInv'
  OBVIOUS
<1> USE DEF FilesInv, TypeOK, FileNeverTorn, TmpComplete, NotUpIsFresh
<1>1. ASSUME NEW a \in Agents, NEW t \in {now - 1, now} \cap (Nat \ {0}),
             NEW success \in BOOLEAN, UpdateAgent(a, t, success)
      PROVE  FilesInv'
  BY <1>1, UpdateKeepsFiles
<1>2. CASE Load
  <2>1. file.of \in History
    BY DEF Contents
  <2> QED
    BY <1>2, <2>1, FreshIsHistory DEF Load
<1>3. CASE LoadFails
  BY <1>3 DEF LoadFails
<1>4. CASE SaveBegins
  BY <1>4, ContentsKinds DEF SaveBegins
<1>5. CASE SaveWrites
  BY <1>5, ContentsKinds DEF SaveWrites
<1>6. CASE WriteFails
  BY <1>6 DEF WriteFails
<1>7. CASE SaveRenames
  BY <1>7, ContentsKinds DEF SaveRenames
<1>8. CASE RenameFails
  BY <1>8, ContentsKinds DEF RenameFails
<1>9. CASE Crash
  BY <1>9, FreshIsHistory DEF Crash
<1>10. CASE Restart
  BY <1>10 DEF Restart
<1>11. CASE Tick
  BY <1>11 DEF Tick
<1>12. CASE UNCHANGED vars
  BY <1>12 DEF vars
<1> QED
  BY <1>1, <1>2, <1>3, <1>4, <1>5, <1>6, <1>7, <1>8, <1>9, <1>10, <1>11, <1>12
  DEF Next

\* Types, and what each file holds at each step of a save.
THEOREM FilesAlwaysKnown == Spec => []FilesInv
BY FilesInit, StepKeepsFiles, PTL DEF Spec

\* Memory, the temporary file and the state file hold histories of the registered
\* agents through every crash and failure (state.go:11-35).
THEOREM TypeCorrect == Spec => []TypeOK
<1>1. FilesInv => TypeOK
  BY DEF FilesInv
<1> QED
  BY <1>1, FilesAlwaysKnown, PTL

\* Wherever a save fails or the process dies, the state file is absent or whole
\* (state.go:103-110).
THEOREM NeverTorn == Spec => []FileNeverTorn
<1>1. FilesInv => FileNeverTorn
  BY DEF FilesInv
<1> QED
  BY <1>1, FilesAlwaysKnown, PTL

-----------------------------------------------------------------------------

\* A Load that fails leaves memory and files as they are, and all is well after it
\* only if it was before.
LEMMA FailedLoadChangesNothing ==
  ASSUME FilesInv, LoadFails
  PROVE  /\ Saved' = Saved /\ mem' = mem /\ dirty' = dirty /\ saving' = saving
         /\ ~unread' => ~unread /\ process = "up"
BY DEF FilesInv, TypeOK, LoadFails, Saved

LEMMA StepKeepsClean ==
  ASSUME FilesInv, CleanMeansSaved, [Next]_vars
  PROVE  CleanMeansSaved'
<1> USE DEF CleanMeansSaved, Saved
<1>1. ASSUME NEW a \in Agents, NEW t, NEW success, UpdateAgent(a, t, success)
      PROVE  CleanMeansSaved'
  BY <1>1 DEF UpdateAgent
<1>2. CASE Load
  BY <1>2 DEF Load
<1>3. CASE LoadFails
  BY <1>3, FailedLoadChangesNothing
<1>4. CASE SaveBegins \/ SaveWrites \/ WriteFails \/ RenameFails
  BY <1>4 DEF SaveBegins, SaveWrites, WriteFails, RenameFails
<1>5. CASE SaveRenames
  BY <1>5, ContentsKinds DEF SaveRenames, FilesInv, TmpComplete
<1>6. CASE Crash \/ Restart
  BY <1>6 DEF Crash, Restart
<1>7. CASE Tick \/ UNCHANGED vars
  BY <1>7 DEF Tick, vars
<1> QED
  BY <1>1, <1>2, <1>3, <1>4, <1>5, <1>6, <1>7 DEF Next

\* Once the file has been read or written, a process that is not dirty loses nothing by dying:
\* IsDirty may decide whether to save (state.go:111, 141).
THEOREM CleanIsSaved == Spec => []CleanMeansSaved
<1>1. Init => CleanMeansSaved
  BY DEF Init, CleanMeansSaved
<1>2. FilesInv /\ CleanMeansSaved /\ [Next]_vars => CleanMeansSaved'
  BY StepKeepsClean
<1> QED
  BY <1>1, <1>2, FilesAlwaysKnown, PTL DEF Spec

-----------------------------------------------------------------------------

\* A process that is up knows of every run that is on file, and only with
\* PersistState is anything saved.
MemoryAhead ==
  /\ saving # "no" => PersistState
  /\ process = "up" /\ PersistState /\ ~unread
       => \A a \in Agents : mem[a].runs >= Saved[a].runs

LEMMA RunsAreNumbers ==
  ASSUME TypeOK, NEW a \in Agents
  PROVE  mem[a].runs \in Nat /\ Saved[a].runs \in Nat
BY FreshIsHistory DEF TypeOK, History, AgentState, Contents, Saved

\* What every step does to the runs in memory and on file.
LEMMA StepKeepsAhead ==
  ASSUME FilesInv, MemoryAhead, [Next]_vars
  PROVE  /\ MemoryAhead'
         /\ ~unread => \A a \in Agents : Saved'[a].runs >= Saved[a].runs
<1> DEFINE Grows == \A a \in Agents : Saved'[a].runs >= Saved[a].runs
<1> DEFINE Result == MemoryAhead' /\ (~unread => Grows)
<1>0. \A a \in Agents : mem[a].runs \in Nat /\ Saved[a].runs \in Nat
  BY RunsAreNumbers DEF FilesInv
<1> USE DEF MemoryAhead
<1>1. ASSUME NEW a \in Agents, NEW t \in {now - 1, now} \cap (Nat \ {0}),
             NEW success \in BOOLEAN, UpdateAgent(a, t, success)
      PROVE  Result
  <2>1. mem \in History
    BY DEF FilesInv, TypeOK
  <2>2. Saved' = Saved
    BY <1>1 DEF UpdateAgent, Saved
  <2>3. \A b \in Agents : mem'[b].runs \in {mem[b].runs, mem[b].runs + 1}
    BY <1>1, <2>1 DEF UpdateAgent, Ran, History
  <2>4. \A b \in Agents : mem'[b].runs >= mem[b].runs
    BY <1>0, <2>3
  <2> QED
    BY <1>0, <1>1, <2>2, <2>3, <2>4 DEF UpdateAgent
<1>2. CASE Load
  <2>1. Saved' = Saved /\ (PersistState => mem' = Saved)
    BY <1>2 DEF Load, Saved
  <2> QED
    BY <1>0, <1>2, <2>1 DEF Load
<1>3. CASE LoadFails
  BY <1>3, <1>0, FailedLoadChangesNothing
<1>4. CASE SaveBegins \/ SaveWrites \/ WriteFails \/ RenameFails
  <2>1. Saved' = Saved /\ mem' = mem /\ process' = process
    BY <1>4 DEF SaveBegins, SaveWrites, WriteFails, RenameFails, Saved
  <2> QED
    BY <1>0, <1>4, <2>1 DEF SaveBegins, SaveWrites, WriteFails, RenameFails
<1>5. CASE SaveRenames
  <2>1. Saved' = mem /\ mem' = mem /\ process = "up" /\ PersistState
    BY <1>5, ContentsKinds
    DEF SaveRenames, FilesInv, TmpComplete, NotUpIsFresh, Saved
  <2> QED
    BY <1>0, <1>5, <2>1 DEF SaveRenames
<1>6. CASE Crash \/ Restart
  <2>1. Saved' = Saved /\ process' # "up" /\ (saving' # "no" => saving # "no")
    BY <1>6 DEF Crash, Restart, Saved
  <2> QED
    BY <1>0, <2>1
<1>7. CASE Tick \/ UNCHANGED vars
  <2>1. /\ Saved' = Saved /\ mem' = mem /\ process' = process /\ saving' = saving
        /\ unread' = unread
    BY <1>7 DEF Tick, vars, Saved
  <2> QED
    BY <1>0, <2>1
<1> QED
  BY <1>1, <1>2, <1>3, <1>4, <1>5, <1>6, <1>7 DEF Next

\* No sequence of crashes, restarts, loads and saves sets back the number of runs
\* on file, but the first save of a process that could not read it (state.go:48-113).
THEOREM SavedNeverSetBack == Spec => SavedRunsNeverDecrease
<1>1. Init => MemoryAhead
  BY DEF Init, MemoryAhead
<1>2. FilesInv /\ MemoryAhead /\ [Next]_vars => MemoryAhead'
  BY StepKeepsAhead
<1>3. FilesInv /\ MemoryAhead /\ [Next]_vars
        => [~unread => \A a \in Agents : Saved'[a].runs >= Saved[a].runs]_vars
  BY StepKeepsAhead
<1> QED
  BY <1>1, <1>2, <1>3, FilesAlwaysKnown, PTL DEF Spec, SavedRunsNeverDecrease

-----------------------------------------------------------------------------

LEMMA RanIsSane ==
  ASSUME NEW s \in AgentState, Sane(s), NEW t \in Nat \ {0},
         NEW success \in BOOLEAN
  PROVE  Sane(Ran(s, t, success))
<1> USE DEF AgentState, Sane, Ran
<1>1. CASE success = TRUE
  BY <1>1
<1>2. CASE success = FALSE
  BY <1>2
<1> QED
  BY <1>1, <1>2

LEMMA NoRunIsSane == Sane(NoRun)
BY DEF Sane, NoRun

LEMMA StepKeepsSane ==
  ASSUME FilesInv, HistorySane, [Next]_vars
  PROVE  HistorySane'
<1>1. \A a \in Agents : Sane(mem[a]) /\ Sane(Saved[a])
  BY DEF HistorySane
<1>2. \A a \in Agents : Sane(Fresh[a])
  BY NoRunIsSane DEF Fresh
<1>3. ASSUME Saved' = Saved, mem' \in {mem, Saved, Fresh} PROVE HistorySane'
  BY <1>1, <1>2, <1>3 DEF HistorySane
<1>4. ASSUME NEW a \in Agents, NEW t \in {now - 1, now} \cap (Nat \ {0}),
             NEW success \in BOOLEAN, UpdateAgent(a, t, success)
      PROVE  HistorySane'
  <2>1. mem[a] \in AgentState /\ mem \in History
    BY DEF FilesInv, TypeOK, History
  <2>2. Sane(Ran(mem[a], t, success))
    BY <1>1, <2>1, RanIsSane
  <2>3. \A b \in Agents : Sane(mem'[b])
    BY <1>1, <1>4, <2>1, <2>2 DEF UpdateAgent, History
  <2>4. Saved' = Saved
    BY <1>4 DEF UpdateAgent, Saved
  <2> QED
    BY <1>1, <2>3, <2>4 DEF HistorySane
<1>5. CASE Load
  BY <1>3, <1>5 DEF Load, Saved
<1>6. CASE LoadFails
  BY <1>3, <1>6 DEF LoadFails, Saved
<1>7. CASE SaveBegins \/ SaveWrites \/ WriteFails \/ RenameFails
  BY <1>3, <1>7 DEF SaveBegins, SaveWrites, WriteFails, RenameFails, Saved
<1>8. CASE SaveRenames
  <2>1. Saved' = mem /\ mem' = mem
    BY <1>8, ContentsKinds DEF SaveRenames, FilesInv, TmpComplete, Saved
  <2> QED
    BY <1>1, <2>1 DEF HistorySane
<1>9. CASE Crash \/ Restart \/ Tick \/ UNCHANGED vars
  BY <1>3, <1>9 DEF Crash, Restart, Tick, vars, Saved
<1> QED
  BY <1>4, <1>5, <1>6, <1>7, <1>8, <1>9 DEF Next

\* The counters and times of an agent fit one another in memory and on file,
\* whatever is saved, lost and loaded in between (state.go:116-142).
THEOREM HistoriesSane == Spec => []HistorySane
<1>1. Init => HistorySane
  BY NoRunIsSane, ContentsKinds DEF Init, HistorySane, Saved, Fresh
<1> QED
  BY <1>1, StepKeepsSane, FilesAlwaysKnown, PTL DEF Spec

-----------------------------------------------------------------------------

\* The initial memory and file are those of the abstract store.
LEMMA InitRefines == Init => Store!Init
BY DEF Init, Store!Init, Saved, Absent

LEMMA StepRefines ==
  ASSUME FilesInv, FilesInv', [Next]_vars
  PROVE  [Store!Next]_(Store!vars)
<1> USE DEF Store!vars, Store!Next, Saved
<1>1. ASSUME NEW a \in Agents, NEW t, NEW success, UpdateAgent(a, t, success)
      PROVE  Store!Change
  BY <1>1 DEF UpdateAgent, Store!Change, FilesInv, TypeOK
<1>2. CASE Load
  BY <1>2 DEF Load, Store!Recover, Store!Lose
<1>3. CASE LoadFails
  BY <1>3 DEF LoadFails
<1>4. CASE SaveBegins \/ SaveWrites \/ WriteFails \/ RenameFails
  BY <1>4 DEF SaveBegins, SaveWrites, WriteFails, RenameFails
<1>5. CASE SaveRenames
  BY <1>5, ContentsKinds DEF SaveRenames, Store!Commit, FilesInv, TmpComplete
<1>6. CASE Crash
  BY <1>6 DEF Crash, Store!Lose
<1>7. CASE Restart \/ Tick \/ UNCHANGED vars
  BY <1>7 DEF Restart, Tick, vars
<1> QED
  BY <1>1, <1>2, <1>3, <1>4, <1>5, <1>6, <1>7 DEF Next

\* The temporary file and the rename make a save one step of the abstract store,
\* through every failure and crash (state.go:48-113).
THEOREM ImplementsStore == Spec => StoreSpec
BY InitRefines, StepRefines, FilesAlwaysKnown, PTL DEF Spec, StoreSpec, Store!Spec
=============================================================================
