------------------------------ MODULE Reports ------------------------------
(***************************************************************************)
(* Manager of internal/report/report.go: reports are files of a directory, *)
(* named by the second they were saved in.  Nothing is locked: requests    *)
(* list, read and remove files while others write them.                    *)
(*                                                                         *)
(* A save removes all but the newest MaxReports files.  Rounds of the      *)
(* scheduler write reports of their own to the directory and remove none.  *)
(* What a report says is left out, and files of other names than those of  *)
(* reports, whose times are the ones of their last change.  Reading the    *)
(* directory, writing a file and removing one may fail; looking at a file  *)
(* fails only if it is gone.                                               *)
(***************************************************************************)
EXTENDS Clock, FiniteSets

CONSTANTS
  Goroutines,     \* requests, and rounds that write a report
  MaxReports,     \* 0 for any number
  Stored          \* reports of earlier processes

ASSUME ReportsAssumption ==
  /\ IsFiniteSet(Goroutines)
  /\ MaxReports \in Nat
  /\ IsFiniteSet(Stored) /\ Stored \subseteq {t \in Int : t < 0}

VARIABLES
  files,          \* the directory: the times the files are named by
  job,            \* what each goroutine does
  at,             \* how far it is
  name,           \* the file it writes or reads
  left,           \* the entries it has read of the directory and not yet looked at
  items,          \* those that were there when it did; the ones to remove
  answer,
  seen,           \* history: the directory as it read it
  unpruned        \* history: since a save last read the directory, the writes that no
                  \* prune follows and the removals that failed

reportVars == <<files, job, at, name, left, items, answer, seen, unpruned>>

Jobs == {"save", "write", "latest", "get", "list"}
Stages == {"idle", "begun", "named", "written", "listing", "pruning", "found", "ended"}
Answers == {"none", "saved", "report", "page", "not found", "error"}

Times == Stored \cup 0..MaxTime

\* PruneIfNeeded lists no more than this (report.go:57).
ASSUME FewerThanListed == Cardinality(Times) <= 10000

ReportsTypeOK ==
  /\ ClockTypeOK
  /\ files \in SUBSET Times
  /\ job \in [Goroutines -> Jobs \cup {"none"}]
  /\ at \in [Goroutines -> Stages]
  /\ name \in [Goroutines -> Times]
  /\ left \in [Goroutines -> SUBSET Times]
  /\ items \in [Goroutines -> SUBSET Times]
  /\ answer \in [Goroutines -> Answers]
  /\ seen \in [Goroutines -> SUBSET Times]
  /\ unpruned \in Nat

ReportsInit ==
  /\ files = Stored
  /\ job = [g \in Goroutines |-> "none"]
  /\ at = [g \in Goroutines |-> "idle"]
  /\ name = [g \in Goroutines |-> 0]
  /\ left = [g \in Goroutines |-> {}]
  /\ items = [g \in Goroutines |-> {}]
  /\ answer = [g \in Goroutines |-> "none"]
  /\ seen = [g \in Goroutines |-> {}]
  /\ unpruned = Cardinality(Stored)

Newest(S) == CHOOSE f \in S : \A h \in S : h <= f
Oldest(S) == CHOOSE f \in S : \A h \in S : f <= h
Newer(S, f) == {h \in S : h > f}

\* As many newer files are there as are kept.
Outlived(f) == MaxReports > 0 /\ Cardinality(Newer(files, f)) >= MaxReports

\* Mutants of Excess.
ExcessKeepsOneMore(S) == {f \in S : Cardinality(Newer(S, f)) > MaxReports}
ExcessOfOldestFirst(S) ==
  {f \in S : Cardinality({h \in S : h < f}) >= MaxReports}

\* All but the newest MaxReports.
Excess(S) == {f \in S : Cardinality(Newer(S, f)) >= MaxReports}

Move(g, from, to) ==
  /\ at[g] = from
  /\ at' = [at EXCEPT ![g] = to]

Answer(g, a) == answer' = [answer EXCEPT ![g] = a]

-----------------------------------------------------------------------------

Begin(g, j) ==
  /\ Move(g, "idle", "begun")
  /\ job' = [job EXCEPT ![g] = j]
  /\ UNCHANGED <<files, name, left, items, answer, seen, unpruned>>

\* Save, and the two writers of the rounds.

Names(g) ==
  /\ job[g] \in {"save", "write"}
  /\ Move(g, "begun", "named")
  /\ name' = [name EXCEPT ![g] = now]
  /\ UNCHANGED <<files, job, left, items, answer, seen, unpruned>>

\* A file of the same second is overwritten.
Writes(g) ==
  LET prunes == job[g] = "save" /\ MaxReports > 0 IN
  /\ Move(g, "named", IF prunes THEN "written" ELSE "ended")
  /\ files' = files \cup {name[g]}
  /\ unpruned' = IF prunes THEN unpruned ELSE unpruned + 1
  /\ Answer(g, "saved")
  /\ UNCHANGED <<job, name, left, items, seen>>

\* WriteFile may fail before it creates the file or after.
WriteFails(g) ==
  /\ Move(g, "named", "ended")
  /\ files' \in {files, files \cup {name[g]}}
  /\ unpruned' = unpruned + 1
  /\ Answer(g, "error")
  /\ UNCHANGED <<job, name, left, items, seen>>

\* List: the names at once, then each file in their order.

Lists(g) ==
  \/ job[g] = "save" /\ at[g] = "written"
  \/ job[g] \in {"latest", "list"} /\ at[g] = "begun"

ReadsDir(g) ==
  /\ Lists(g)
  /\ Move(g, at[g], "listing")
  /\ left' = [left EXCEPT ![g] = files]
  /\ seen' = [seen EXCEPT ![g] = files]
  /\ unpruned' = IF job[g] = "save" THEN 0 ELSE unpruned
  /\ UNCHANGED <<files, job, name, items, answer>>

\* Save ignores that its list failed.
ReadDirFails(g) ==
  /\ Lists(g)
  /\ Move(g, at[g], "ended")
  /\ IF job[g] = "save"
     THEN unpruned' = unpruned + 1 /\ UNCHANGED answer
     ELSE Answer(g, "error") /\ UNCHANGED unpruned
  /\ UNCHANGED <<files, job, name, left, items, seen>>

Stats(g) ==
  /\ Move(g, "listing", "listing")
  /\ left[g] # {}
  /\ left' = [left EXCEPT ![g] = @ \ {Oldest(@)}]
  /\ items' = [items EXCEPT ![g] = @ \cup ({Oldest(left[g])} \cap files)]
  /\ UNCHANGED <<files, job, name, answer, seen, unpruned>>

Listed(g, j) == job[g] = j /\ at[g] = "listing" /\ left[g] = {}

\* PruneIfNeeded has its list.
FindsExcess(g) ==
  /\ Listed(g, "save")
  /\ Move(g, "listing", IF Excess(items[g]) = {} THEN "ended" ELSE "pruning")
  /\ items' = [items EXCEPT ![g] = Excess(@)]
  /\ UNCHANGED <<files, job, name, left, answer, seen, unpruned>>

Removes(g) ==
  LET f == Newest(items[g]) IN
  /\ Move(g, "pruning", IF items[g] = {f} THEN "ended" ELSE "pruning")
  /\ files' = files \ {f}
  /\ items' = [items EXCEPT ![g] = @ \ {f}]
  /\ UNCHANGED <<job, name, left, answer, seen, unpruned>>

\* PruneIfNeeded ignores that a file is not removed, and goes on with the next.
RemoveFails(g) ==
  LET f == Newest(items[g]) IN
  /\ Move(g, "pruning", IF items[g] = {f} THEN "ended" ELSE "pruning")
  /\ f \in files
  /\ items' = [items EXCEPT ![g] = @ \ {f}]
  /\ unpruned' = unpruned + 1
  /\ UNCHANGED <<files, job, name, left, answer, seen>>

\* The page of it is cut as OperationsHistory!Page says.
EndsList(g) ==
  /\ Listed(g, "list")
  /\ Move(g, "listing", "ended")
  /\ Answer(g, "page")
  /\ UNCHANGED <<files, job, name, left, items, seen, unpruned>>

\* Mutant of FindsLatest.
FindsOldest(g) ==
  /\ Listed(g, "latest")
  /\ IF items[g] = {}
     THEN Move(g, "listing", "ended") /\ Answer(g, "not found") /\ UNCHANGED name
     ELSE /\ Move(g, "listing", "found")
          /\ name' = [name EXCEPT ![g] = Oldest(items[g])]
          /\ UNCHANGED answer
  /\ UNCHANGED <<files, job, left, items, seen, unpruned>>

\* Latest: the newest of the list is read by its name.

FindsLatest(g) ==
  /\ Listed(g, "latest")
  /\ IF items[g] = {}
     THEN Move(g, "listing", "ended") /\ Answer(g, "not found") /\ UNCHANGED name
     ELSE /\ Move(g, "listing", "found")
          /\ name' = [name EXCEPT ![g] = Newest(items[g])]
          /\ UNCHANGED answer
  /\ UNCHANGED <<files, job, left, items, seen, unpruned>>

FindsName(g) ==
  /\ job[g] = "get"
  /\ Move(g, "begun", "found")
  /\ \E f \in Times : name' = [name EXCEPT ![g] = f]
  /\ UNCHANGED <<files, job, left, items, answer, seen, unpruned>>

Gets(g) ==
  /\ Move(g, "found", "ended")
  /\ Answer(g, IF name[g] \in files THEN "report" ELSE "not found")
  /\ UNCHANGED <<files, job, name, left, items, seen, unpruned>>

ReportStep(g) ==
  \/ Names(g) \/ Writes(g) \/ WriteFails(g)
  \/ ReadsDir(g) \/ ReadDirFails(g) \/ Stats(g)
  \/ FindsExcess(g) \/ Removes(g) \/ RemoveFails(g) \/ EndsList(g)
  \/ FindsLatest(g) \/ FindsName(g) \/ Gets(g)

ReportsNext ==
  \/ /\ \E g \in Goroutines : (\E j \in Jobs : Begin(g, j)) \/ ReportStep(g)
     /\ UNCHANGED now
  \/ Tick /\ UNCHANGED reportVars

ReportsSpec == ClockInit /\ ReportsInit /\ [][ReportsNext]_<<now, reportVars>>

-----------------------------------------------------------------------------

\* Whatever saves interleave, and however late one of them writes, no file is
\* removed but one that MaxReports newer ones outlive, and none if any number is kept
\* (report.go:53-67: a list that is no longer true still only has files to remove that
\* are not wanted).
NewestKept == [][\A f \in files \ files' : Outlived(f)']_reportVars

Saving(g) == job[g] = "save" /\ at[g] \in {"written", "listing", "pruning"}

\* When no save is under way there are no more than MaxReports files, but for what
\* was written by others, or by saves that failed, and what could not be removed,
\* since a save last read the directory (report.go:62-65 and 204): of saves that
\* overlap, the last to read it sees the files of all.
PrunedAtRest ==
  MaxReports > 0 /\ (\A g \in Goroutines : ~Saving(g))
    => Cardinality(files) <= MaxReports + unpruned

\* Latest returns the newest report of the directory as it was read, although it lists
\* the directory first, looks at one file after another and reads the newest last, while
\* others are written and removed.  It may return none, or an older one, only if as many
\* newer files as are kept have come since (report.go:70-112 and 208-217).
LatestUnlessOvertaken ==
  \A g \in Goroutines :
    job[g] = "latest" /\ (answer[g] = "report" \/ (answer[g] = "not found" /\ seen[g] # {}))
      => \/ answer[g] = "report" /\ name[g] = Newest(seen[g])
         \/ Outlived(Newest(seen[g]))
=============================================================================
