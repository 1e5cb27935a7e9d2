---------------------------- MODULE DurableStore ----------------------------
(***************************************************************************)
(* What the state file promises the scheduler (state.go:29, "supports      *)
(* restart recovery"): a value in memory and a value on disk, the one on   *)
(* disk replaced only by the whole value in memory, in one step.  Memory   *)
(* may be lost at any time and is then refilled from disk or left as it    *)
(* is.  StatePersistence implements this with a temporary file.            *)
(***************************************************************************)
CONSTANTS
  Values,     \* what memory and disk may hold
  Empty       \* the one of them a new process starts with

VARIABLES mem, disk

vars == <<mem, disk>>

Init == mem = Empty /\ disk = Empty

Change == mem' \in Values /\ UNCHANGED disk

Commit == disk' = mem /\ UNCHANGED mem

Recover == mem' = disk /\ UNCHANGED disk

Lose == mem' = Empty /\ UNCHANGED disk

Next == Change \/ Commit \/ Recover \/ Lose

Spec == Init /\ [][Next]_vars
=============================================================================
