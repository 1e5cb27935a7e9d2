------------------------- MODULE OperationsHistory -------------------------
(***************************************************************************)
(* Manager of internal/operations/manager.go: the last executions of the   *)
(* agents, each with its place in the order they were recorded, and the    *)
(* pages a query gets of them.  A slice that grows at its end and is cut   *)
(* at its front is the set of its elements with their places.  A critical  *)
(* section of the mutex is one step.                                       *)
(***************************************************************************)
EXTENDS Integers, FiniteSets

CONSTANTS
  Agents,
  MaxRecords,     \* 1000
  MaxInt          \* bound: the largest int

ASSUME HistoryAssumption == MaxRecords \in Nat \ {0} /\ MaxInt \in Nat

VARIABLES
  records,
  recorded        \* how many there have been

historyVars == <<records, recorded>>

Records == [agent : Agents, success : BOOLEAN, serial : Nat]

HistoryTypeOK ==
  /\ records \subseteq Records
  /\ IsFiniteSet(records) /\ Cardinality(records) <= MaxRecords
  /\ recorded \in Nat

HistoryInit == records = {} /\ recorded = 0

Later(S, r) == {q \in S : q.serial > r.serial}

Serials(S) == {r.serial : r \in S}

\* The last MaxRecords stay.
Record(agent, success) ==
  LET all == records \cup {[agent |-> agent, success |-> success, serial |-> recorded]}
  IN /\ records' = {r \in all : Cardinality(Later(all, r)) < MaxRecords}
     /\ recorded' = recorded + 1

\* GetHistory: those of the agents and with the results asked for.
Matching(agents, results) == {r \in records : r.agent \in agents /\ r.success \in results}

\* The sum of two ints.
Plus(m, n) == IF m + n > MaxInt THEN m + n - 2 * (MaxInt + 1) ELSE m + n

\* Where the page that begins at offset ends, counted from the newest.
PageEnd(S, limit, offset) ==
  IF Plus(offset, limit) > Cardinality(S) THEN Cardinality(S) ELSE Plus(offset, limit)

\* Mutant of Page.
PageOldestFirst(S, limit, offset) ==
  {r \in S : Cardinality({q \in S : q.serial < r.serial})
                \in offset..PageEnd(S, limit, offset) - 1}

\* GetHistory and the reports' List cut a page in the same way.
Page(S, limit, offset) ==
  {r \in S : Cardinality(Later(S, r)) \in offset..PageEnd(S, limit, offset) - 1}

\* Slicing from offset to the page's end panics.
Panics(S, limit, offset) == offset <= Cardinality(S) /\ Plus(offset, limit) < offset
=============================================================================
